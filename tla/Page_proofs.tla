----------------------------- MODULE Page_proofs -----------------------------
(* What is proved of the parts of a page (MCPage), each for every value of    *)
(* its constants: one section per component, which holds its inductive        *)
(* invariant, the lemmas of its steps and its theorems.  Whitelist has its    *)
(* section in UseRelay_proofs.                                                *)
EXTENDS MCPage, FiniteSetTheorems, SequenceTheorems, TLAPS

-----------------------------------------------------------------------------
(* Talk.tla.  That what is deleted stays deleted, what is marked as         *)
(* delivered has arrived, what was opened cannot be opened again, what is   *)
(* on its way can be opened, and two pages that have read everything show   *)
(* the same, for any number of messages, chunks and faults.                 *)

(* What is on its way to a page *)

\* The frames that open a message on the page they reach.
Opening(f) == f.type \in {"text", "file", "init"}
OpensAs(f) == IF f.type = "text" THEN "text" ELSE "file"

IsSeq(s) == \E S : s \in Seq(S)
In(s) == {s[i] : i \in 1..Len(s)}
Way(p) == In(relay[p]) \cup In(direct[p])

\* No message is opened twice.
Distinct(f, g) == Opening(f) /\ Opening(g) => f.nonce # g.nonce
Single(s) == \A i, j \in 1..Len(s) : i # j => Distinct(s[i], s[j])
Apart(s, t) == \A f \in In(s), g \in In(t) : Distinct(f, g)

Ways ==
    /\ relay = [p \in Pages |-> relay[p]] /\ direct = [p \in Pages |-> direct[p]]
    /\ \A p \in Pages : /\ IsSeq(relay[p]) /\ IsSeq(direct[p])
                        /\ Single(relay[p]) /\ Single(direct[p])
                        /\ Apart(relay[p], direct[p])

LEMMA OtherPage == \A p \in Pages : Other(p) \in Pages /\ Other(p) # p /\ Other(Other(p)) = p
BY PagesDiffer DEF Pages, Other

LEMMA Taken ==
  ASSUME NEW s, IsSeq(s), s # <<>>, Single(s)
  PROVE  /\ IsSeq(Tail(s)) /\ Single(Tail(s)) /\ In(Tail(s)) \subseteq In(s)
         /\ Head(s) \in In(s) /\ \A g \in In(Tail(s)) : Distinct(Head(s), g)
<1>1. PICK S : s \in Seq(S)
  BY DEF IsSeq
<1>2. PICK t : t = Tail(s)
  OBVIOUS
<1>3. /\ t \in Seq(S) /\ Len(s) \in Nat \ {0} /\ Len(t) = Len(s) - 1 /\ Head(s) = s[1]
      /\ \A i \in 1..Len(t) : t[i] = s[i + 1] /\ i + 1 \in 1..Len(s) /\ i + 1 # 1
  BY <1>1, <1>2, LenProperties, HeadTailProperties
<1>4. Single(t)
  <2>1. ASSUME NEW i \in 1..Len(t), NEW j \in 1..Len(t), i # j
        PROVE  Distinct(t[i], t[j])
    <3>1. i + 1 # j + 1 /\ i + 1 \in 1..Len(s) /\ j + 1 \in 1..Len(s)
      BY <1>3, <2>1
    <3>2. Distinct(s[i + 1], s[j + 1])
      BY <3>1 DEF Single
    <3> QED
      BY <1>3, <3>2
  <2> QED
    BY <2>1 DEF Single
<1>5. In(t) \subseteq In(s) /\ Head(s) \in In(s)
  BY <1>3 DEF In
<1>6. ASSUME NEW g \in In(t)
      PROVE  Distinct(Head(s), g)
  <2>1. PICK i \in 1..Len(t) : g = t[i]
    BY DEF In
  <2>2. 1 \in 1..Len(s) /\ i + 1 \in 1..Len(s) /\ i + 1 # 1
    BY <1>3
  <2>3. Distinct(s[1], s[i + 1])
    BY <2>2 DEF Single
  <2> QED
    BY <1>3, <2>1, <2>3
<1>7. IsSeq(t)
  BY <1>3 DEF IsSeq
<1> QED
  BY <1>2, <1>4, <1>5, <1>6, <1>7

LEMMA Added ==
  ASSUME NEW s, IsSeq(s), Single(s), NEW f, \A g \in In(s) : Distinct(f, g)
  PROVE  /\ IsSeq(Append(s, f)) /\ Single(Append(s, f))
         /\ In(Append(s, f)) \subseteq In(s) \cup {f}
<1>1. PICK S : s \in Seq(S)
  BY DEF IsSeq
<1>2. PICK t : t = Append(s, f)
  OBVIOUS
<1>3. s \in Seq(S \cup {f})
  BY <1>1, SeqMonotonic
<1>4. /\ t \in Seq(S \cup {f}) /\ Len(s) \in Nat /\ Len(t) = Len(s) + 1
      /\ t[Len(s) + 1] = f /\ \A i \in 1..Len(s) : t[i] = s[i]
  BY <1>2, <1>3, LenProperties, AppendProperties
<1>5. \A i \in 1..Len(t) : (i \in 1..Len(s) /\ t[i] = s[i]) \/ (i = Len(s) + 1 /\ t[i] = f)
  BY <1>4
<1>6. \A g \in In(s) : Distinct(g, f)
  BY DEF Distinct
<1>7. ASSUME NEW i \in 1..Len(t), NEW j \in 1..Len(t), i # j
      PROVE  Distinct(t[i], t[j])
  <2>1. CASE i \in 1..Len(s) /\ t[i] = s[i] /\ j \in 1..Len(s) /\ t[j] = s[j]
    BY <1>7, <2>1 DEF Single
  <2>2. CASE i \in 1..Len(s) /\ t[i] = s[i] /\ t[j] = f
    BY <1>6, <2>2 DEF In
  <2>3. CASE t[i] = f /\ j \in 1..Len(s) /\ t[j] = s[j]
    BY <2>3 DEF In
  <2> QED
    BY <1>5, <1>7, <2>1, <2>2, <2>3
<1>8. Single(t)
  BY <1>7 DEF Single
<1>9. In(t) \subseteq In(s) \cup {f}
  BY <1>5 DEF In
<1> QED
  BY <1>2, <1>4, <1>8, <1>9 DEF IsSeq

LEMMA ArrivesWay ==
  ASSUME Ways, NEW p \in Pages, NEW f, Arrives(p, f)
  PROVE  /\ Ways' /\ f \in Way(p) /\ \A q \in Pages : Way(q)' \subseteq Way(q)
         /\ \A g \in Way(p)' : Distinct(f, g)
<1>1. ASSUME relay[p] # <<>>, f = Head(relay[p]), relay' = [relay EXCEPT ![p] = Tail(@)],
             direct' = direct
      PROVE  /\ Ways' /\ f \in Way(p) /\ \A q \in Pages : Way(q)' \subseteq Way(q)
             /\ \A g \in Way(p)' : Distinct(f, g)
  <2>1. /\ relay' = [q \in Pages |-> relay'[q]] /\ relay'[p] = Tail(relay[p])
        /\ \A q \in Pages \ {p} : relay'[q] = relay[q]
    BY <1>1 DEF Ways
  <2>2. /\ IsSeq(relay'[p]) /\ Single(relay'[p]) /\ In(relay'[p]) \subseteq In(relay[p])
        /\ f \in In(relay[p]) /\ \A g \in In(relay'[p]) : Distinct(f, g)
    BY <1>1, <2>1, Taken DEF Ways
  <2>3. Apart(relay'[p], direct[p]) /\ \A g \in In(direct[p]) : Distinct(f, g)
    BY <2>2 DEF Ways, Apart
  <2>4. Ways'
    BY <1>1, <2>1, <2>2, <2>3 DEF Ways
  <2>5. \A q \in Pages : Way(q)' \subseteq Way(q)
    BY <1>1, <2>1, <2>2 DEF Way
  <2> QED
    BY <1>1, <2>2, <2>3, <2>4, <2>5 DEF Way
<1>2. ASSUME direct[p] # <<>>, f = Head(direct[p]), direct' = [direct EXCEPT ![p] = Tail(@)],
             relay' = relay
      PROVE  /\ Ways' /\ f \in Way(p) /\ \A q \in Pages : Way(q)' \subseteq Way(q)
             /\ \A g \in Way(p)' : Distinct(f, g)
  <2>1. /\ direct' = [q \in Pages |-> direct'[q]] /\ direct'[p] = Tail(direct[p])
        /\ \A q \in Pages \ {p} : direct'[q] = direct[q]
    BY <1>2 DEF Ways
  <2>2. /\ IsSeq(direct'[p]) /\ Single(direct'[p]) /\ In(direct'[p]) \subseteq In(direct[p])
        /\ f \in In(direct[p]) /\ \A g \in In(direct'[p]) : Distinct(f, g)
    BY <1>2, <2>1, Taken DEF Ways
  <2>3. Apart(relay[p], direct'[p]) /\ \A g \in In(relay[p]) : Distinct(g, f)
    BY <2>2 DEF Ways, Apart
  <2>4. \A g \in In(relay[p]) : Distinct(f, g)
    BY <2>3 DEF Distinct
  <2>5. Ways'
    BY <1>2, <2>1, <2>2, <2>3 DEF Ways
  <2>6. \A q \in Pages : Way(q)' \subseteq Way(q)
    BY <1>2, <2>1, <2>2 DEF Way
  <2> QED
    BY <1>2, <2>2, <2>4, <2>5, <2>6 DEF Way
<1> QED
  BY <1>1, <1>2 DEF Arrives

LEMMA DispatchWay ==
  ASSUME Ways, NEW p \in Pages, NEW f, dispatch(p, f) \/ dispatchDirect(p, f),
         \A g \in Way(Other(p)) : Distinct(f, g)
  PROVE  /\ Ways'
         /\ \A q \in Pages : Way(q)' \subseteq IF q = Other(p) THEN Way(q) \cup {f} ELSE Way(q)
<1>1. PICK r \in Pages : r = Other(p)
  BY OtherPage
<1>2. ASSUME relay' = [relay EXCEPT ![r] = Append(@, f)], direct' = direct
      PROVE  /\ Ways'
             /\ \A q \in Pages : Way(q)' \subseteq IF q = r THEN Way(q) \cup {f} ELSE Way(q)
  <2>1. /\ relay' = [q \in Pages |-> relay'[q]] /\ relay'[r] = Append(relay[r], f)
        /\ \A q \in Pages \ {r} : relay'[q] = relay[q]
    BY <1>2 DEF Ways
  <2>2. \A g \in In(relay[r]) \cup In(direct[r]) : Distinct(f, g)
    BY <1>1 DEF Way
  <2>3. /\ IsSeq(relay'[r]) /\ Single(relay'[r])
        /\ In(relay'[r]) \subseteq In(relay[r]) \cup {f}
    BY <2>1, <2>2, Added DEF Ways
  <2>4. Apart(relay'[r], direct[r])
    BY <2>2, <2>3 DEF Ways, Apart
  <2>5. Ways'
    BY <1>2, <2>1, <2>3, <2>4 DEF Ways
  <2> QED
    BY <1>2, <2>1, <2>3, <2>5 DEF Way
<1>3. ASSUME direct' = [direct EXCEPT ![r] = Append(@, f)], relay' = relay
      PROVE  /\ Ways'
             /\ \A q \in Pages : Way(q)' \subseteq IF q = r THEN Way(q) \cup {f} ELSE Way(q)
  <2>1. /\ direct' = [q \in Pages |-> direct'[q]] /\ direct'[r] = Append(direct[r], f)
        /\ \A q \in Pages \ {r} : direct'[q] = direct[q]
    BY <1>3 DEF Ways
  <2>2. \A g \in In(relay[r]) \cup In(direct[r]) : Distinct(f, g)
    BY <1>1 DEF Way
  <2>3. /\ IsSeq(direct'[r]) /\ Single(direct'[r])
        /\ In(direct'[r]) \subseteq In(direct[r]) \cup {f}
    BY <2>1, <2>2, Added DEF Ways
  <2>4. \A g \in In(relay[r]) : Distinct(g, f)
    BY <2>2 DEF Distinct
  <2>5. Apart(relay[r], direct'[r])
    BY <2>3, <2>4 DEF Ways, Apart
  <2>6. Ways'
    BY <1>3, <2>1, <2>3, <2>5 DEF Ways
  <2> QED
    BY <1>3, <2>1, <2>3, <2>6 DEF Way
<1> QED
  BY <1>1, <1>2, <1>3 DEF dispatch, dispatchDirect

LEMMA LossWay ==
  ASSUME Ways, LinkDies \/ \E p \in Pages : RelayLoses(p)
  PROVE  Ways' /\ \A q \in Pages : Way(q)' \subseteq Way(q)
<1>1. CASE LinkDies
  <2>1. /\ relay' = relay /\ direct' = [q \in Pages |-> direct'[q]]
        /\ \A q \in Pages : direct'[q] = <<>>
    BY <1>1 DEF LinkDies
  <2>2. IsSeq(<<>>) /\ In(<<>>) = {} /\ Single(<<>>) /\ Len(<<>>) = 0
    <3>1. <<>> \in Seq({}) /\ Len(<<>>) = 0
      OBVIOUS
    <3> QED
      BY <3>1 DEF IsSeq, In, Single
  <2>3. \A q \in Pages : Apart(relay[q], direct'[q])
    BY <2>1, <2>2 DEF Apart
  <2> QED
    BY <2>1, <2>2, <2>3 DEF Ways, Way
<1>2. ASSUME NEW p \in Pages, RelayLoses(p)
      PROVE  Ways' /\ \A q \in Pages : Way(q)' \subseteq Way(q)
  <2>1. Arrives(p, Head(relay[p]))
    BY <1>2 DEF RelayLoses, Arrives
  <2> QED
    BY <2>1, ArrivesWay
<1> QED
  BY <1>1, <1>2

(* What the pages show *)

Message == [kind : {"none", "text", "file"}, own : BOOLEAN, text : 0..MaxSealed,
            deleted : BOOLEAN, status : {"none", "sent", "delivered", "seen"},
            whole : BOOLEAN, fileError : BOOLEAN]

\* A message that has arrived: what a receipt vouches for.
Arrived(p, n) == LET o == messages[Other(p)][n] IN
    /\ o.kind = messages[p][n].kind /\ o.whole /\ ~o.fileError
    /\ receiver[Other(p)][n] = Closed

TalkType ==
    /\ messages \in [Pages -> [Nonces -> Message]]
    /\ receiver \in [Pages -> [Nonces -> Int]]
    /\ sealed \in 0..MaxSealed /\ terminals \subseteq Pages
    /\ receipts = [p \in Pages |-> receipts[p]]
    /\ sending \in [Pages -> [nonce : Nat, next : Nat]]

\* The two copies of a message, and the receiver that fills one of them.
Kept(p, n) == LET m == messages[p][n]  o == messages[Other(p)][n] IN
    /\ m.kind # "none" => n <= sealed
    /\ m.kind = "none" => m = Absent
    /\ m.status = "seen" => m.own
    /\ m.kind # "none" /\ ~m.own => o.own /\ o.kind = m.kind
    /\ m.own => ~o.own
    /\ receiver[p][n] # Closed => m.kind = "file" /\ ~m.own /\ ~m.whole /\ ~m.fileError
    /\ p \in terminals => ~m.deleted /\ m.status # "seen"
    /\ m.own /\ m.status = "delivered" => Arrived(p, n)

\* A frame is its author's; one that opens a message finds none.
Carried(p, f) ==
    /\ f.nonce \in Nonces
    /\ f.type = "edit" => f.arg \in Nonces
    /\ Opening(f) => /\ messages[Other(p)][f.nonce].own
                     /\ messages[Other(p)][f.nonce].kind = OpensAs(f)
                     /\ messages[p][f.nonce].kind = "none"

Vouched(p, f) ==
    /\ f.nonce \in Nonces /\ messages[p][f.nonce].own
    /\ f.type # "read" => Arrived(p, f.nonce)

TalkInv ==
    /\ TalkType /\ Ways
    /\ \A p \in Pages : \A n \in Nonces : Kept(p, n)
    /\ \A p \in Pages : \A f \in Way(p) : Carried(p, f)
    /\ \A p \in Pages : \A f \in receipts[p] : Vouched(p, f)
    /\ \A p \in Pages : sending[p] # NoStream =>
          sending[p].nonce \in Nonces /\ messages[p][sending[p].nonce].own

\* Nothing that is deleted comes back and nothing that is seen is unseen.
Stays(p, n) == /\ messages[p][n].deleted => messages'[p][n].deleted
               /\ messages[p][n].status = "seen" => messages'[p][n].status = "seen"

LEMMA ShownType ==
  ASSUME NEW k \in {"text", "file"}, NEW o \in BOOLEAN, NEW w \in BOOLEAN,
         NEW m, m = Shown(k, o, w)
  PROVE  /\ m \in Message /\ m.kind = k /\ (m.own <=> o) /\ (m.whole <=> w) /\ ~m.fileError
         /\ ~m.deleted /\ m.status = IF o THEN "sent" ELSE "delivered"
<1>1. PICK st : st = IF o THEN "sent" ELSE "delivered"
  OBVIOUS
<1>2. PICK m0 \in Message : m0 = Absent /\ ~m0.deleted /\ ~m0.fileError
  <2>1. 0 \in 0..MaxSealed
    BY Bounds
  <2>2. Absent \in Message
    BY <2>1 DEF Absent, Message
  <2> QED
    BY <2>2 DEF Absent
<1>3. PICK m1 : m1 = [m0 EXCEPT !.kind = k]
  OBVIOUS
<1>4. PICK m2 : m2 = [m1 EXCEPT !.own = o]
  OBVIOUS
<1>5. PICK m3 : m3 = [m2 EXCEPT !.whole = w]
  OBVIOUS
<1>6. PICK m4 : m4 = [m3 EXCEPT !.status = st]
  OBVIOUS
<1>7. st \in {"none", "sent", "delivered", "seen"}
  BY <1>1
<1>8. m1 \in Message /\ m1.kind = k /\ ~m1.deleted /\ ~m1.fileError
  BY <1>2, <1>3 DEF Message
<1>9. m2 \in Message /\ m2.kind = k /\ (m2.own <=> o) /\ ~m2.deleted /\ ~m2.fileError
  BY <1>4, <1>8 DEF Message
<1>10. /\ m3 \in Message /\ m3.kind = k /\ (m3.own <=> o) /\ (m3.whole <=> w)
       /\ ~m3.deleted /\ ~m3.fileError
  BY <1>5, <1>9 DEF Message
<1>11. /\ m4 \in Message /\ m4.kind = k /\ (m4.own <=> o) /\ (m4.whole <=> w)
       /\ ~m4.deleted /\ ~m4.fileError /\ m4.status = st
  BY <1>6, <1>7, <1>10 DEF Message
<1>12. m = m4
  BY <1>1, <1>2, <1>3, <1>4, <1>5, <1>6 DEF Shown
<1> QED
  BY <1>1, <1>11, <1>12

LEMMA MessageType ==
  /\ Absent \in Message /\ Absent.kind = "none" /\ ~Absent.own /\ Absent.status = "none"
  /\ ~Absent.deleted
  /\ \A k \in {"text", "file"}, o \in BOOLEAN, w \in BOOLEAN :
        LET m == Shown(k, o, w) IN
        /\ m \in Message /\ m.kind = k /\ (m.own <=> o) /\ (m.whole <=> w) /\ ~m.fileError
        /\ ~m.deleted /\ m.status = IF o THEN "sent" ELSE "delivered"
<1>1. 0 \in 0..MaxSealed
  BY Bounds
<1>2. Absent \in Message /\ Absent.kind = "none" /\ ~Absent.own /\ Absent.status = "none"
      /\ ~Absent.deleted
  BY <1>1 DEF Absent, Message
<1>3. ASSUME NEW k \in {"text", "file"}, NEW o \in BOOLEAN, NEW w \in BOOLEAN
      PROVE  LET m == Shown(k, o, w) IN
        /\ m \in Message /\ m.kind = k /\ (m.own <=> o) /\ (m.whole <=> w) /\ ~m.fileError
        /\ ~m.deleted /\ m.status = IF o THEN "sent" ELSE "delivered"
  <2>1. PICK m : m = Shown(k, o, w)
    OBVIOUS
  <2> QED
    BY <2>1, ShownType
<1> QED
  BY <1>2, <1>3

\* One message of one page changes, and perhaps the receiver that fills it: all
\* the steps of a conversation are of this form.
Changes(p, n, m, r) ==
    /\ messages' = [messages EXCEPT ![p][n] = m]
    /\ receiver' = [receiver EXCEPT ![p][n] = r]
    /\ terminals' = terminals /\ sealed' \in sealed..MaxSealed

\* The message may change so.
Sound(p, n, m, r) == LET was == messages[p][n]  o == messages[Other(p)][n] IN
    /\ m.kind # "none" => n <= sealed'
    /\ m.kind = "none" => m = Absent
    /\ m.status = "seen" => m.own
    /\ m.kind # "none" /\ ~m.own => o.own /\ o.kind = m.kind
    /\ m.own => ~o.own
    /\ was.own => m.own
    /\ was.kind # "none" => m.kind = was.kind
    /\ r # Closed => m.kind = "file" /\ ~m.own /\ ~m.whole /\ ~m.fileError
    /\ p \in terminals => ~m.deleted /\ m.status # "seen"
    /\ m.own /\ m.status = "delivered" => Arrived(p, n)
    /\ o.own /\ Arrived(Other(p), n) => m.whole /\ ~m.fileError /\ r = Closed
    /\ was.deleted => m.deleted
    /\ was.status = "seen" => m.status = "seen"

LEMMA ChangeSlot ==
  ASSUME TalkInv, NEW p \in Pages, NEW n \in Nonces, NEW m \in Message, NEW r \in Int,
         Changes(p, n, m, r)
  PROVE  /\ messages' \in [Pages -> [Nonces -> Message]]
         /\ receiver' \in [Pages -> [Nonces -> Int]]
         /\ messages'[p][n] = m /\ receiver'[p][n] = r
         /\ \A q \in Pages, k \in Nonces : q # p \/ k # n =>
              messages'[q][k] = messages[q][k] /\ receiver'[q][k] = receiver[q][k]
<1>1. messages \in [Pages -> [Nonces -> Message]] /\ receiver \in [Pages -> [Nonces -> Int]]
  BY DEF TalkInv, TalkType
<1>2. PICK mp \in [Nonces -> Message] : mp = messages[p]
  BY <1>1
<1>3. PICK rp \in [Nonces -> Int] : rp = receiver[p]
  BY <1>1
<1>4. messages' = [messages EXCEPT ![p] = [mp EXCEPT ![n] = m]]
      /\ receiver' = [receiver EXCEPT ![p] = [rp EXCEPT ![n] = r]]
  BY <1>2, <1>3 DEF Changes
<1>5. [mp EXCEPT ![n] = m] \in [Nonces -> Message] /\ [rp EXCEPT ![n] = r] \in [Nonces -> Int]
  OBVIOUS
<1>6. messages' \in [Pages -> [Nonces -> Message]] /\ receiver' \in [Pages -> [Nonces -> Int]]
  BY <1>1, <1>4, <1>5
<1>7. messages'[p] = [mp EXCEPT ![n] = m] /\ receiver'[p] = [rp EXCEPT ![n] = r]
  BY <1>1, <1>4
<1>8. \A q \in Pages \ {p} : messages'[q] = messages[q] /\ receiver'[q] = receiver[q]
  BY <1>1, <1>4
<1>9. messages'[p][n] = m /\ receiver'[p][n] = r
  BY <1>7
<1>10. \A k \in Nonces \ {n} : messages'[p][k] = messages[p][k] /\ receiver'[p][k] = receiver[p][k]
  BY <1>2, <1>3, <1>7
<1> QED
  BY <1>6, <1>8, <1>9, <1>10

\* What a sound change keeps.
LEMMA ChangeKeeps ==
  ASSUME TalkInv, NEW p \in Pages, NEW n \in Nonces, NEW m \in Message, NEW r \in Int,
         Changes(p, n, m, r), Sound(p, n, m, r)
  PROVE  /\ \A q \in Pages, k \in Nonces : Kept(q, k)'
         /\ \A q \in Pages, k \in Nonces : Stays(q, k)
         /\ \A q \in Pages, k \in Nonces : messages[q][k].own =>
               /\ messages'[q][k].own /\ messages'[q][k].kind = messages[q][k].kind
               /\ Arrived(q, k) => Arrived(q, k)'
<1>1. PICK ms : ms = messages'
  OBVIOUS
<1>2. PICK rs : rs = receiver'
  OBVIOUS
<1>3. /\ ms[p][n] = m /\ rs[p][n] = r
      /\ \A q \in Pages, k \in Nonces : q # p \/ k # n =>
            ms[q][k] = messages[q][k] /\ rs[q][k] = receiver[q][k]
  BY <1>1, <1>2, ChangeSlot
<1>4. PICK o \in Pages : o = Other(p) /\ o # p /\ Other(o) = p /\ Pages = {p, o}
  BY OtherPage DEF Pages, Other
<1>5. PICK top : top = sealed'
  OBVIOUS
<1>6. top >= sealed /\ terminals' = terminals /\ sealed \in Nat /\ top \in Int
  BY <1>5 DEF Changes, TalkInv, TalkType
<1>7. PICK was : was = messages[p][n]
  OBVIOUS
<1>8. PICK om : om = messages[o][n]
  OBVIOUS
<1>9. Kept(p, n) /\ Kept(o, n)
  BY DEF TalkInv
<1>10. ASSUME NEW q \in Pages, NEW k \in Nonces, messages[q][k].own
       PROVE  /\ ms[q][k].own /\ ms[q][k].kind = messages[q][k].kind
              /\ Arrived(q, k) => Arrived(q, k)'
  <2>1. CASE k # n
    BY <1>1, <1>2, <1>3, <1>10, <2>1, OtherPage DEF Arrived
  <2>2. CASE k = n /\ q = p
    <3>1. ms[p][n].own /\ was.kind # "none" /\ ms[p][n].kind = was.kind
      BY <1>3, <1>7, <1>9, <1>10, <2>2, MessageType DEF Sound, Kept
    <3>2. ms[o][n] = om /\ rs[o][n] = receiver[o][n]
      BY <1>3, <1>4, <1>8
    <3>3. Arrived(p, n) => Arrived(p, n)'
      BY <1>1, <1>2, <1>4, <1>7, <1>8, <3>1, <3>2 DEF Arrived
    <3> QED
      BY <1>7, <2>2, <3>1, <3>3
  <2>3. CASE k = n /\ q = o
    <3>1. ms[o][n] = om /\ om.own
      BY <1>3, <1>4, <1>8, <1>10, <2>3
    <3>2. ASSUME Arrived(o, n)
          PROVE  Arrived(o, n)'
      <4>1. m.whole /\ ~m.fileError /\ r = Closed
        BY <1>4, <1>8, <3>1, <3>2 DEF Sound
      <4>2. was.kind = om.kind
        BY <1>4, <1>7, <1>8, <3>2 DEF Arrived
      <4>3. om.kind # "none"
        BY <1>8, <1>9, <3>1, MessageType DEF Kept
      <4>4. m.kind = om.kind
        BY <1>7, <4>2, <4>3 DEF Sound
      <4> QED
        BY <1>1, <1>2, <1>3, <1>4, <3>1, <4>1, <4>4 DEF Arrived
    <3> QED
      BY <1>8, <2>3, <3>1, <3>2
  <2> QED
    BY <1>4, <2>1, <2>2, <2>3
<1>11. ASSUME NEW q \in Pages, NEW k \in Nonces
       PROVE  Kept(q, k)'
  <2>1. Kept(q, k) /\ Other(q) \in Pages
    BY OtherPage DEF TalkInv
  <2>2. messages[q][k].kind # "none" => k <= top
    BY <1>6, <2>1, Bounds DEF Kept, Nonces
  <2>3. CASE k # n
    <3>1. ms[q][k] = messages[q][k] /\ ms[Other(q)][k] = messages[Other(q)][k]
          /\ rs[q][k] = receiver[q][k]
      BY <1>3, <2>1, <2>3
    <3>2. messages[q][k].own /\ messages[q][k].status = "delivered" => Arrived(q, k)'
      BY <1>10, <2>1 DEF Kept
    <3> QED
      BY <1>1, <1>2, <1>5, <1>6, <2>1, <2>2, <3>1, <3>2 DEF Kept
  <2>4. CASE k = n /\ q = p
    <3>1. ms[o][n] = om /\ rs[o][n] = receiver[o][n]
      BY <1>3, <1>4, <1>8
    <3>2. ASSUME m.own, m.status = "delivered"
          PROVE  Arrived(p, n)'
      <4>1. Arrived(p, n)
        BY <3>2 DEF Sound
      <4>2. om.kind = was.kind /\ om.whole /\ ~om.fileError /\ receiver[o][n] = Closed
        BY <1>4, <1>7, <1>8, <4>1 DEF Arrived
      <4>3. om.kind = "none" => ~om.own /\ om = Absent
        BY <1>8, <1>9, MessageType DEF Kept
      <4>4. ~Absent.whole
        BY DEF Absent
      <4>5. m.kind = om.kind
        BY <1>7, <4>2, <4>3, <4>4 DEF Sound
      <4> QED
        BY <1>1, <1>2, <1>3, <1>4, <3>1, <4>2, <4>5 DEF Arrived
    <3>3. /\ m.kind # "none" => n <= top
          /\ m.kind = "none" => m = Absent
          /\ m.status = "seen" => m.own
          /\ m.kind # "none" /\ ~m.own => om.own /\ om.kind = m.kind
          /\ m.own => ~om.own
          /\ r # Closed => m.kind = "file" /\ ~m.own /\ ~m.whole /\ ~m.fileError
          /\ p \in terminals => ~m.deleted /\ m.status # "seen"
      BY <1>4, <1>5, <1>8 DEF Sound
    <3> QED
      BY <1>1, <1>2, <1>3, <1>4, <1>5, <1>6, <2>4, <3>1, <3>2, <3>3 DEF Kept
  <2>5. CASE k = n /\ q = o
    <3>1. ms[o][n] = om /\ rs[o][n] = receiver[o][n]
      BY <1>3, <1>4, <1>8
    <3>2. om.own /\ om.status = "delivered" => Arrived(o, n)'
      BY <1>8, <1>9, <1>10 DEF Kept
    <3>3. om.kind # "none" /\ ~om.own => m.own /\ om.kind = m.kind
      <4>1. ASSUME om.kind # "none", ~om.own
            PROVE  was.own /\ was.kind = om.kind
        BY <1>4, <1>7, <1>8, <1>9, <4>1 DEF Kept
      <4> QED
        BY <1>7, <4>1 DEF Sound
    <3>4. om.own => ~m.own
      BY <1>4, <1>8 DEF Sound
    <3> QED
      BY <1>1, <1>2, <1>3, <1>4, <1>5, <1>6, <1>8, <2>1, <2>2, <2>5, <3>1, <3>2, <3>3, <3>4 DEF Kept
  <2> QED
    BY <1>4, <2>3, <2>4, <2>5
<1>12. ASSUME NEW q \in Pages, NEW k \in Nonces
       PROVE  Stays(q, k)
  <2>1. CASE q = p /\ k = n
    BY <1>1, <1>3, <2>1 DEF Stays, Sound
  <2>2. CASE q # p \/ k # n
    BY <1>1, <1>3, <2>2 DEF Stays
  <2> QED
    BY <2>1, <2>2
<1> QED
  BY <1>1, <1>10, <1>11, <1>12

\* Nothing that the pages show changes.
LEMMA SameKeeps ==
  ASSUME TalkInv, messages' = messages, receiver' = receiver, terminals' = terminals,
         sealed' \in sealed..MaxSealed
  PROVE  /\ \A q \in Pages, k \in Nonces : Kept(q, k)' /\ Stays(q, k)
         /\ \A q \in Pages, k \in Nonces : messages[q][k].own =>
               /\ messages'[q][k].own /\ messages'[q][k].kind = messages[q][k].kind
               /\ Arrived(q, k) => Arrived(q, k)'
<1>1. \A q \in Pages, k \in Nonces : Arrived(q, k)' <=> Arrived(q, k)
  BY DEF Arrived
<1>2. sealed \in Nat /\ sealed' \in Nat /\ sealed' >= sealed
  BY DEF TalkInv, TalkType
<1>3. ASSUME NEW q \in Pages, NEW k \in Nonces
      PROVE  Kept(q, k)'
  <2>1. Kept(q, k)
    BY DEF TalkInv
  <2>2. messages[q][k].kind # "none" => k <= sealed'
    BY <1>2, <2>1, Bounds DEF Kept, Nonces
  <2> QED
    BY <1>1, <2>1, <2>2 DEF Kept
<1> QED
  BY <1>1, <1>3 DEF Stays

\* What remains to be said of a step: where its frames and receipts come from.
LEMMA Finish ==
  ASSUME TalkInv, TalkType', Ways',
         \A q \in Pages, k \in Nonces : Kept(q, k)',
         \A q \in Pages, k \in Nonces : messages[q][k].own =>
            /\ messages'[q][k].own /\ messages'[q][k].kind = messages[q][k].kind
            /\ Arrived(q, k) => Arrived(q, k)',
         \A q \in Pages : \A f \in Way(q)' :
            \/ Carried(q, f)'
            \/ f \in Way(q) /\ (Opening(f) => messages'[q][f.nonce].kind = "none"),
         \A q \in Pages : \A f \in receipts'[q] : f \in receipts[q] \/ Vouched(q, f)',
         \A q \in Pages : sending'[q] # NoStream =>
            \/ sending[q] # NoStream /\ sending'[q].nonce = sending[q].nonce
            \/ sending'[q].nonce \in Nonces /\ messages'[q][sending'[q].nonce].own
  PROVE  TalkInv'
<1>1. ASSUME NEW q \in Pages, NEW f \in Way(q)'
      PROVE  Carried(q, f)'
  <2>1. CASE Carried(q, f)'
    BY <2>1
  <2>2. CASE f \in Way(q) /\ (Opening(f) => messages'[q][f.nonce].kind = "none")
    <3>1. Carried(q, f)
      BY <2>2 DEF TalkInv
    <3> QED
      BY <2>2, <3>1, OtherPage DEF Carried
  <2> QED
    BY <2>1, <2>2
<1>2. ASSUME NEW q \in Pages, NEW f \in receipts'[q]
      PROVE  Vouched(q, f)'
  <2>1. CASE f \in receipts[q]
    <3>1. Vouched(q, f)
      BY <2>1 DEF TalkInv
    <3>2. f.nonce \in Nonces /\ messages[q][f.nonce].own
      BY <3>1 DEF Vouched
    <3>3. messages'[q][f.nonce].own /\ (Arrived(q, f.nonce) => Arrived(q, f.nonce)')
      BY <3>2
    <3> QED
      BY <3>1, <3>2, <3>3 DEF Vouched
  <2> QED
    BY <2>1
<1>3. \A q \in Pages : sending'[q] # NoStream =>
         sending'[q].nonce \in Nonces /\ messages'[q][sending'[q].nonce].own
  BY DEF TalkInv
<1> QED
  BY <1>1, <1>2, <1>3 DEF TalkInv

\* A change that opens nothing.
LEMMA Steady ==
  ASSUME TalkInv, NEW p \in Pages, NEW n \in Nonces, NEW m \in Message, NEW r \in Int,
         Changes(p, n, m, r), m.kind = messages[p][n].kind
  PROVE  \A q \in Pages : \A f \in Way(q) :
            Opening(f) => messages'[q][f.nonce].kind = "none"
<1>1. ASSUME NEW q \in Pages, NEW k \in Nonces
      PROVE  messages'[q][k].kind = messages[q][k].kind
  BY ChangeSlot
<1>2. \A q \in Pages : \A f \in Way(q) : Carried(q, f)
  BY DEF TalkInv
<1> QED
  BY <1>1, <1>2 DEF Carried

LEMMA Still ==
  ASSUME TalkInv, messages' = messages
  PROVE  \A q \in Pages : \A f \in Way(q) :
            Opening(f) => messages'[q][f.nonce].kind = "none"
BY DEF TalkInv, Carried

\* The message that a frame opens is there on no page but its author's.
LEMMA OpenedOnce ==
  ASSUME TalkInv, NEW p \in Pages, NEW f \in Way(p), Opening(f)
  PROVE  /\ f.nonce \in Nonces /\ f.nonce <= sealed
         /\ messages[p][f.nonce] = Absent /\ receiver[p][f.nonce] = Closed
         /\ messages[Other(p)][f.nonce].own /\ messages[Other(p)][f.nonce].kind = OpensAs(f)
         /\ ~Arrived(Other(p), f.nonce)
<1>1. Carried(p, f)
  BY DEF TalkInv
<1>2. f.nonce \in Nonces /\ Kept(p, f.nonce) /\ Kept(Other(p), f.nonce)
  BY <1>1, OtherPage DEF TalkInv, Carried
<1>3. messages[p][f.nonce] = Absent /\ receiver[p][f.nonce] = Closed
  BY <1>1, <1>2 DEF Kept, Carried
<1>4. messages[Other(p)][f.nonce].own /\ messages[Other(p)][f.nonce].kind = OpensAs(f)
  BY <1>1 DEF Carried
<1>5. f.nonce <= sealed
  BY <1>2, <1>4 DEF Kept, OpensAs
<1>6. ~Arrived(Other(p), f.nonce)
  <2>1. ~messages[p][f.nonce].whole
    BY <1>3 DEF Absent
  <2> QED
    BY <2>1, OtherPage DEF Arrived
<1> QED
  BY <1>2, <1>3, <1>4, <1>5, <1>6

LEMMA FrameFields ==
  \A t, n, a, s : LET f == Frame(t, n, a, s) IN
     f.type = t /\ f.nonce = n /\ f.arg = a /\ f.slot = s
BY DEF Frame

\* A page seals the opening of a message of its own.
LEMMA OpensOwn ==
  ASSUME TalkInv, NEW p \in Pages, NEW type \in {"text", "file", "init"},
         NEW k \in {"text", "file"}, k = (IF type = "text" THEN "text" ELSE "file"), NEW s,
         sealed < MaxSealed, sealed' = sealed + 1, terminals' = terminals,
         receiver' = receiver, receipts' = receipts,
         messages' = [messages EXCEPT ![p][sealed'] = Shown(k, TRUE, TRUE)],
         dispatch(p, Frame(type, sealed', 0, s)) \/ dispatchDirect(p, Frame(type, sealed', 0, s)),
         sending' = sending \/ sending' = [sending EXCEPT ![p] = createFileStream(sealed')]
  PROVE  TalkInv' /\ \A q \in Pages, j \in Nonces : Stays(q, j)
<1>1. PICK n : n = sealed'
  OBVIOUS
<1>2. sealed \in Nat /\ n \in Nonces /\ n = sealed + 1 /\ n \in Nat /\ sealed' \in sealed..MaxSealed
  BY <1>1, Bounds DEF TalkInv, TalkType, Nonces
<1>3. PICK m \in Message : /\ m = Shown(k, TRUE, TRUE) /\ m.kind = k /\ m.own /\ m.whole
                           /\ ~m.fileError /\ ~m.deleted /\ m.status = "sent"
  BY MessageType
<1>4. PICK r \in Int : r = receiver[p][n]
  BY <1>2 DEF TalkInv, TalkType
<1>5. Kept(p, n) /\ Kept(Other(p), n) /\ Other(p) \in Pages
  BY <1>2, OtherPage DEF TalkInv
<1>6. /\ messages[p][n] = Absent /\ messages[Other(p)][n] = Absent
      /\ r = Closed
  <2>1. ~(n <= sealed)
    BY <1>2
  <2>2. messages[p][n].kind = "none" /\ messages[Other(p)][n].kind = "none"
    BY <1>5, <2>1 DEF Kept
  <2> QED
    BY <1>4, <1>5, <2>2 DEF Kept
<1>7. Changes(p, n, m, r)
  <2>1. receiver = [receiver EXCEPT ![p][n] = receiver[p][n]]
    BY <1>2 DEF TalkInv, TalkType
  <2> QED
    BY <1>1, <1>2, <1>3, <1>4, <2>1 DEF Changes
<1>8. Sound(p, n, m, r)
  <2>1. PICK a : /\ a = Absent /\ a.kind = "none" /\ ~a.own /\ a.status = "none"
                 /\ ~a.deleted
    BY MessageType
  <2>2. messages[p][n] = a /\ messages[Other(p)][n] = a
    BY <1>6, <2>1
  <2>3. n <= sealed'
    BY <1>1, <1>2
  <2> QED
    BY <1>3, <1>6, <2>1, <2>2, <2>3 DEF Sound
<1>9. PICK f : f = Frame(type, sealed', 0, s)
  OBVIOUS
<1>10. f.type = type /\ f.nonce = n
  BY <1>1, <1>9, FrameFields
<1>11. \A q \in Pages : \A g \in Way(q) : Opening(g) => g.nonce # n
  <2>1. ASSUME NEW q \in Pages, NEW g \in Way(q), Opening(g)
        PROVE  g.nonce # n
    <3>1. g.nonce <= sealed
      BY <2>1, OpenedOnce
    <3> QED
      BY <1>2, <3>1
  <2> QED
    BY <2>1
<1>12. \A g \in Way(Other(p)) : Distinct(f, g)
  BY <1>5, <1>10, <1>11 DEF Distinct
<1>13. dispatch(p, f) \/ dispatchDirect(p, f)
  BY <1>9
<1>14. /\ Ways'
       /\ \A q \in Pages : Way(q)' \subseteq IF q = Other(p) THEN Way(q) \cup {f} ELSE Way(q)
  BY <1>12, <1>13, DispatchWay DEF TalkInv
<1>15. /\ messages' \in [Pages -> [Nonces -> Message]]
       /\ receiver' \in [Pages -> [Nonces -> Int]]
       /\ messages'[p][n] = m /\ receiver'[p][n] = r
       /\ \A q \in Pages, j \in Nonces : q # p \/ j # n =>
            messages'[q][j] = messages[q][j] /\ receiver'[q][j] = receiver[q][j]
  <2>1. n \in Nonces /\ m \in Message /\ r \in Int /\ Changes(p, n, m, r)
    BY <1>2, <1>3, <1>4, <1>7
  <2> QED
    BY ONLY TalkInv, p \in Pages, <2>1, ChangeSlot
<1>16. Carried(Other(p), f)'
  <2>1. messages'[Other(p)][n] = Absent
    BY <1>2, <1>5, <1>6, <1>15, OtherPage
  <2>2. Other(Other(p)) = p
    BY OtherPage
  <2>3. OpensAs(f) = k /\ f.type # "edit"
    BY <1>10 DEF OpensAs
  <2>4. messages'[Other(p)][n].kind = "none"
    <3>1. PICK a : a = Absent /\ a.kind = "none"
      BY MessageType
    <3> QED
      BY <2>1, <3>1
  <2>5. messages'[p][n].own /\ messages'[p][n].kind = k
    BY <1>3, <1>15
  <2> QED
    BY <1>2, <1>10, <2>2, <2>3, <2>4, <2>5 DEF Carried
<1>17. \A q \in Pages : \A g \in Way(q) : Opening(g) => messages'[q][g.nonce].kind = "none"
  <2>1. ASSUME NEW q \in Pages, NEW g \in Way(q), Opening(g)
        PROVE  messages'[q][g.nonce].kind = "none"
    <3>1. g.nonce \in Nonces /\ messages[q][g.nonce].kind = "none" /\ g.nonce # n
      BY <1>11, <2>1, OpenedOnce, MessageType
    <3>2. messages'[q][g.nonce] = messages[q][g.nonce]
      BY ONLY <1>15, <3>1, q \in Pages
    <3> QED
      BY <3>1, <3>2
  <2> QED
    BY <2>1
<1>18. /\ \A q \in Pages, j \in Nonces : Kept(q, j)'
       /\ \A q \in Pages, j \in Nonces : Stays(q, j)
       /\ \A q \in Pages, j \in Nonces : messages[q][j].own =>
             /\ messages'[q][j].own /\ messages'[q][j].kind = messages[q][j].kind
             /\ Arrived(q, j) => Arrived(q, j)'
  BY <1>2, <1>3, <1>4, <1>7, <1>8, ChangeKeeps
<1>19. sending' \in [Pages -> [nonce : Nat, next : Nat]]
       /\ \A q \in Pages : sending'[q] = sending[q] \/ (q = p /\ sending'[q].nonce = n)
  <2>1. PICK t : t = createFileStream(sealed')
    OBVIOUS
  <2>2. t \in [nonce : Nat, next : Nat] /\ t.nonce = n
    BY <1>1, <1>2, <2>1 DEF createFileStream
  <2>3. sending \in [Pages -> [nonce : Nat, next : Nat]]
    BY DEF TalkInv, TalkType
  <2>4. sending' = sending \/ sending' = [sending EXCEPT ![p] = t]
    BY <2>1
  <2> QED
    BY <2>2, <2>3, <2>4
<1>20. TalkType'
  <2>1. receipts' = [q \in Pages |-> receipts'[q]]
    BY DEF TalkInv, TalkType
  <2>2. sealed' \in 0..MaxSealed /\ terminals' \subseteq Pages
    BY <1>2, Bounds DEF TalkInv, TalkType
  <2> QED
    BY <1>15, <1>19, <2>1, <2>2 DEF TalkType
<1>21. \A q \in Pages : sending'[q] # NoStream =>
          \/ sending[q] # NoStream /\ sending'[q].nonce = sending[q].nonce
          \/ sending'[q].nonce \in Nonces /\ messages'[q][sending'[q].nonce].own
  <2>1. messages'[p][n].own
    BY <1>3, <1>15
  <2>2. ASSUME NEW q \in Pages, q = p, sending'[q].nonce = n
        PROVE  sending'[q].nonce \in Nonces /\ messages'[q][sending'[q].nonce].own
    BY <1>2, <2>1, <2>2
  <2> QED
    BY <1>19, <2>2
<1>22. \A q \in Pages : \A g \in Way(q)' :
          \/ Carried(q, g)'
          \/ g \in Way(q) /\ (Opening(g) => messages'[q][g.nonce].kind = "none")
  BY <1>14, <1>16, <1>17
<1> QED
  BY <1>14, <1>18, <1>20, <1>21, <1>22, Finish

\* The three kinds of step that remain.
LEMMA ChangeStep ==
  ASSUME TalkInv, NEW p \in Pages, NEW n \in Nonces, NEW m \in Message, NEW r \in Int,
         Changes(p, n, m, r), Sound(p, n, m, r), Ways',
         receipts' = [q \in Pages |-> receipts'[q]],
         sending' \in [Pages -> [nonce : Nat, next : Nat]],
         \A q \in Pages : \A f \in Way(q)' :
            \/ Carried(q, f)'
            \/ f \in Way(q) /\ (Opening(f) => messages'[q][f.nonce].kind = "none"),
         \A q \in Pages : \A f \in receipts'[q] : f \in receipts[q] \/ Vouched(q, f)',
         \A q \in Pages : sending'[q] # NoStream =>
            sending[q] # NoStream /\ sending'[q].nonce = sending[q].nonce
  PROVE  TalkInv' /\ \A q \in Pages, k \in Nonces : Stays(q, k)
<1>1. /\ \A q \in Pages, k \in Nonces : Kept(q, k)'
      /\ \A q \in Pages, k \in Nonces : Stays(q, k)
      /\ \A q \in Pages, k \in Nonces : messages[q][k].own =>
            /\ messages'[q][k].own /\ messages'[q][k].kind = messages[q][k].kind
            /\ Arrived(q, k) => Arrived(q, k)'
  BY ONLY TalkInv, p \in Pages, n \in Nonces, m \in Message, r \in Int,
          Changes(p, n, m, r), Sound(p, n, m, r), ChangeKeeps
<1>2. messages' \in [Pages -> [Nonces -> Message]] /\ receiver' \in [Pages -> [Nonces -> Int]]
  BY ONLY TalkInv, p \in Pages, n \in Nonces, m \in Message, r \in Int,
          Changes(p, n, m, r), ChangeSlot
<1>3. sealed' \in 0..MaxSealed /\ terminals' \subseteq Pages
  BY Bounds DEF Changes, TalkInv, TalkType
<1>4. TalkType'
  BY <1>2, <1>3 DEF TalkType
<1>5. \A q \in Pages : sending'[q] # NoStream =>
         \/ sending[q] # NoStream /\ sending'[q].nonce = sending[q].nonce
         \/ sending'[q].nonce \in Nonces /\ messages'[q][sending'[q].nonce].own
  OBVIOUS
<1>6. TalkInv'
  BY <1>1, <1>4, <1>5, Finish
<1> QED
  BY <1>1, <1>6

LEMMA SteadyStep ==
  ASSUME TalkInv, NEW p \in Pages, NEW n \in Nonces, NEW m \in Message, NEW r \in Int,
         Changes(p, n, m, r), Sound(p, n, m, r), m.kind = messages[p][n].kind, Ways',
         receipts' = [q \in Pages |-> receipts'[q]],
         sending' \in [Pages -> [nonce : Nat, next : Nat]],
         \A q \in Pages : \A f \in Way(q)' : Carried(q, f)' \/ f \in Way(q),
         \A q \in Pages : \A f \in receipts'[q] : f \in receipts[q] \/ Vouched(q, f)',
         \A q \in Pages : sending'[q] # NoStream =>
            sending[q] # NoStream /\ sending'[q].nonce = sending[q].nonce
  PROVE  TalkInv' /\ \A q \in Pages, k \in Nonces : Stays(q, k)
<1>1. \A q \in Pages : \A f \in Way(q) : Opening(f) => messages'[q][f.nonce].kind = "none"
  BY ONLY TalkInv, p \in Pages, n \in Nonces, m \in Message, r \in Int,
          Changes(p, n, m, r), m.kind = messages[p][n].kind, Steady
<1>2. \A q \in Pages : \A f \in Way(q)' :
         \/ Carried(q, f)'
         \/ f \in Way(q) /\ (Opening(f) => messages'[q][f.nonce].kind = "none")
  BY <1>1
<1> QED
  BY <1>2, ChangeStep

LEMMA SameStep ==
  ASSUME TalkInv, messages' = messages, receiver' = receiver, terminals' = terminals,
         sealed' = sealed, Ways',
         receipts' = [q \in Pages |-> receipts'[q]],
         sending' \in [Pages -> [nonce : Nat, next : Nat]],
         \A q \in Pages : \A f \in Way(q)' : Carried(q, f)' \/ f \in Way(q),
         \A q \in Pages : \A f \in receipts'[q] : f \in receipts[q] \/ Vouched(q, f)',
         \A q \in Pages : sending'[q] # NoStream =>
            sending[q] # NoStream /\ sending'[q].nonce = sending[q].nonce
  PROVE  TalkInv' /\ \A q \in Pages, k \in Nonces : Stays(q, k)
<1>1. sealed' \in sealed..MaxSealed
  BY Bounds DEF TalkInv, TalkType
<1>2. /\ \A q \in Pages, k \in Nonces : Kept(q, k)' /\ Stays(q, k)
      /\ \A q \in Pages, k \in Nonces : messages[q][k].own =>
            /\ messages'[q][k].own /\ messages'[q][k].kind = messages[q][k].kind
            /\ Arrived(q, k) => Arrived(q, k)'
  BY <1>1, SameKeeps
<1>3. \A q \in Pages : \A f \in Way(q) : Opening(f) => messages'[q][f.nonce].kind = "none"
  BY Still
<1>4. TalkType'
  BY DEF TalkInv, TalkType
<1>5. \A q \in Pages : sending'[q] # NoStream =>
         \/ sending[q] # NoStream /\ sending'[q].nonce = sending[q].nonce
         \/ sending'[q].nonce \in Nonces /\ messages'[q][sending'[q].nonce].own
  OBVIOUS
<1>6. \A q \in Pages : \A f \in Way(q)' :
         \/ Carried(q, f)'
         \/ f \in Way(q) /\ (Opening(f) => messages'[q][f.nonce].kind = "none")
  BY <1>3
<1>7. TalkInv'
  BY <1>2, <1>4, <1>5, <1>6, Finish
<1> QED
  BY <1>2, <1>7

\* The frames and receipts that a step leaves alone.
LEMMA Alone ==
  ASSUME TalkInv
  PROVE  /\ relay' = relay /\ direct' = direct =>
              Ways' /\ \A q \in Pages : Way(q)' = Way(q)
         /\ receipts' = receipts =>
              /\ receipts' = [q \in Pages |-> receipts'[q]]
              /\ \A q \in Pages : \A f \in receipts'[q] : f \in receipts[q] \/ Vouched(q, f)'
         /\ sending' = sending =>
              /\ sending' \in [Pages -> [nonce : Nat, next : Nat]]
              /\ \A q \in Pages : sending'[q] # NoStream =>
                   sending[q] # NoStream /\ sending'[q].nonce = sending[q].nonce
<1>1. ASSUME relay' = relay, direct' = direct
      PROVE  Ways' /\ \A q \in Pages : Way(q)' = Way(q)
  <2>1. Ways
    BY DEF TalkInv
  <2> QED
    BY <1>1, <2>1 DEF Ways, Way
<1>2. ASSUME receipts' = receipts
      PROVE  receipts' = [q \in Pages |-> receipts'[q]]
  BY <1>2 DEF TalkInv, TalkType
<1> QED
  BY <1>1, <1>2 DEF TalkInv, TalkType

\* One receipt more.
LEMMA Receipted ==
  ASSUME TalkInv, NEW p \in Pages, NEW f, dispatchJittered(p, f), Vouched(Other(p), f)'
  PROVE  /\ receipts' = [q \in Pages |-> receipts'[q]]
         /\ \A q \in Pages : \A g \in receipts'[q] : g \in receipts[q] \/ Vouched(q, g)'
<1>1. PICK o \in Pages : o = Other(p)
  BY OtherPage
<1>2. receipts' = [receipts EXCEPT ![o] = receipts[o] \cup {f}]
  BY <1>1 DEF dispatchJittered
<1>3. receipts = [q \in Pages |-> receipts[q]]
  BY DEF TalkInv, TalkType
<1>4. receipts' = [q \in Pages |-> receipts'[q]]
  BY <1>2, <1>3
<1>5. receipts'[o] = receipts[o] \cup {f} /\ \A q \in Pages \ {o} : receipts'[q] = receipts[q]
  BY <1>2, <1>3
<1> QED
  BY <1>1, <1>4, <1>5

\* What each part of a message keeps of the others.
LEMMA TextPatched ==
  ASSUME NEW m \in Message, NEW x \in 0..MaxSealed, NEW w,
         w = [m EXCEPT !.text = x]
  PROVE  /\ w \in Message /\ w.kind = m.kind /\ (w.own <=> m.own)
         /\ w.status = m.status /\ (w.deleted <=> m.deleted) /\ (w.whole <=> m.whole) /\ (w.fileError <=> m.fileError)
BY DEF Message

LEMMA DeletedPatched ==
  ASSUME NEW m \in Message, NEW w,
         w = [m EXCEPT !.deleted = TRUE]
  PROVE  /\ w \in Message /\ w.kind = m.kind /\ (w.own <=> m.own)
         /\ w.status = m.status /\ w.deleted /\ (w.whole <=> m.whole) /\ (w.fileError <=> m.fileError)
BY DEF Message

LEMMA StatusPatched ==
  ASSUME NEW m \in Message, NEW x \in {"none", "sent", "delivered", "seen"}, NEW w,
         w = [m EXCEPT !.status = x]
  PROVE  /\ w \in Message /\ w.kind = m.kind /\ (w.own <=> m.own)
         /\ w.status = x /\ (w.deleted <=> m.deleted) /\ (w.whole <=> m.whole) /\ (w.fileError <=> m.fileError)
BY DEF Message

LEMMA FileErrorPatched ==
  ASSUME NEW m \in Message, NEW b \in BOOLEAN, NEW w,
         w = [m EXCEPT !.fileError = b]
  PROVE  /\ w \in Message /\ w.kind = m.kind /\ (w.own <=> m.own)
         /\ w.status = m.status /\ (w.deleted <=> m.deleted) /\ (w.whole <=> m.whole) /\ (w.fileError <=> b)
BY DEF Message

LEMMA WholePatched ==
  ASSUME NEW m \in Message, NEW b \in BOOLEAN, NEW w,
         w = [m EXCEPT !.whole = b]
  PROVE  /\ w \in Message /\ w.kind = m.kind /\ (w.own <=> m.own)
         /\ w.status = m.status /\ (w.deleted <=> m.deleted) /\ (w.whole <=> b) /\ (w.fileError <=> m.fileError)
BY DEF Message

\* A message that is edited or deleted, by its author or on the other page.
LEMMA PatchIsSound ==
  ASSUME TalkInv, NEW p \in Pages, NEW n \in Nonces, NEW m \in Message, NEW w \in Message,
         w = messages[p][n], w.kind # "none", sealed' \in sealed..MaxSealed,
         m.kind = w.kind, m.own <=> w.own, m.status = w.status, m.whole <=> w.whole,
         m.fileError <=> w.fileError, w.deleted => m.deleted,
         p \in terminals => ~m.deleted
  PROVE  Sound(p, n, m, receiver[p][n])
<1>1. Kept(p, n) /\ Other(p) \in Pages /\ Other(Other(p)) = p
  BY OtherPage DEF TalkInv
<1>2. n <= sealed'
  <2>1. n <= sealed /\ sealed \in Nat /\ sealed' \in Nat /\ sealed <= sealed' /\ n \in Nat
    BY <1>1, Bounds DEF Kept, TalkInv, TalkType, Nonces
  <2> QED
    BY <2>1
<1>3. messages[Other(p)][n].own /\ Arrived(Other(p), n) =>
         w.whole /\ ~w.fileError /\ receiver[p][n] = Closed
  BY <1>1 DEF Arrived
<1>4. /\ w.status = "seen" => w.own
      /\ ~w.own => messages[Other(p)][n].own /\ messages[Other(p)][n].kind = w.kind
      /\ w.own => ~messages[Other(p)][n].own
      /\ receiver[p][n] # Closed => w.kind = "file" /\ ~w.own /\ ~w.whole /\ ~w.fileError
      /\ p \in terminals => w.status # "seen"
      /\ w.own /\ w.status = "delivered" => Arrived(p, n)
  BY <1>1 DEF Kept
<1> QED
  BY <1>2, <1>3, <1>4 DEF Sound

\* A message of the author that is there has been opened.
LEMMA OwnIsThere ==
  ASSUME TalkInv, NEW p \in Pages, NEW n \in Nonces
  PROVE  /\ messages[p][n] \in Message /\ receiver[p][n] \in Int
         /\ messages[p][n].own => messages[p][n].kind # "none"
BY MessageType DEF TalkInv, TalkType, Kept

LEMMA SlotUpdate ==
  ASSUME TalkInv, NEW p \in Pages, NEW n \in Nonces, NEW m,
         messages' = [messages EXCEPT ![p][n] = m], receiver' = receiver,
         terminals' = terminals, sealed' \in sealed..MaxSealed
  PROVE  Changes(p, n, m, receiver[p][n])
<1>1. receiver = [receiver EXCEPT ![p][n] = receiver[p][n]]
  BY DEF TalkInv, TalkType
<1> QED
  BY <1>1 DEF Changes

LEMMA EditStep ==
  ASSUME TalkInv, NEW p \in Pages, NEW n \in Nonces, editMessage(p, n),
         terminals' = terminals, p \notin terminals
  PROVE  TalkInv' /\ \A q \in Pages, k \in Nonces : Stays(q, k)
<1>1. PICK w \in Message : w = messages[p][n] /\ w.kind # "none"
  BY OwnIsThere DEF editMessage
<1>2. sealed \in Nat /\ sealed < MaxSealed /\ sealed' = sealed + 1 /\ MaxSealed \in Nat
  BY Bounds DEF editMessage, Seal, TalkInv, TalkType
<1>3. sealed' \in sealed..MaxSealed /\ sealed' \in Nonces
  BY <1>2 DEF Nonces
<1>4. PICK x \in 0..MaxSealed : x = IF w.deleted THEN w.text ELSE sealed'
  BY <1>1, <1>2 DEF Message
<1>21. PICK m : m = [w EXCEPT !.text = x]
  OBVIOUS
<1>5. /\ m = [w EXCEPT !.text = x] /\ m \in Message /\ m.kind = w.kind /\ (m.own <=> w.own)
      /\ m.status = w.status /\ (m.deleted <=> w.deleted) /\ (m.whole <=> w.whole)
      /\ (m.fileError <=> w.fileError)
  BY <1>21, TextPatched
<1>6. messages' = [messages EXCEPT ![p][n] = m]
  <2>1. messages' = [messages EXCEPT ![p][n].text = IF messages[p][n].deleted THEN @ ELSE sealed']
    BY DEF editMessage
  <2> QED
    BY <1>1, <1>4, <1>5, <2>1
<1>7. receiver' = receiver /\ receipts' = receipts /\ sending' = sending
  BY DEF editMessage, files
<1>8. Changes(p, n, m, receiver[p][n])
  BY <1>3, <1>6, <1>7, SlotUpdate
<1>9. Sound(p, n, m, receiver[p][n])
  BY ONLY TalkInv, p \in Pages, n \in Nonces, w \in Message, <1>1, <1>3, <1>5,
          p \notin terminals, PatchIsSound
<1>10. PICK f : f = Frame("edit", n, sealed', Slot(rat[p]))
  OBVIOUS
<1>11. f.type = "edit" /\ f.nonce = n /\ f.arg = sealed' /\ ~Opening(f)
  BY <1>10, FrameFields DEF Opening
<1>12. dispatch(p, f)
  BY <1>10 DEF editMessage
<1>13. /\ Ways'
       /\ \A q \in Pages : Way(q)' \subseteq IF q = Other(p) THEN Way(q) \cup {f} ELSE Way(q)
  BY <1>11, <1>12, DispatchWay DEF Distinct, TalkInv
<1>14. Carried(Other(p), f)'
  BY <1>3, <1>11 DEF Carried
<1>15. \A q \in Pages : \A g \in Way(q)' : Carried(q, g)' \/ g \in Way(q)
  BY <1>13, <1>14
<1>16. PICK r \in Int : r = receiver[p][n]
  BY OwnIsThere
<1>20. Changes(p, n, m, r) /\ Sound(p, n, m, r)
  BY <1>8, <1>9, <1>16
<1>17. m.kind = messages[p][n].kind
  BY <1>1, <1>5
<1>18. /\ receipts' = [q \in Pages |-> receipts'[q]]
       /\ \A q \in Pages : \A g \in receipts'[q] : g \in receipts[q] \/ Vouched(q, g)'
  BY <1>7, Alone
<1>19. /\ sending' \in [Pages -> [nonce : Nat, next : Nat]]
       /\ \A q \in Pages : sending'[q] # NoStream =>
            sending[q] # NoStream /\ sending'[q].nonce = sending[q].nonce
  BY <1>7, Alone
<1> QED
  BY ONLY TalkInv, p \in Pages, n \in Nonces, <1>5, r \in Int, <1>20, <1>13, <1>15, <1>17,
          <1>18, <1>19, SteadyStep

LEMMA DeleteStep ==
  ASSUME TalkInv, NEW p \in Pages, NEW n \in Nonces, deleteMessage(p, n),
         terminals' = terminals, p \notin terminals
  PROVE  TalkInv' /\ \A q \in Pages, k \in Nonces : Stays(q, k)
<1>1. PICK w \in Message : w = messages[p][n] /\ w.kind # "none"
  BY OwnIsThere DEF deleteMessage
<1>2. 0 \in 0..MaxSealed /\ sealed' \in sealed..MaxSealed
  BY Bounds DEF deleteMessage, TalkInv, TalkType
<1>21. PICK d : d = [w EXCEPT !.deleted = TRUE]
  OBVIOUS
<1>3. /\ d = [w EXCEPT !.deleted = TRUE] /\ d \in Message /\ d.kind = w.kind
      /\ (d.own <=> w.own) /\ d.status = w.status /\ d.deleted /\ (d.whole <=> w.whole)
      /\ (d.fileError <=> w.fileError)
  BY <1>21, DeletedPatched
<1>22. PICK m : m = [d EXCEPT !.text = 0]
  OBVIOUS
<1>4. /\ m = [d EXCEPT !.text = 0] /\ m \in Message /\ m.kind = d.kind /\ (m.own <=> d.own)
      /\ m.status = d.status /\ (m.deleted <=> d.deleted) /\ (m.whole <=> d.whole)
      /\ (m.fileError <=> d.fileError)
  BY <1>2, <1>3, <1>22, TextPatched
<1>5. messages' = [messages EXCEPT ![p][n] = m]
  <2>1. messages' = [messages EXCEPT ![p][n].deleted = TRUE, ![p][n].text = 0]
    BY DEF deleteMessage
  <2>2. messages \in [Pages -> [Nonces -> Message]]
    BY DEF TalkInv, TalkType
  <2> QED
    BY <1>1, <1>3, <1>4, <2>1, <2>2
<1>6. receiver' = receiver /\ receipts' = receipts /\ sending' = sending
  BY DEF deleteMessage, files
<1>7. Changes(p, n, m, receiver[p][n])
  BY <1>2, <1>5, <1>6, SlotUpdate
<1>8. Sound(p, n, m, receiver[p][n])
  BY ONLY TalkInv, p \in Pages, n \in Nonces, w \in Message, <1>1, <1>2, <1>3,
          <1>4, p \notin terminals, PatchIsSound
<1>9. PICK f : f = Plain("delete", n)
  OBVIOUS
<1>10. f.type = "delete" /\ f.nonce = n /\ ~Opening(f)
  BY <1>9, FrameFields DEF Opening, Plain
<1>11. dispatch(p, f)
  BY <1>9 DEF deleteMessage
<1>12. /\ Ways'
       /\ \A q \in Pages : Way(q)' \subseteq IF q = Other(p) THEN Way(q) \cup {f} ELSE Way(q)
  BY <1>10, <1>11, DispatchWay DEF Distinct, TalkInv
<1>13. Carried(Other(p), f)'
  BY <1>10 DEF Carried
<1>14. \A q \in Pages : \A g \in Way(q)' : Carried(q, g)' \/ g \in Way(q)
  BY <1>12, <1>13
<1>15. PICK r \in Int : r = receiver[p][n]
  BY OwnIsThere
<1>20. Changes(p, n, m, r) /\ Sound(p, n, m, r)
  BY <1>7, <1>8, <1>15
<1>16. m.kind = messages[p][n].kind
  BY <1>1, <1>3, <1>4
<1>17. /\ receipts' = [q \in Pages |-> receipts'[q]]
       /\ \A q \in Pages : \A g \in receipts'[q] : g \in receipts[q] \/ Vouched(q, g)'
  BY <1>6, Alone
<1>18. /\ sending' \in [Pages -> [nonce : Nat, next : Nat]]
       /\ \A q \in Pages : sending'[q] # NoStream =>
            sending[q] # NoStream /\ sending'[q].nonce = sending[q].nonce
  BY <1>6, Alone
<1> QED
  BY ONLY TalkInv, p \in Pages, n \in Nonces, <1>4, r \in Int, <1>20, <1>12, <1>14, <1>16,
          <1>17, <1>18, SteadyStep

LEMMA SealStep ==
  ASSUME TalkInv, NEW p \in Pages, terminals' = terminals,
         Sends(p, "text") \/ Sends(p, "file") \/ sendFileStream(p)
  PROVE  TalkInv' /\ \A q \in Pages, k \in Nonces : Stays(q, k)
<1>1. ASSUME NEW k \in {"text", "file"}, Sends(p, k)
      PROVE  TalkInv' /\ \A q \in Pages, j \in Nonces : Stays(q, j)
  <2>1. /\ sealed < MaxSealed /\ sealed' = sealed + 1
        /\ receiver' = receiver /\ receipts' = receipts /\ sending' = sending
        /\ messages' = [messages EXCEPT ![p][sealed'] = Shown(k, TRUE, TRUE)]
        /\ dispatch(p, Frame(k, sealed', 0, Slot(rat[p])))
    BY <1>1 DEF Sends, Seal, files
  <2>2. k = (IF k = "text" THEN "text" ELSE "file")
    OBVIOUS
  <2> QED
    BY <2>1, <2>2, OpensOwn
<1>2. ASSUME sendFileStream(p)
      PROVE  TalkInv' /\ \A q \in Pages, j \in Nonces : Stays(q, j)
  <2>1. /\ sealed < MaxSealed /\ sealed' = sealed + 1
        /\ receiver' = receiver /\ receipts' = receipts
        /\ sending' = [sending EXCEPT ![p] = createFileStream(sealed')]
        /\ messages' = [messages EXCEPT ![p][sealed'] = Shown("file", TRUE, TRUE)]
        /\ dispatchDirect(p, Frame("init", sealed', 0, Slot(rat[p])))
    BY <1>2 DEF sendFileStream, Seal
  <2>2. "file" = (IF "init" = "text" THEN "text" ELSE "file")
    OBVIOUS
  <2> QED
    BY <2>1, <2>2, OpensOwn
<1> QED
  BY <1>1, <1>2

LEMMA ReceivedType ==
  ASSUME NEW k \in {"text", "file"}, NEW w \in BOOLEAN, NEW m, m = Shown(k, FALSE, w)
  PROVE  /\ m \in Message /\ m.kind = k /\ ~m.own /\ (m.whole <=> w) /\ ~m.fileError
         /\ ~m.deleted /\ m.status = "delivered"
<1>1. PICK own \in BOOLEAN : own = FALSE /\ ~own
  OBVIOUS
<1>2. m = Shown(k, own, w)
  BY <1>1
<1>3. /\ m \in Message /\ m.kind = k /\ (m.own <=> own) /\ (m.whole <=> w) /\ ~m.fileError
      /\ ~m.deleted /\ m.status = IF own THEN "sent" ELSE "delivered"
  BY ONLY k \in {"text", "file"}, own \in BOOLEAN, w \in BOOLEAN, <1>2, ShownType
<1>4. ~m.own /\ m.status = "delivered"
  BY <1>1, <1>3
<1> QED
  BY <1>3, <1>4

\* A page opens what a frame brings: a text, a small file, or the beginning of a
\* stream.
LEMMA OpensTheirs ==
  ASSUME TalkInv, NEW p \in Pages, NEW f, Arrives(p, f), Opening(f),
         NEW k, k = OpensAs(f), NEW w \in BOOLEAN, NEW r \in Int,
         r # Closed => ~w /\ k = "file",
         messages' = [messages EXCEPT ![p][f.nonce] = Shown(k, FALSE, w)],
         receiver' = [receiver EXCEPT ![p][f.nonce] = r],
         sealed' = sealed, terminals' = terminals, sending' = sending,
         \/ receipts' = receipts
         \/ w /\ r = Closed /\ dispatchJittered(p, Plain("ack", f.nonce))
  PROVE  TalkInv' /\ \A q \in Pages, j \in Nonces : Stays(q, j)
<1>1. /\ Ways' /\ f \in Way(p) /\ \A q \in Pages : Way(q)' \subseteq Way(q)
      /\ \A g \in Way(p)' : Distinct(f, g)
  BY ArrivesWay DEF TalkInv
<1>2. PICK n : n = f.nonce
  OBVIOUS
<1>3. PICK o : o = Other(p)
  OBVIOUS
<1>4. /\ n \in Nonces /\ n <= sealed
      /\ messages[p][n] = Absent /\ receiver[p][n] = Closed
      /\ messages[o][n].own /\ messages[o][n].kind = k /\ ~Arrived(o, n)
  BY <1>1, <1>2, <1>3, OpenedOnce
<1>5. o \in Pages /\ o # p /\ Other(o) = p
  BY <1>3, OtherPage
<1>6. k \in {"text", "file"}
  BY DEF OpensAs
<1>7. PICK m : m = Shown(k, FALSE, w)
  OBVIOUS
<1>8. /\ m \in Message /\ m.kind = k /\ ~m.own /\ (m.whole <=> w) /\ ~m.fileError
      /\ ~m.deleted /\ m.status = "delivered"
  BY <1>6, <1>7, ReceivedType
<1>9. Changes(p, n, m, r)
  <2>1. messages' = [messages EXCEPT ![p][n] = m] /\ receiver' = [receiver EXCEPT ![p][n] = r]
    BY <1>2, <1>7
  <2>2. sealed' \in sealed..MaxSealed
    BY Bounds DEF TalkInv, TalkType
  <2> QED
    BY <2>1, <2>2 DEF Changes
<1>10. Sound(p, n, m, r)
  <2>1. PICK a : /\ a = Absent /\ a.kind = "none" /\ ~a.own /\ a.status = "none"
                 /\ ~a.deleted
    BY MessageType
  <2>2. messages[p][n] = a
    BY <1>4, <2>1
  <2>3. n <= sealed'
    BY <1>4
  <2> QED
    BY <1>3, <1>4, <1>6, <1>8, <2>1, <2>2, <2>3 DEF Sound
<1>11. /\ messages' \in [Pages -> [Nonces -> Message]]
       /\ receiver' \in [Pages -> [Nonces -> Int]]
       /\ messages'[p][n] = m /\ receiver'[p][n] = r
       /\ \A q \in Pages, j \in Nonces : q # p \/ j # n =>
            messages'[q][j] = messages[q][j] /\ receiver'[q][j] = receiver[q][j]
  BY ONLY TalkInv, p \in Pages, <1>4, <1>8, r \in Int, <1>9, ChangeSlot
<1>12. \A q \in Pages : \A g \in Way(q)' :
          g \in Way(q) /\ (Opening(g) => messages'[q][g.nonce].kind = "none")
  <2>1. ASSUME NEW q \in Pages, NEW g \in Way(q)', Opening(g)
        PROVE  messages'[q][g.nonce].kind = "none"
    <3>1. g \in Way(q)
      BY <1>1, <2>1
    <3>2. g.nonce \in Nonces /\ messages[q][g.nonce].kind = "none"
      BY <2>1, <3>1, OpenedOnce, MessageType
    <3>3. q = p => g.nonce # n
      BY <1>1, <1>2, <2>1 DEF Distinct
    <3> QED
      BY <1>11, <3>2, <3>3
  <2> QED
    BY <1>1, <2>1
<1>13. /\ receipts' = [q \in Pages |-> receipts'[q]]
       /\ \A q \in Pages : \A g \in receipts'[q] : g \in receipts[q] \/ Vouched(q, g)'
  <2>1. CASE receipts' = receipts
    BY <2>1, Alone
  <2>2. CASE w /\ r = Closed /\ dispatchJittered(p, Plain("ack", f.nonce))
    <3>1. PICK g : g = Plain("ack", n)
      OBVIOUS
    <3>2. g.nonce = n /\ g.type = "ack"
      BY <3>1, FrameFields DEF Plain
    <3>3. messages'[o][n] = messages[o][n]
      BY <1>4, <1>5, <1>11
    <3>4. Arrived(o, n)'
      <4>1. m.whole /\ ~m.fileError
        BY <1>8, <2>2
      <4>2. messages'[o][n].kind = m.kind
        BY <1>4, <1>8, <3>3
      <4> QED
        BY <1>5, <1>11, <2>2, <4>1, <4>2 DEF Arrived
    <3>5. Vouched(o, g)'
      BY <1>4, <3>2, <3>3, <3>4 DEF Vouched
    <3>6. dispatchJittered(p, g)
      BY <1>2, <2>2, <3>1
    <3> QED
      BY <1>3, <3>5, <3>6, Receipted
  <2> QED
    BY <2>1, <2>2
<1>14. /\ sending' \in [Pages -> [nonce : Nat, next : Nat]]
       /\ \A q \in Pages : sending'[q] # NoStream =>
            sending[q] # NoStream /\ sending'[q].nonce = sending[q].nonce
  BY Alone
<1>15. \A q \in Pages : \A g \in Way(q)' :
          \/ Carried(q, g)'
          \/ g \in Way(q) /\ (Opening(g) => messages'[q][g.nonce].kind = "none")
  BY <1>12
<1> QED
  BY ONLY TalkInv, p \in Pages, <1>1, <1>4, <1>8, r \in Int, <1>9, <1>10, <1>13, <1>14, <1>15,
          ChangeStep

\* Nothing but the queues changes.
LEMMA QueueStep ==
  ASSUME TalkInv, messages' = messages, receiver' = receiver, terminals' = terminals,
         sealed' = sealed, receipts' = receipts, sending' = sending,
         \/ UNCHANGED <<relay, direct>>
         \/ \E p \in Pages : \E f : Arrives(p, f)
         \/ LinkDies \/ \E p \in Pages : RelayLoses(p)
  PROVE  TalkInv' /\ \A q \in Pages, k \in Nonces : Stays(q, k)
<1>1. Ways' /\ \A q \in Pages : Way(q)' \subseteq Way(q)
  <2>1. CASE UNCHANGED <<relay, direct>>
    BY <2>1, Alone
  <2>2. CASE \E p \in Pages : \E f : Arrives(p, f)
    BY <2>2, ArrivesWay DEF TalkInv
  <2>3. CASE LinkDies \/ \E p \in Pages : RelayLoses(p)
    BY <2>3, LossWay DEF TalkInv
  <2> QED
    BY <2>1, <2>2, <2>3
<1>2. \A q \in Pages : \A f \in Way(q)' : Carried(q, f)' \/ f \in Way(q)
  BY <1>1
<1> QED
  BY <1>1, <1>2, Alone, SameStep

LEMMA SamePut ==
  ASSUME TalkInv, NEW p \in Pages, NEW n \in Nonces
  PROVE  [messages EXCEPT ![p][n] = messages[p][n]] = messages
BY DEF TalkInv, TalkType

LEMMA ReceivesTextStep ==
  ASSUME TalkInv, NEW p \in Pages, ReceivesText(p), terminals' = terminals
  PROVE  TalkInv' /\ \A q \in Pages, k \in Nonces : Stays(q, k)
<1>1. PICK f : /\ f.type \in {"text", "file"} /\ Arrives(p, f)
               /\ \/ /\ messages' = [messages EXCEPT ![p][f.nonce] =
                             IF @.kind = "none" THEN Shown(f.type, FALSE, TRUE) ELSE @]
                     /\ dispatchJittered(p, Plain("ack", f.nonce))
                  \/ UNCHANGED <<messages, receipts>>
  BY DEF ReceivesText
<1>2. receiver' = receiver /\ sending' = sending /\ sealed' = sealed
  BY DEF ReceivesText, files
<1>3. CASE UNCHANGED <<messages, receipts>>
  <2>1. \E q \in Pages : \E g : Arrives(q, g)
    BY <1>1
  <2> QED
    BY <1>2, <1>3, <2>1, QueueStep
<1>4. CASE /\ messages' = [messages EXCEPT ![p][f.nonce] =
                  IF @.kind = "none" THEN Shown(f.type, FALSE, TRUE) ELSE @]
           /\ dispatchJittered(p, Plain("ack", f.nonce))
  <2>1. f \in Way(p) /\ Opening(f) /\ f.type = OpensAs(f)
    BY <1>1, ArrivesWay DEF TalkInv, Opening, OpensAs
  <2>2. f.nonce \in Nonces /\ messages[p][f.nonce].kind = "none" /\ receiver[p][f.nonce] = Closed
    BY <2>1, OpenedOnce, MessageType
  <2>3. PICK m : m = Shown(f.type, FALSE, TRUE)
    OBVIOUS
  <2>4. messages' = [messages EXCEPT ![p][f.nonce] = m]
    BY <1>4, <2>2, <2>3 DEF TalkInv, TalkType
  <2>5. receiver' = [receiver EXCEPT ![p][f.nonce] = Closed]
    BY <1>2, <2>2 DEF TalkInv, TalkType
  <2>6. Closed \in Int
    BY DEF Closed
  <2>7. PICK k : k = OpensAs(f)
    OBVIOUS
  <2>8. messages' = [messages EXCEPT ![p][f.nonce] = Shown(k, FALSE, TRUE)]
    BY <2>1, <2>3, <2>4, <2>7
  <2>9. Arrives(p, f) /\ dispatchJittered(p, Plain("ack", f.nonce))
    BY <1>1, <1>4
  <2> QED
    BY ONLY TalkInv, p \in Pages, terminals' = terminals, <1>2, <2>1, <2>5, <2>6, <2>7, <2>8,
            <2>9, OpensTheirs
<1> QED
  BY <1>1, <1>3, <1>4

LEMMA ReceivesInitStep ==
  ASSUME TalkInv, NEW p \in Pages, ReceivesInit(p), terminals' = terminals
  PROVE  TalkInv' /\ \A q \in Pages, k \in Nonces : Stays(q, k)
<1>1. PICK f : /\ f.type = "init" /\ Arrives(p, f)
               /\ \/ /\ messages' = [messages EXCEPT ![p][f.nonce] =
                             IF @.kind = "none" THEN Shown("file", FALSE, FALSE) ELSE @]
                     /\ receiver' = [receiver EXCEPT ![p][f.nonce] = 0]
                  \/ UNCHANGED <<receiver, messages>>
  BY DEF ReceivesInit, decodeFileStreamInit, FileStreamReceiver
<1>2. receipts' = receipts /\ sending' = sending /\ sealed' = sealed
  BY DEF ReceivesInit
<1>3. CASE UNCHANGED <<receiver, messages>>
  <2>1. \E q \in Pages : \E g : Arrives(q, g)
    BY <1>1
  <2> QED
    BY <1>2, <1>3, <2>1, QueueStep
<1>4. CASE /\ messages' = [messages EXCEPT ![p][f.nonce] =
                  IF @.kind = "none" THEN Shown("file", FALSE, FALSE) ELSE @]
           /\ receiver' = [receiver EXCEPT ![p][f.nonce] = 0]
  <2>1. f \in Way(p) /\ Opening(f) /\ OpensAs(f) = "file"
    BY <1>1, ArrivesWay DEF TalkInv, Opening, OpensAs
  <2>2. f.nonce \in Nonces /\ messages[p][f.nonce].kind = "none"
    BY <2>1, OpenedOnce, MessageType
  <2>3. PICK m : m = Shown("file", FALSE, FALSE)
    OBVIOUS
  <2>4. messages' = [messages EXCEPT ![p][f.nonce] = m]
    BY <1>4, <2>2, <2>3 DEF TalkInv, TalkType
  <2>5. messages' = [messages EXCEPT ![p][f.nonce] = Shown("file", FALSE, FALSE)]
    BY <2>3, <2>4
  <2>6. PICK k : k = "file" /\ k = OpensAs(f)
    BY <2>1
  <2>7. messages' = [messages EXCEPT ![p][f.nonce] = Shown(k, FALSE, FALSE)]
    BY <2>5, <2>6
  <2>8. PICK r \in Int : r = 0
    OBVIOUS
  <2>9. Arrives(p, f) /\ receiver' = [receiver EXCEPT ![p][f.nonce] = r]
    BY <1>1, <1>4, <2>8
  <2> QED
    BY ONLY TalkInv, p \in Pages, terminals' = terminals, <1>2, <2>1, <2>6, <2>7, <2>8, <2>9,
            OpensTheirs
<1> QED
  BY <1>1, <1>3, <1>4

LEMMA TerminalReadsStep ==
  ASSUME TalkInv, NEW p \in Pages, TerminalReads(p), terminals' = terminals
  PROVE  TalkInv' /\ \A q \in Pages, k \in Nonces : Stays(q, k)
<1>1. PICK f : /\ Arrives(p, f)
               /\ \/ /\ f.type = "text"
                     /\ messages' = [messages EXCEPT ![p][f.nonce] = Shown("text", FALSE, TRUE)]
                     /\ dispatchJittered(p, Plain("ack", f.nonce))
                  \/ UNCHANGED <<messages, receipts>>
  BY DEF TerminalReads
<1>2. receiver' = receiver /\ sending' = sending /\ sealed' = sealed
  BY DEF TerminalReads, files
<1>3. CASE UNCHANGED <<messages, receipts>>
  <2>1. \E q \in Pages : \E g : Arrives(q, g)
    BY <1>1
  <2> QED
    BY <1>2, <1>3, <2>1, QueueStep
<1>4. CASE /\ f.type = "text"
           /\ messages' = [messages EXCEPT ![p][f.nonce] = Shown("text", FALSE, TRUE)]
           /\ dispatchJittered(p, Plain("ack", f.nonce))
  <2>1. f \in Way(p) /\ Opening(f) /\ OpensAs(f) = "text"
    BY <1>1, <1>4, ArrivesWay DEF TalkInv, Opening, OpensAs
  <2>2. f.nonce \in Nonces /\ receiver[p][f.nonce] = Closed
    BY <2>1, OpenedOnce
  <2>3. receiver' = [receiver EXCEPT ![p][f.nonce] = Closed]
    BY <1>2, <2>2 DEF TalkInv, TalkType
  <2>4. Closed \in Int
    BY DEF Closed
  <2> QED
    BY <1>1, <1>2, <1>4, <2>1, <2>3, <2>4, OpensTheirs
<1> QED
  BY <1>1, <1>3, <1>4

\* A frame that changes a message without opening one.
LEMMA PatchStep ==
  ASSUME TalkInv, NEW p \in Pages, NEW f, Arrives(p, f), NEW n \in Nonces,
         NEW m \in Message, NEW r \in Int, Changes(p, n, m, r), Sound(p, n, m, r),
         m.kind = messages[p][n].kind, sending' = sending,
         receipts' = [q \in Pages |-> receipts'[q]],
         \A q \in Pages : \A g \in receipts'[q] : g \in receipts[q] \/ Vouched(q, g)'
  PROVE  TalkInv' /\ \A q \in Pages, k \in Nonces : Stays(q, k)
<1>1. Ways' /\ \A q \in Pages : Way(q)' \subseteq Way(q)
  BY ArrivesWay DEF TalkInv
<1>2. \A q \in Pages : \A g \in Way(q)' : Carried(q, g)' \/ g \in Way(q)
  BY <1>1
<1>3. /\ sending' \in [Pages -> [nonce : Nat, next : Nat]]
      /\ \A q \in Pages : sending'[q] # NoStream =>
           sending[q] # NoStream /\ sending'[q].nonce = sending[q].nonce
  BY Alone
<1> QED
  BY <1>1, <1>2, <1>3, SteadyStep

\* An edit or a deletion, where it arrives.
LEMMA RemoteStep ==
  ASSUME TalkInv, NEW p \in Pages, NEW f, Arrives(p, f), p \notin terminals,
         NEW n \in Nonces, NEW m \in Message, NEW w \in Message,
         w = messages[p][n], w.kind # "none",
         m.kind = w.kind, m.own <=> w.own, m.status = w.status, m.whole <=> w.whole,
         m.fileError <=> w.fileError, w.deleted => m.deleted,
         NEW r \in Int, r = receiver[p][n], Changes(p, n, m, r),
         receipts' = receipts, sending' = sending
  PROVE  TalkInv' /\ \A q \in Pages, k \in Nonces : Stays(q, k)
<1>1. sealed' \in sealed..MaxSealed
  BY DEF Changes
<1>2. Sound(p, n, m, receiver[p][n])
  BY <1>1, PatchIsSound
<1>3. Sound(p, n, m, r)
  BY <1>2
<1>4. /\ receipts' = [q \in Pages |-> receipts'[q]]
      /\ \A q \in Pages : \A g \in receipts'[q] : g \in receipts[q] \/ Vouched(q, g)'
  BY Alone
<1> QED
  BY <1>3, <1>4, PatchStep

LEMMA ReceivesEditStep ==
  ASSUME TalkInv, NEW p \in Pages, ReceivesEdit(p), terminals' = terminals, p \notin terminals
  PROVE  TalkInv' /\ \A q \in Pages, k \in Nonces : Stays(q, k)
<1>1. PICK f : /\ f.type = "edit" /\ Arrives(p, f)
               /\ \/ messages' = [messages EXCEPT ![p][f.nonce] = edited(messages[p][f.nonce], f)]
                  \/ messages' = messages
  <2>1. PICK f : /\ f.type = "edit" /\ Arrives(p, f)
                 /\ messages' = IF Readable(p, f)
                                THEN [messages EXCEPT ![p][f.nonce] = edited(@, f)] ELSE messages
    BY DEF ReceivesEdit
  <2> QED
    BY <2>1
<1>2. /\ receiver' = receiver /\ sending' = sending /\ sealed' = sealed /\ receipts' = receipts
      /\ f.nonce \in Nonces /\ f.arg \in Nonces
  BY <1>1, ArrivesWay DEF ReceivesEdit, files, TalkInv, Carried
<1>3. \E q \in Pages : \E g : Arrives(q, g)
  BY <1>1
<1>4. CASE messages' = messages
  BY <1>2, <1>3, <1>4, QueueStep
<1>5. PICK w \in Message : w = messages[p][f.nonce]
  BY <1>2, OwnIsThere
<1>6. CASE edited(w, f) = w /\ messages' = [messages EXCEPT ![p][f.nonce] = edited(w, f)]
  BY <1>2, <1>4, <1>5, <1>6, SamePut
<1>7. CASE w.kind = "text" /\ messages' = [messages EXCEPT ![p][f.nonce] = [w EXCEPT !.text = f.arg]]
  <2>1. f.arg \in 0..MaxSealed
    BY <1>2, Bounds DEF Nonces
  <2>2. PICK m : m = [w EXCEPT !.text = f.arg]
    OBVIOUS
  <2>3. /\ m \in Message /\ m.kind = w.kind /\ (m.own <=> w.own)
        /\ m.status = w.status /\ (m.deleted <=> w.deleted) /\ (m.whole <=> w.whole)
        /\ (m.fileError <=> w.fileError)
    BY <2>1, <2>2, TextPatched
  <2>4. messages' = [messages EXCEPT ![p][f.nonce] = m] /\ w.kind # "none"
    BY <1>7, <2>2
  <2>5. Arrives(p, f)
    BY <1>1
  <2>6. PICK n \in Nonces : n = f.nonce
    BY <1>2
  <2>7. w = messages[p][n] /\ messages' = [messages EXCEPT ![p][n] = m]
    BY <1>5, <2>4, <2>6
  <2>8. PICK r \in Int : r = receiver[p][n]
    BY OwnIsThere
  <2>9. Changes(p, n, m, r)
    <3>1. sealed' \in sealed..MaxSealed
      BY <1>2, Bounds DEF TalkInv, TalkType
    <3>2. Changes(p, n, m, receiver[p][n])
      BY <1>2, <2>7, <3>1, SlotUpdate
    <3> QED
      BY <2>8, <3>2
  <2>10. w = messages[p][n] /\ receipts' = receipts /\ sending' = sending
    BY <1>2, <2>7
  <2> QED
    BY ONLY TalkInv, p \in Pages, p \notin terminals, terminals' = terminals, 
            w \in Message, n \in Nonces, <2>3, <2>4, <2>5, r \in Int, <2>8, <2>9, <2>10, RemoteStep
<1> QED
  BY <1>1, <1>4, <1>5, <1>6, <1>7 DEF edited

LEMMA ReceivesDeleteStep ==
  ASSUME TalkInv, NEW p \in Pages, ReceivesDelete(p), terminals' = terminals, p \notin terminals
  PROVE  TalkInv' /\ \A q \in Pages, k \in Nonces : Stays(q, k)
<1>1. PICK f : /\ Arrives(p, f)
               /\ messages' = [messages EXCEPT ![p][f.nonce] = deletes(messages[p][f.nonce])]
  BY DEF ReceivesDelete
<1>2. /\ receiver' = receiver /\ sending' = sending /\ sealed' = sealed /\ receipts' = receipts
      /\ f.nonce \in Nonces
  BY <1>1, ArrivesWay DEF ReceivesDelete, files, TalkInv, Carried
<1>3. \E q \in Pages : \E g : Arrives(q, g)
  BY <1>1
<1>4. PICK w \in Message : w = messages[p][f.nonce]
  BY <1>2, OwnIsThere
<1>5. CASE deletes(w) = w
  <2>1. messages' = messages
    BY <1>1, <1>2, <1>4, <1>5, SamePut
  <2> QED
    BY <1>2, <1>3, <2>1, QueueStep
<1>6. CASE w.kind # "none" /\ deletes(w) = [w EXCEPT !.deleted = TRUE, !.text = 0]
  <2>1. PICK d : d = [w EXCEPT !.deleted = TRUE]
    OBVIOUS
  <2>2. /\ d \in Message /\ d.kind = w.kind /\ (d.own <=> w.own)
        /\ d.status = w.status /\ d.deleted /\ (d.whole <=> w.whole)
        /\ (d.fileError <=> w.fileError)
    BY <2>1, DeletedPatched
  <2>3. PICK m : m = [d EXCEPT !.text = 0]
    OBVIOUS
  <2>4. 0 \in 0..MaxSealed
    BY Bounds
  <2>5. /\ m \in Message /\ m.kind = d.kind /\ (m.own <=> d.own)
        /\ m.status = d.status /\ (m.deleted <=> d.deleted) /\ (m.whole <=> d.whole)
        /\ (m.fileError <=> d.fileError)
    BY <2>2, <2>3, <2>4, TextPatched
  <2>6. messages' = [messages EXCEPT ![p][f.nonce] = m] /\ w.kind # "none"
    BY <1>1, <1>4, <1>6, <2>1, <2>3
  <2>7. Arrives(p, f)
    BY <1>1
  <2>8. /\ m.kind = w.kind /\ (m.own <=> w.own) /\ m.status = w.status /\ m.deleted
        /\ (m.whole <=> w.whole) /\ (m.fileError <=> w.fileError)
    BY <2>2, <2>5
  <2>9. PICK n \in Nonces : n = f.nonce
    BY <1>2
  <2>10. w = messages[p][n] /\ messages' = [messages EXCEPT ![p][n] = m]
    BY <1>4, <2>6, <2>9
  <2>11. PICK r \in Int : r = receiver[p][n]
    BY OwnIsThere
  <2>12. Changes(p, n, m, r)
    <3>1. sealed' \in sealed..MaxSealed
      BY <1>2, Bounds DEF TalkInv, TalkType
    <3>2. Changes(p, n, m, receiver[p][n])
      BY <1>2, <2>10, <3>1, SlotUpdate
    <3> QED
      BY <2>11, <3>2
  <2>13. w = messages[p][n] /\ receipts' = receipts /\ sending' = sending
    BY <1>2, <2>10
  <2> QED
    BY ONLY TalkInv, p \in Pages, p \notin terminals, terminals' = terminals, 
            w \in Message, n \in Nonces, <2>5, <2>6, <2>7, <2>8, r \in Int, <2>11, <2>12, <2>13, RemoteStep
<1> QED
  BY <1>5, <1>6 DEF deletes

LEMMA ReceivesReceiptStep ==
  ASSUME TalkInv, NEW p \in Pages, ReceivesReceipt(p), terminals' = terminals, p \notin terminals
  PROVE  TalkInv' /\ \A q \in Pages, k \in Nonces : Stays(q, k)
<1>1. PICK f \in receipts[p] :
         /\ receipts' = [receipts EXCEPT ![p] = @ \ {f}]
         /\ messages' = [messages EXCEPT ![p][f.nonce].status =
                            IF f.type = "read" \/ @ = "seen" THEN "seen" ELSE "delivered"]
  BY DEF ReceivesReceipt
<1>2. /\ receiver' = receiver /\ sending' = sending /\ sealed' = sealed
      /\ relay' = relay /\ direct' = direct
  BY DEF ReceivesReceipt, files
<1>3. PICK n \in Nonces : n = f.nonce /\ messages[p][n].own /\ (f.type # "read" => Arrived(p, n))
  BY DEF TalkInv, Vouched
<1>4. PICK w \in Message : w = messages[p][n] /\ w.kind # "none"
  BY <1>3, OwnIsThere
<1>5. PICK st \in {"none", "sent", "delivered", "seen"} :
         st = IF f.type = "read" \/ w.status = "seen" THEN "seen" ELSE "delivered"
  OBVIOUS
<1>6. PICK m : m = [w EXCEPT !.status = st]
  OBVIOUS
<1>7. /\ m \in Message /\ m.kind = w.kind /\ (m.own <=> w.own) /\ m.status = st
      /\ (m.deleted <=> w.deleted) /\ (m.whole <=> w.whole) /\ (m.fileError <=> w.fileError)
  BY <1>6, StatusPatched
<1>8. messages' = [messages EXCEPT ![p][n] = m]
  <2>1. messages \in [Pages -> [Nonces -> Message]]
    BY DEF TalkInv, TalkType
  <2>2. messages' = [messages EXCEPT ![p][n].status = st]
    BY <1>1, <1>3, <1>4, <1>5, <2>1
  <2> QED
    BY <1>4, <1>6, <2>1, <2>2
<1>9. sealed' \in sealed..MaxSealed
  BY <1>2, Bounds DEF TalkInv, TalkType
<1>10. PICK r \in Int : r = receiver[p][n]
  BY OwnIsThere
<1>11. Changes(p, n, m, receiver[p][n])
  BY <1>2, <1>8, <1>9, SlotUpdate
<1>12. Sound(p, n, m, r)
  <2>1. Kept(p, n) /\ Other(p) \in Pages /\ Other(Other(p)) = p
    BY OtherPage DEF TalkInv
  <2>2. n <= sealed'
    BY <1>2, <1>4, <2>1 DEF Kept
  <2>3. ~messages[Other(p)][n].own /\ r = Closed
    BY <1>3, <1>4, <1>10, <2>1 DEF Kept
  <2>4. st = "delivered" => Arrived(p, n)
    BY <1>3, <1>5
  <2>5. w.status = "seen" => st = "seen"
    BY <1>5
  <2> QED
    BY <1>3, <1>4, <1>7, <2>2, <2>3, <2>4, <2>5 DEF Sound
<1>13. Changes(p, n, m, r) /\ m.kind = messages[p][n].kind
  BY <1>4, <1>7, <1>10, <1>11
<1>14. /\ receipts' = [q \in Pages |-> receipts'[q]]
       /\ \A q \in Pages : \A g \in receipts'[q] : g \in receipts[q] \/ Vouched(q, g)'
  <2>1. receipts = [q \in Pages |-> receipts[q]]
    BY DEF TalkInv, TalkType
  <2> QED
    BY <1>1, <2>1
<1>15. Ways' /\ \A q \in Pages : Way(q)' = Way(q)
  BY <1>2, Alone
<1>16. \A q \in Pages : \A g \in Way(q)' : Carried(q, g)' \/ g \in Way(q)
  BY <1>15
<1>17. /\ sending' \in [Pages -> [nonce : Nat, next : Nat]]
       /\ \A q \in Pages : sending'[q] # NoStream =>
            sending[q] # NoStream /\ sending'[q].nonce = sending[q].nonce
  BY <1>2, Alone
<1> QED
  BY ONLY TalkInv, p \in Pages, n \in Nonces, <1>7, r \in Int, <1>12, <1>13, <1>14, <1>15,
          <1>16, <1>17, SteadyStep

LEMMA MarkStep ==
  ASSUME TalkInv, NEW p \in Pages, NEW n \in Nonces, markAsRead(p, n), terminals' = terminals
  PROVE  TalkInv' /\ \A q \in Pages, k \in Nonces : Stays(q, k)
<1>1. /\ messages' = messages /\ receiver' = receiver /\ sealed' = sealed
      /\ sending' = sending /\ relay' = relay /\ direct' = direct
      /\ messages[p][n].kind # "none" /\ ~messages[p][n].own
  BY DEF markAsRead, files
<1>2. messages[Other(p)][n].own
  BY <1>1 DEF TalkInv, Kept
<1>3. PICK f : f = Plain("read", n)
  OBVIOUS
<1>4. f.nonce = n /\ f.type = "read" /\ dispatchJittered(p, f)
  BY <1>3, FrameFields DEF Plain, markAsRead
<1>5. Vouched(Other(p), f)'
  BY <1>1, <1>2, <1>4 DEF Vouched
<1>6. /\ receipts' = [q \in Pages |-> receipts'[q]]
      /\ \A q \in Pages : \A g \in receipts'[q] : g \in receipts[q] \/ Vouched(q, g)'
  BY <1>4, <1>5, Receipted
<1>7. Ways' /\ \A q \in Pages : Way(q)' = Way(q)
  BY <1>1, Alone
<1>8. \A q \in Pages : \A g \in Way(q)' : Carried(q, g)' \/ g \in Way(q)
  BY <1>7
<1>9. /\ sending' \in [Pages -> [nonce : Nat, next : Nat]]
      /\ \A q \in Pages : sending'[q] # NoStream =>
           sending[q] # NoStream /\ sending'[q].nonce = sending[q].nonce
  BY <1>1, Alone
<1> QED
  BY <1>1, <1>6, <1>7, <1>8, <1>9, SameStep

LEMMA SkipReceiptStep ==
  ASSUME TalkInv, NEW p \in Pages, TerminalSkipsReceipt(p), terminals' = terminals
  PROVE  TalkInv' /\ \A q \in Pages, k \in Nonces : Stays(q, k)
<1>1. /\ messages' = messages /\ receiver' = receiver /\ sealed' = sealed
      /\ sending' = sending /\ relay' = relay /\ direct' = direct
  BY DEF TerminalSkipsReceipt, files
<1>2. PICK f \in receipts[p] : receipts' = [receipts EXCEPT ![p] = @ \ {f}]
  BY DEF TerminalSkipsReceipt
<1>3. /\ receipts' = [q \in Pages |-> receipts'[q]]
      /\ \A q \in Pages : \A g \in receipts'[q] : g \in receipts[q] \/ Vouched(q, g)'
  <2>1. receipts = [q \in Pages |-> receipts[q]]
    BY DEF TalkInv, TalkType
  <2> QED
    BY <1>2, <2>1
<1>4. Ways' /\ \A q \in Pages : Way(q)' = Way(q)
  BY <1>1, Alone
<1>5. \A q \in Pages : \A g \in Way(q)' : Carried(q, g)' \/ g \in Way(q)
  BY <1>4
<1>6. /\ sending' \in [Pages -> [nonce : Nat, next : Nat]]
      /\ \A q \in Pages : sending'[q] # NoStream =>
           sending[q] # NoStream /\ sending'[q].nonce = sending[q].nonce
  BY <1>1, Alone
<1> QED
  BY <1>1, <1>3, <1>4, <1>5, <1>6, SameStep

LEMMA SendsChunkStep ==
  ASSUME TalkInv, NEW p \in Pages, SendsChunk(p), terminals' = terminals
  PROVE  TalkInv' /\ \A q \in Pages, k \in Nonces : Stays(q, k)
<1>1. /\ messages' = messages /\ receiver' = receiver /\ sealed' = sealed
      /\ receipts' = receipts /\ sending[p] # NoStream
      /\ sending \in [Pages -> [nonce : Nat, next : Nat]]
  BY DEF SendsChunk, TalkInv, TalkType
<1>2. PICK t \in [nonce : Nat, next : Nat] : t = sending[p]
  BY <1>1
<1>3. PICK u : u = IF t.next + 1 = Chunks THEN NoStream ELSE [t EXCEPT !.next = t.next + 1]
  OBVIOUS
<1>4. sending' = [sending EXCEPT ![p] = u] /\ dispatchDirect(p, frames(t))
  BY <1>2, <1>3 DEF SendsChunk
<1>5. u \in [nonce : Nat, next : Nat] /\ (u # NoStream => u.nonce = t.nonce)
  BY <1>3 DEF NoStream
<1>6. /\ sending' \in [Pages -> [nonce : Nat, next : Nat]]
      /\ \A q \in Pages : sending'[q] # NoStream =>
           sending[q] # NoStream /\ sending'[q].nonce = sending[q].nonce
  BY <1>1, <1>2, <1>4, <1>5
<1>7. PICK f : f = frames(t)
  OBVIOUS
<1>8. f.type = "chunk" /\ f.nonce = t.nonce /\ ~Opening(f)
  BY <1>7, FrameFields DEF frames, Opening
<1>9. t.nonce \in Nonces
  BY <1>1, <1>2 DEF TalkInv
<1>10. /\ Ways'
       /\ \A q \in Pages : Way(q)' \subseteq IF q = Other(p) THEN Way(q) \cup {f} ELSE Way(q)
  BY <1>4, <1>7, <1>8, DispatchWay DEF Distinct, TalkInv
<1>11. Carried(Other(p), f)'
  BY <1>8, <1>9 DEF Carried
<1>12. \A q \in Pages : \A g \in Way(q)' : Carried(q, g)' \/ g \in Way(q)
  BY <1>10, <1>11
<1>13. /\ receipts' = [q \in Pages |-> receipts'[q]]
       /\ \A q \in Pages : \A g \in receipts'[q] : g \in receipts[q] \/ Vouched(q, g)'
  BY <1>1, Alone
<1> QED
  BY <1>1, <1>6, <1>10, <1>12, <1>13, SameStep

\* A stream breaks off, at its sender or where it arrives.
LEMMA BreaksOff ==
  ASSUME TalkInv, NEW p \in Pages, p \notin terminals, NEW n \in Nonces,
         messages[p][n].own \/ receiver[p][n] # Closed, NEW r \in Int, r = Closed,
         messages' = [messages EXCEPT ![p][n].fileError = TRUE],
         receiver' = [receiver EXCEPT ![p][n] = r],
         sealed' = sealed, terminals' = terminals, receipts' = receipts,
         relay' = relay, direct' = direct,
         sending' \in [Pages -> [nonce : Nat, next : Nat]],
         \A q \in Pages : sending'[q] # NoStream =>
            sending[q] # NoStream /\ sending'[q].nonce = sending[q].nonce
  PROVE  TalkInv' /\ \A q \in Pages, k \in Nonces : Stays(q, k)
<1>1. PICK w \in Message : w = messages[p][n]
  BY OwnIsThere
<1>2. PICK m : m = [w EXCEPT !.fileError = TRUE]
  OBVIOUS
<1>3. /\ m \in Message /\ m.kind = w.kind /\ (m.own <=> w.own) /\ m.status = w.status
      /\ (m.deleted <=> w.deleted) /\ (m.whole <=> w.whole) /\ m.fileError
  BY <1>2, FileErrorPatched
<1>4. Changes(p, n, m, r)
  <2>1. messages \in [Pages -> [Nonces -> Message]]
    BY DEF TalkInv, TalkType
  <2>2. messages' = [messages EXCEPT ![p][n] = m]
    BY <1>1, <1>2, <2>1
  <2>3. sealed' \in sealed..MaxSealed
    BY Bounds DEF TalkInv, TalkType
  <2> QED
    BY <2>2, <2>3 DEF Changes
<1>5. Sound(p, n, m, r)
  <2>1. Kept(p, n) /\ Other(p) \in Pages /\ Other(Other(p)) = p
    BY OtherPage DEF TalkInv
  <2>2. w.kind # "none"
    BY <1>1, <2>1, OwnIsThere DEF Kept
  <2>3. n <= sealed'
    BY <1>1, <2>1, <2>2 DEF Kept
  <2>4. ~(messages[Other(p)][n].own /\ Arrived(Other(p), n))
    <3>1. w.own => ~messages[Other(p)][n].own
      BY <1>1, <2>1 DEF Kept
    <3>2. receiver[p][n] # Closed => ~Arrived(Other(p), n)
      BY <2>1 DEF Arrived
    <3> QED
      BY <1>1, <3>1, <3>2
  <2>5. /\ w.status = "seen" => w.own
        /\ ~w.own => messages[Other(p)][n].own /\ messages[Other(p)][n].kind = w.kind
        /\ w.own => ~messages[Other(p)][n].own
        /\ w.own /\ w.status = "delivered" => Arrived(p, n)
    BY <1>1, <2>1, <2>2 DEF Kept
  <2> QED
    BY <1>1, <1>3, <2>2, <2>3, <2>4, <2>5 DEF Sound
<1>6. m.kind = messages[p][n].kind
  BY <1>1, <1>3
<1>7. Ways' /\ \A q \in Pages : Way(q)' = Way(q)
  BY Alone
<1>8. \A q \in Pages : \A g \in Way(q)' : Carried(q, g)' \/ g \in Way(q)
  BY <1>7
<1>9. /\ receipts' = [q \in Pages |-> receipts'[q]]
      /\ \A q \in Pages : \A g \in receipts'[q] : g \in receipts[q] \/ Vouched(q, g)'
  BY Alone
<1>10. /\ sending' \in [Pages -> [nonce : Nat, next : Nat]]
       /\ \A q \in Pages : sending'[q] # NoStream =>
            sending[q] # NoStream /\ sending'[q].nonce = sending[q].nonce
  OBVIOUS
<1> QED
  BY ONLY TalkInv, p \in Pages, n \in Nonces, <1>3, r \in Int, <1>4, <1>5, <1>6, <1>7, <1>8,
          <1>9, <1>10, SteadyStep

LEMMA InterruptedStep ==
  ASSUME TalkInv, NEW p \in Pages, StreamInterrupted(p), terminals' = terminals,
         p \notin terminals
  PROVE  TalkInv' /\ \A q \in Pages, k \in Nonces : Stays(q, k)
<1>1. PICK n \in Nonces : n = sending[p].nonce /\ messages[p][n].own
  BY DEF StreamInterrupted, TalkInv
<1>2. /\ messages' = [messages EXCEPT ![p][n].fileError = TRUE]
      /\ sending' = [sending EXCEPT ![p] = NoStream]
      /\ sealed' = sealed /\ receipts' = receipts /\ relay' = relay /\ direct' = direct
      /\ receiver' = receiver
  BY <1>1 DEF StreamInterrupted, queues
<1>3. receiver[p][n] = Closed
  BY <1>1 DEF TalkInv, Kept
<1>4. PICK r \in Int : r = Closed
  BY DEF Closed
<1>5. receiver' = [receiver EXCEPT ![p][n] = r]
  BY <1>2, <1>3, <1>4 DEF TalkInv, TalkType
<1>6. /\ sending' \in [Pages -> [nonce : Nat, next : Nat]]
      /\ \A q \in Pages : sending'[q] # NoStream =>
           sending[q] # NoStream /\ sending'[q].nonce = sending[q].nonce
  <2>1. NoStream \in [nonce : Nat, next : Nat]
    BY DEF NoStream
  <2> QED
    BY <1>2, <2>1 DEF TalkInv, TalkType
<1>7. messages[p][n].own \/ receiver[p][n] # Closed
  BY <1>1
<1>8. /\ messages' = [messages EXCEPT ![p][n].fileError = TRUE]
      /\ sealed' = sealed /\ receipts' = receipts /\ relay' = relay /\ direct' = direct
  BY <1>2
<1> QED
  BY ONLY TalkInv, p \in Pages, p \notin terminals, terminals' = terminals, n \in Nonces,
          r \in Int, <1>4, <1>5, <1>6, <1>7, <1>8, BreaksOff

LEMMA StallsStep ==
  ASSUME TalkInv, NEW p \in Pages, StreamStalls(p), terminals' = terminals, p \notin terminals
  PROVE  TalkInv' /\ \A q \in Pages, k \in Nonces : Stays(q, k)
<1>1. PICK n \in Nonces : /\ receiver[p][n] # Closed
                          /\ receiver' = [receiver EXCEPT ![p][n] = Closed]
                          /\ messages' = [messages EXCEPT ![p][n].fileError = TRUE]
  BY DEF StreamStalls
<1>2. PICK r \in Int : r = Closed
  BY DEF Closed
<1>3. receiver' = [receiver EXCEPT ![p][n] = r]
  BY <1>1, <1>2
<1>4. sealed' = sealed /\ receipts' = receipts /\ relay' = relay /\ direct' = direct
      /\ sending' = sending
  BY DEF StreamStalls, queues
<1>5. /\ sending' \in [Pages -> [nonce : Nat, next : Nat]]
      /\ \A q \in Pages : sending'[q] # NoStream =>
           sending[q] # NoStream /\ sending'[q].nonce = sending[q].nonce
  BY <1>4, Alone
<1>6. messages[p][n].own \/ receiver[p][n] # Closed
  BY <1>1
<1>7. messages' = [messages EXCEPT ![p][n].fileError = TRUE]
  BY <1>1
<1> QED
  BY ONLY TalkInv, p \in Pages, p \notin terminals, terminals' = terminals, n \in Nonces,
          r \in Int, <1>2, <1>3, <1>4, <1>5, <1>6, <1>7, BreaksOff

LEMMA ReceivesChunkStep ==
  ASSUME TalkInv, NEW p \in Pages, ReceivesChunk(p), terminals' = terminals, p \notin terminals
  PROVE  TalkInv' /\ \A q \in Pages, k \in Nonces : Stays(q, k)
<1>1. PICK f : /\ frameFileId(f) # 0 /\ Arrives(p, f)
               /\ LET id == frameFileId(f)
                      next == acceptFrame(receiver[p][id], f) IN
                  \/ receiver[p][id] = Closed /\ UNCHANGED <<receiver, messages, receipts>>
                  \/ /\ receiver[p][id] # Closed
                     /\ receiver' = [receiver EXCEPT ![p][id] = settled(next)]
                     /\ messages' = [messages EXCEPT
                           ![p][id].fileError = @ \/ next = Closed,
                           ![p][id].whole = isDone(next),
                           ![p][id].status = IF isDone(next) THEN "delivered" ELSE @]
                     /\ \/ isDone(next) /\ dispatchJittered(p, Plain("ack", id))
                        \/ UNCHANGED receipts
  BY Zenon DEF ReceivesChunk
<1>2. /\ sealed' = sealed /\ sending' = sending
      /\ f \in Way(p) /\ f.nonce \in Nonces /\ frameFileId(f) = f.nonce
  <2>1. f \in Way(p)
    BY <1>1, ArrivesWay DEF TalkInv
  <2> QED
    BY <1>1, <2>1 DEF ReceivesChunk, TalkInv, Carried, frameFileId
<1>3. PICK n \in Nonces : n = frameFileId(f)
  BY <1>2
<1>4. PICK was \in Int : was = receiver[p][n]
  BY OwnIsThere
<1>5. PICK next : next = acceptFrame(was, f)
  OBVIOUS
<1>6. next \in Int /\ Closed \in Int /\ Closed # Chunks
  BY <1>5, Bounds DEF acceptFrame, fail, Closed
<1>7. PICK w \in Message : w = messages[p][n]
  BY OwnIsThere
<1>8. PICK e \in BOOLEAN : e = (w.fileError \/ next = Closed)
  OBVIOUS
<1>9. PICK d \in BOOLEAN : d = isDone(next)
  BY DEF isDone
<1>10. PICK st \in {"none", "sent", "delivered", "seen"} :
          st = IF isDone(next) THEN "delivered" ELSE w.status
  BY DEF Message
<1>11. PICK r \in Int : r = settled(next)
  BY <1>6 DEF settled
<1>12. PICK m1 : m1 = [w EXCEPT !.fileError = e]
  OBVIOUS
<1>13. PICK m2 : m2 = [m1 EXCEPT !.whole = d]
  OBVIOUS
<1>14. PICK m : m = [m2 EXCEPT !.status = st]
  OBVIOUS
<1>15. /\ m1 \in Message /\ m1.kind = w.kind /\ (m1.own <=> w.own) /\ m1.status = w.status
       /\ (m1.deleted <=> w.deleted) /\ (m1.whole <=> w.whole) /\ (m1.fileError <=> e)
  BY <1>12, FileErrorPatched
<1>16. /\ m2 \in Message /\ m2.kind = w.kind /\ (m2.own <=> w.own) /\ m2.status = w.status
       /\ (m2.deleted <=> w.deleted) /\ (m2.whole <=> d) /\ (m2.fileError <=> e)
  BY <1>13, <1>15, WholePatched
<1>17. /\ m \in Message /\ m.kind = w.kind /\ (m.own <=> w.own) /\ m.status = st
       /\ (m.deleted <=> w.deleted) /\ (m.whole <=> d) /\ (m.fileError <=> e)
  BY <1>14, <1>16, StatusPatched
<1>18. CASE UNCHANGED <<receiver, messages, receipts>>
  <2>1. \E q \in Pages : \E g : Arrives(q, g)
    BY <1>1
  <2> QED
    BY <1>2, <1>18, <2>1, QueueStep
<1>19. ASSUME was # Closed, receiver' = [receiver EXCEPT ![p][n] = r],
              messages' = [messages EXCEPT ![p][n] = m],
              \/ isDone(next) /\ dispatchJittered(p, Plain("ack", n))
              \/ receipts' = receipts
       PROVE  TalkInv' /\ \A q \in Pages, k \in Nonces : Stays(q, k)
  <2>1. PICK o \in Pages : o = Other(p) /\ o # p /\ Other(o) = p
    BY OtherPage
  <2>2. Kept(p, n)
    BY DEF TalkInv
  <2>3. w.kind = "file" /\ ~w.own /\ ~w.whole /\ ~w.fileError
    BY <1>4, <1>7, <1>19, <2>2 DEF Kept
  <2>4. /\ n <= sealed /\ w.status # "seen"
        /\ messages[o][n].own /\ messages[o][n].kind = w.kind
    BY <1>7, <2>1, <2>2, <2>3 DEF Kept
  <2>5. ~Arrived(o, n)
    BY <1>4, <1>19, <2>1 DEF Arrived
  <2>6. Changes(p, n, m, r)
    <3>1. sealed' \in sealed..MaxSealed
      BY <1>2, Bounds DEF TalkInv, TalkType
    <3> QED
      BY <1>19, <3>1 DEF Changes
  <2>7. r # Closed => ~d /\ ~e
    BY <1>8, <1>9, <1>11, <2>3 DEF settled
  <2>8. p \in terminals => FALSE
    OBVIOUS
  <2>9. st # "seen"
    BY <1>10, <2>4
  <2>10. Sound(p, n, m, r)
    BY <1>2, <1>7, <1>17, <2>1, <2>3, <2>4, <2>5, <2>7, <2>8, <2>9 DEF Sound
  <2>11. /\ messages' \in [Pages -> [Nonces -> Message]]
         /\ receiver' \in [Pages -> [Nonces -> Int]]
         /\ messages'[p][n] = m /\ receiver'[p][n] = r
         /\ \A q \in Pages, j \in Nonces : q # p \/ j # n =>
              messages'[q][j] = messages[q][j] /\ receiver'[q][j] = receiver[q][j]
    BY ONLY TalkInv, p \in Pages, n \in Nonces, <1>17, r \in Int, <2>6, ChangeSlot
  <2>12. /\ receipts' = [q \in Pages |-> receipts'[q]]
         /\ \A q \in Pages : \A g \in receipts'[q] : g \in receipts[q] \/ Vouched(q, g)'
    <3>1. CASE receipts' = receipts
      BY <3>1, Alone
    <3>2. CASE isDone(next) /\ dispatchJittered(p, Plain("ack", n))
      <4>1. PICK g : g = Plain("ack", n)
        OBVIOUS
      <4>2. g.nonce = n /\ g.type = "ack"
        BY <4>1, FrameFields DEF Plain
      <4>3. messages'[o][n] = messages[o][n]
        BY <2>1, <2>11
      <4>4. d /\ ~e /\ r = Closed
        BY <1>6, <1>8, <1>9, <1>11, <2>3, <3>2 DEF settled, isDone
      <4>5. Arrived(o, n)'
        BY <1>17, <2>1, <2>4, <2>11, <4>3, <4>4 DEF Arrived
      <4>6. Vouched(o, g)'
        BY <2>4, <4>2, <4>3, <4>5 DEF Vouched
      <4>7. dispatchJittered(p, g)
        BY <3>2, <4>1
      <4> QED
        BY <2>1, <4>6, <4>7, Receipted
    <3> QED
      BY <1>19, <3>1, <3>2
  <2>13. m.kind = messages[p][n].kind /\ Arrives(p, f) /\ sending' = sending
    BY <1>1, <1>2, <1>7, <1>17
  <2> QED
    BY ONLY TalkInv, p \in Pages, n \in Nonces, <1>17, r \in Int, <2>6, <2>10, <2>12, <2>13,
            PatchStep
<1>20. ASSUME messages' = [messages EXCEPT
                 ![p][n].fileError = @ \/ next = Closed,
                 ![p][n].whole = isDone(next),
                 ![p][n].status = IF isDone(next) THEN "delivered" ELSE @]
       PROVE  messages' = [messages EXCEPT ![p][n] = m]
  <2>1. messages \in [Pages -> [Nonces -> Message]]
    BY DEF TalkInv, TalkType
  <2>2. PICK row \in [Nonces -> Message] : row = messages[p]
    BY <2>1
  <2>3. PICK a \in [Pages -> [Nonces -> Message]] : a = [messages EXCEPT ![p][n] = m1]
    BY <1>15, <2>1
  <2>4. PICK b \in [Pages -> [Nonces -> Message]] : b = [a EXCEPT ![p][n] = m2]
    BY <1>16, <2>3
  <2>5. a[p][n] = m1 /\ b[p][n] = m2
    BY <2>3, <2>4
  <2>6. a = [messages EXCEPT ![p][n].fileError = e]
    BY <1>7, <1>12, <2>1, <2>3
  <2>7. b = [a EXCEPT ![p][n].whole = d]
    BY <1>13, <2>3, <2>4, <2>5
  <2>8. [b EXCEPT ![p][n] = m] = [b EXCEPT ![p][n].status = st]
    BY <1>14, <2>4, <2>5
  <2>9. b[p][n].status = w.status
    BY <1>15, <1>16, <2>5
  <2>10. messages' = [b EXCEPT ![p][n].status = st]
    <3>1. messages[p][n].fileError \/ next = Closed <=> e
      BY <1>7, <1>8
    <3> QED
      BY <1>7, <1>8, <1>9, <1>10, <1>20, <2>6, <2>7, <2>9
  <2>11. [b EXCEPT ![p][n] = m] = [messages EXCEPT ![p][n] = m]
    BY <2>1, <2>3, <2>4
  <2> QED
    BY <2>8, <2>10, <2>11
<1> QED
  BY <1>1, <1>3, <1>4, <1>5, <1>11, <1>18, <1>19, <1>20

LEMMA TalkStarts == Init => TalkInv
<1> SUFFICES ASSUME Init
             PROVE  TalkInv
  OBVIOUS
<1>1. /\ messages \in [Pages -> [Nonces -> Message]]
      /\ \A p \in Pages, n \in Nonces : messages[p][n] = Absent
  BY MessageType DEF Init
<1>2. /\ receiver \in [Pages -> [Nonces -> Int]]
      /\ \A p \in Pages, n \in Nonces : receiver[p][n] = Closed
  <2>1. Closed \in Int
    BY DEF Closed
  <2> QED
    BY <2>1 DEF Init
<1>3. /\ sending \in [Pages -> [nonce : Nat, next : Nat]]
      /\ \A p \in Pages : sending[p] = NoStream
  <2>1. NoStream \in [nonce : Nat, next : Nat]
    BY DEF NoStream
  <2> QED
    BY <2>1 DEF Init
<1>4. /\ sealed \in 0..MaxSealed /\ terminals \subseteq Pages
      /\ receipts = [p \in Pages |-> receipts[p]] /\ \A p \in Pages : receipts[p] = {}
  BY Bounds DEF Init, Pages
<1>5. IsSeq(<<>>) /\ In(<<>>) = {} /\ Single(<<>>) /\ Len(<<>>) = 0
  <2>1. <<>> \in Seq({}) /\ Len(<<>>) = 0
    OBVIOUS
  <2> QED
    BY <2>1 DEF IsSeq, In, Single
<1>6. /\ relay = [p \in Pages |-> relay[p]] /\ direct = [p \in Pages |-> direct[p]]
      /\ \A p \in Pages : relay[p] = <<>> /\ direct[p] = <<>>
  BY DEF Init
<1>7. Ways /\ \A p \in Pages : Way(p) = {}
  BY <1>5, <1>6 DEF Ways, Way, Apart
<1>8. ASSUME NEW p \in Pages, NEW n \in Nonces
      PROVE  Kept(p, n)
  <2>1. Other(p) \in Pages
    BY OtherPage
  <2>2. /\ messages[p][n] = Absent /\ messages[Other(p)][n] = Absent
        /\ receiver[p][n] = Closed
    BY <1>1, <1>2, <2>1
  <2>3. PICK a : /\ a = Absent /\ a.kind = "none" /\ ~a.own /\ a.status = "none"
                 /\ ~a.deleted
    BY MessageType
  <2> QED
    BY <2>2, <2>3 DEF Kept
<1> QED
  BY <1>1, <1>2, <1>3, <1>4, <1>7, <1>8 DEF TalkInv, TalkType

LEMMA TalkStep ==
  ASSUME TalkInv, [Next]_vars
  PROVE  TalkInv' /\ \A q \in Pages, k \in Nonces : Stays(q, k)
<1>1. CASE UNCHANGED vars
  BY <1>1, QueueStep DEF vars, queues, files
<1>2. CASE terminals' = terminals /\ \E p \in Pages \ terminals : User(p) \/ Page(p) \/ StreamStalls(p)
  <2>1. PICK p \in Pages : p \notin terminals /\ (User(p) \/ Page(p) \/ StreamStalls(p))
    BY <1>2
  <2>2. CASE User(p)
    BY <1>2, <2>1, <2>2, SealStep, EditStep, DeleteStep, MarkStep
       DEF User, sendMessage, sendFile
  <2>3. CASE Page(p)
    BY <1>2, <2>1, <2>3, ReceivesTextStep, ReceivesEditStep, ReceivesDeleteStep,
       ReceivesReceiptStep, ReceivesInitStep, ReceivesChunkStep, SendsChunkStep, InterruptedStep
       DEF Page
  <2>4. CASE StreamStalls(p)
    BY <1>2, <2>1, <2>4, StallsStep
  <2> QED
    BY <2>1, <2>2, <2>3, <2>4
<1>3. CASE terminals' = terminals /\ \E p \in terminals : Terminal(p)
  <2>1. PICK p \in Pages : Terminal(p)
    BY <1>3 DEF TalkInv, TalkType
  <2> QED
    BY <1>3, <2>1, SealStep, TerminalReadsStep, SkipReceiptStep DEF Terminal, sendChat
<1>4. CASE terminals' = terminals /\ \E p \in Pages : RelayLoses(p)
  <2>1. PICK p \in Pages : RelayLoses(p)
    BY <1>4
  <2>2. /\ messages' = messages /\ receiver' = receiver /\ sealed' = sealed
        /\ receipts' = receipts /\ sending' = sending
    BY <2>1 DEF RelayLoses, files
  <2> QED
    BY <1>4, <2>2, QueueStep
<1>5. CASE terminals' = terminals /\ (LinkOpens \/ LinkDies)
  <2>1. /\ messages' = messages /\ receiver' = receiver /\ sealed' = sealed
        /\ receipts' = receipts /\ sending' = sending
        /\ LinkDies \/ UNCHANGED <<relay, direct>>
    BY <1>5 DEF LinkOpens, LinkDies, files, queues
  <2> QED
    BY <1>5, <2>1, QueueStep
<1> QED
  BY <1>1, <1>2, <1>3, <1>4, <1>5 DEF Next

LEMMA TalkIsSound == Spec => []TalkInv
<1>1. TalkInv /\ [Next]_vars => TalkInv'
  BY TalkStep
<1> QED
  BY <1>1, TalkStarts, PTL DEF Spec

\* DeletedStays: an edit or a copy that comes late never brings back what was
\* deleted, and nothing unsees a message (useRelay's edit, delete and receipt
\* handlers), whatever the two paths reorder and lose.
THEOREM DeletedForGood == Spec => DeletedStays
<1>1. TalkInv /\ [Next]_vars =>
        [\A p \in Pages : \A n \in Nonces :
           /\ messages[p][n].deleted => messages'[p][n].deleted
           /\ messages[p][n].status = "seen" => messages'[p][n].status = "seen"]_vars
  BY TalkStep DEF Stays
<1> QED
  BY <1>1, TalkIsSound, PTL DEF Spec, DeletedStays

\* ReceiptsTrue: what a page marks as delivered is shown on the other, whole and
\* of the kind it was sent, for any number of messages, chunks and faults.
THEOREM DeliveredIsShown == Spec => []ReceiptsTrue
<1>1. TalkInv => ReceiptsTrue
  BY DEF TalkInv, Kept, Arrived, ReceiptsTrue
<1> QED
  BY <1>1, TalkIsSound, PTL

(* What the ratchet remembers *)

\* The message keys that are kept, and keys that are all different.
Mks(q) == {q[i].mk : i \in 1..Len(q)}
Unlike(q) == \A i, j \in 1..Len(q) : i # j => q[i].mk # q[j].mk
KeyStore(q) == IsSeq(q) /\ Unlike(q)

LEMMA CutKeys ==
  ASSUME NEW q, KeyStore(q), NEW a \in Nat \ {0}, NEW b \in Nat, b <= Len(q)
  PROVE  LET r == SubSeq(q, a, b) IN
         /\ KeyStore(r) /\ Mks(r) \subseteq {q[i].mk : i \in a..b} /\ Mks(r) \subseteq Mks(q)
<1>1. PICK S : q \in Seq(S)
  BY DEF KeyStore, IsSeq
<1>2. Len(q) \in Nat /\ \A i \in 1..Len(q) : q[i] \in S
  BY <1>1, LenProperties, ElementOfSeq
<1>3. PICK r : r = SubSeq(q, a, b)
  OBVIOUS
<1>4. /\ r \in Seq(S) /\ Len(r) = (IF a <= b THEN b - a + 1 ELSE 0)
      /\ \A i \in 1..(b - a + 1) : r[i] = q[a + i - 1]
  BY <1>2, <1>3, SubSeqProperties
<1>5. \A i \in 1..Len(r) : r[i] = q[a + i - 1] /\ a + i - 1 \in a..b /\ a + i - 1 \in 1..Len(q)
  BY <1>2, <1>4
<1>6. ASSUME NEW i \in 1..Len(r), NEW j \in 1..Len(r), i # j
      PROVE  r[i].mk # r[j].mk
  <2>1. PICK k \in 1..Len(q) : k = a + i - 1 /\ r[i] = q[k]
    BY <1>5
  <2>2. PICK l \in 1..Len(q) : l = a + j - 1 /\ r[j] = q[l]
    BY <1>5
  <2>3. k # l
    BY <1>6, <2>1, <2>2
  <2> QED
    BY <2>1, <2>2, <2>3 DEF KeyStore, Unlike
<1>7. Mks(r) \subseteq {q[i].mk : i \in a..b} /\ Mks(r) \subseteq Mks(q)
  BY <1>5 DEF Mks
<1>8. KeyStore(r)
  BY <1>4, <1>6 DEF KeyStore, IsSeq, Unlike
<1> QED
  BY <1>3, <1>7, <1>8

LEMMA JoinKeys ==
  ASSUME NEW q, KeyStore(q), NEW r, KeyStore(r), Mks(q) \cap Mks(r) = {}
  PROVE  KeyStore(q \o r) /\ Mks(q \o r) \subseteq Mks(q) \cup Mks(r)
<1>1. PICK S : q \in Seq(S)
  BY DEF KeyStore, IsSeq
<1>2. PICK T : r \in Seq(T)
  BY DEF KeyStore, IsSeq
<1>3. q \in Seq(S \cup T) /\ r \in Seq(S \cup T)
  BY <1>1, <1>2, SeqMonotonic
<1>4. PICK m \in Nat : m = Len(q)
  BY <1>3, LenProperties
<1>5. PICK n \in Nat : n = Len(r)
  BY <1>3, LenProperties
<1>6. PICK t : t = q \o r
  OBVIOUS
<1>7. /\ t \in Seq(S \cup T) /\ Len(t) = m + n
      /\ \A i \in 1..(m + n) : t[i] = IF i <= m THEN q[i] ELSE r[i - m]
  BY <1>3, <1>4, <1>5, <1>6, ConcatProperties
<1>8. \A i \in 1..Len(t) : \/ i \in 1..m /\ t[i] = q[i]
                           \/ i > m /\ i - m \in 1..n /\ t[i] = r[i - m]
  BY <1>7
<1>9. ASSUME NEW i \in 1..Len(t), NEW j \in 1..Len(t), i # j
      PROVE  t[i].mk # t[j].mk
  <2>1. CASE i \in 1..m /\ t[i] = q[i] /\ j \in 1..m /\ t[j] = q[j]
    BY <1>4, <1>9, <2>1 DEF KeyStore, Unlike
  <2>2. CASE /\ i > m /\ i - m \in 1..n /\ t[i] = r[i - m]
             /\ j > m /\ j - m \in 1..n /\ t[j] = r[j - m]
    <3>1. i - m # j - m
      BY <1>9
    <3> QED
      BY <1>5, <2>2, <3>1 DEF KeyStore, Unlike
  <2>3. CASE i \in 1..m /\ t[i] = q[i] /\ j > m /\ j - m \in 1..n /\ t[j] = r[j - m]
    BY <1>4, <1>5, <2>3 DEF Mks
  <2>4. CASE j \in 1..m /\ t[j] = q[j] /\ i > m /\ i - m \in 1..n /\ t[i] = r[i - m]
    BY <1>4, <1>5, <2>4 DEF Mks
  <2> QED
    BY <1>8, <2>1, <2>2, <2>3, <2>4
<1>10. Mks(t) \subseteq Mks(q) \cup Mks(r)
  BY <1>4, <1>5, <1>8 DEF Mks
<1>11. KeyStore(t)
  BY <1>7, <1>9 DEF KeyStore, IsSeq, Unlike
<1> QED
  BY <1>6, <1>10, <1>11

LEMMA ForgetKeys ==
  ASSUME NEW q, KeyStore(q), NEW i \in 1..Len(q)
  PROVE  KeyStore(Forget(q, i)) /\ Mks(Forget(q, i)) \subseteq Mks(q) \ {q[i].mk}
<1>1. Len(q) \in Nat
  BY LenProperties DEF KeyStore, IsSeq
<1>2. PICK r : r = SubSeq(q, 1, i - 1)
  OBVIOUS
<1>3. PICK t : t = SubSeq(q, i + 1, Len(q))
  OBVIOUS
<1>4. /\ KeyStore(r) /\ Mks(r) \subseteq {q[j].mk : j \in 1..(i - 1)}
      /\ Mks(r) \subseteq Mks(q)
  <2>1. 1 \in Nat \ {0} /\ i - 1 \in Nat /\ i - 1 <= Len(q)
    BY <1>1
  <2> QED
    BY <1>2, <2>1, CutKeys
<1>5. /\ KeyStore(t) /\ Mks(t) \subseteq {q[j].mk : j \in (i + 1)..Len(q)}
      /\ Mks(t) \subseteq Mks(q)
  <2>1. i + 1 \in Nat \ {0} /\ Len(q) <= Len(q)
    BY <1>1
  <2> QED
    BY <1>1, <1>3, <2>1, CutKeys
<1>6. \A j \in 1..(i - 1), k \in (i + 1)..Len(q) :
         /\ q[j].mk # q[k].mk /\ q[j].mk # q[i].mk /\ q[k].mk # q[i].mk
  BY <1>1 DEF KeyStore, Unlike
<1>7. Mks(r) \cap Mks(t) = {}
  <2>1. ASSUME NEW k \in Mks(r), k \in Mks(t)
        PROVE  FALSE
    <3>1. PICK a \in 1..(i - 1) : k = q[a].mk
      BY <1>4
    <3>2. PICK b \in (i + 1)..Len(q) : k = q[b].mk
      BY <1>5, <2>1
    <3> QED
      BY <1>6, <3>1, <3>2
  <2> QED
    BY <2>1
<1>8. q[i].mk \notin Mks(r) /\ q[i].mk \notin Mks(t)
  <2>1. \A k \in (i + 1)..Len(q) : q[k].mk # q[i].mk
    BY <1>1 DEF KeyStore, Unlike
  <2>2. \A j \in 1..(i - 1) : q[j].mk # q[i].mk
    BY <1>1 DEF KeyStore, Unlike
  <2> QED
    BY <1>4, <1>5, <2>1, <2>2
<1>9. KeyStore(r \o t) /\ Mks(r \o t) \subseteq Mks(r) \cup Mks(t)
  BY <1>4, <1>5, <1>7, JoinKeys
<1> QED
  BY <1>2, <1>3, <1>4, <1>5, <1>8, <1>9 DEF Forget

LEMMA EvictKeys ==
  ASSUME NEW q, KeyStore(q)
  PROVE  KeyStore(Evict(q)) /\ Mks(Evict(q)) \subseteq Mks(q)
<1>1. PICK n \in Nat : n = Len(q)
  BY LenProperties DEF KeyStore, IsSeq
<1>2. CASE n <= MAX_SKIPPED_KEYS
  BY <1>1, <1>2 DEF Evict
<1>3. CASE ~(n <= MAX_SKIPPED_KEYS)
  <2>1. n - MAX_SKIPPED_KEYS + 1 \in Nat \ {0} /\ n <= Len(q)
    BY <1>1, <1>3, SkipBounds
  <2>2. LET r == SubSeq(q, n - MAX_SKIPPED_KEYS + 1, n) IN KeyStore(r) /\ Mks(r) \subseteq Mks(q)
    BY <2>1, CutKeys
  <2> QED
    BY <1>1, <1>3, <2>2 DEF Evict
<1> QED
  BY <1>2, <1>3

\* A key that one end has derived: of a chain no newer than its root key, and
\* in the chain it reads now of a message before the next.
Past(s, mk) ==
    /\ mk = <<mk[1], mk[2]>> /\ IsSeq(mk[1]) /\ mk[2] \in Nat
    /\ Len(mk[1]) <= Len(s.RK)
    /\ mk[1] = s.CKr => mk[2] < s.Nr

RatchetOk(s) ==
    /\ s = [RK |-> s.RK, CKs |-> s.CKs, CKr |-> s.CKr, DHs |-> s.DHs, DHr |-> s.DHr,
            Ns |-> s.Ns, Nr |-> s.Nr, PN |-> s.PN, MKSKIPPED |-> s.MKSKIPPED]
    /\ IsSeq(s.RK) /\ IsSeq(s.CKr) /\ Len(s.CKr) <= Len(s.RK)
    /\ s.Ns \in Nat /\ s.Nr \in Nat /\ s.PN \in Nat
    /\ KeyStore(s.MKSKIPPED) /\ \A mk \in Mks(s.MKSKIPPED) : Past(s, mk)

\* A key that was used: derived, and no longer kept.
KeySpent(s, mk) == Past(s, mk) /\ mk \notin Mks(s.MKSKIPPED)

\* What one end derives later leaves what is spent spent.
Onward(s, t) == /\ \A mk : Past(s, mk) => Past(t, mk)
                /\ \A mk : KeySpent(s, mk) => KeySpent(t, mk)

\* The keys of k messages that are skipped, from the nr-th of a chain.
Gap(q, ck, nr, k, dh) ==
    q = [i \in 1..k |-> [dh |-> dh, n |-> nr + i - 1, mk |-> kdfCK(ck, nr + i - 1)]]

LEMMA GapKeys ==
  ASSUME NEW ck, NEW nr \in Nat, NEW k \in Nat, NEW dh, NEW q, Gap(q, ck, nr, k, dh)
  PROVE  /\ KeyStore(q)
         /\ \A mk \in Mks(q) : \E n \in Nat : n >= nr /\ n < nr + k /\ mk = <<ck, n>>
<1>1. \A i \in 1..k : q[i].mk = <<ck, nr + i - 1>>
  BY DEF Gap, kdfCK
<1>2. PICK S : S = {q[i] : i \in 1..k}
  OBVIOUS
<1>3. q \in [1..k -> S]
  <2>1. q = [i \in 1..k |-> q[i]]
    BY DEF Gap
  <2> QED
    BY <1>2, <2>1
<1>4. q \in Seq(S) /\ Len(q) = k
  BY <1>3
<1>5. ASSUME NEW i \in 1..k, NEW j \in 1..k, i # j
      PROVE  q[i].mk # q[j].mk
  <2>1. nr + i - 1 # nr + j - 1
    BY <1>5
  <2>2. <<ck, nr + i - 1>> # <<ck, nr + j - 1>>
    BY <2>1
  <2> QED
    BY <1>1, <2>2
<1>6. KeyStore(q)
  BY <1>4, <1>5 DEF KeyStore, IsSeq, Unlike
<1>7. ASSUME NEW mk \in Mks(q)
      PROVE  \E n \in Nat : n >= nr /\ n < nr + k /\ mk = <<ck, n>>
  <2>1. PICK i \in 1..k : mk = q[i].mk
    BY <1>4 DEF Mks
  <2>2. nr + i - 1 \in Nat /\ nr + i - 1 >= nr /\ nr + i - 1 < nr + k
    OBVIOUS
  <2> QED
    BY <1>1, <2>1, <2>2
<1> QED
  BY <1>6, <1>7

LEMMA SkipKeeps ==
  ASSUME NEW s, RatchetOk(s), NEW until \in Nat, NEW dh
  PROVE  LET t == skipMessageKeys(s, until, dh) IN
         /\ RatchetOk(t) /\ Onward(s, t)
         /\ t.RK = s.RK /\ t.CKr = s.CKr
<1>1. CASE s.CKr = Null \/ s.Nr >= until
  BY <1>1 DEF skipMessageKeys, Onward
<1>2. CASE ~(s.CKr = Null \/ s.Nr >= until)
  <2>1. s.Nr \in Nat /\ until - s.Nr \in Nat /\ s.Nr < until
    BY <1>2 DEF RatchetOk
  <2>2. PICK q : q = [i \in 1..(until - s.Nr) |->
                  [dh |-> dh, n |-> s.Nr + i - 1, mk |-> kdfCK(s.CKr, s.Nr + i - 1)]]
    OBVIOUS
  <2>3. Gap(q, s.CKr, s.Nr, until - s.Nr, dh)
    BY <2>2 DEF Gap
  <2>4. /\ KeyStore(q)
        /\ \A mk \in Mks(q) : \E n \in Nat : n >= s.Nr /\ n < until /\ mk = <<s.CKr, n>>
    <3>1. PICK k \in Nat : k = until - s.Nr
      BY <2>1
    <3>2. PICK nr \in Nat : nr = s.Nr
      BY <2>1
    <3>3. Gap(q, s.CKr, nr, k, dh)
      BY <2>3, <3>1, <3>2
    <3>4. KeyStore(q) /\ \A mk \in Mks(q) : \E n \in Nat :
             n >= nr /\ n < nr + k /\ mk = <<s.CKr, n>>
      BY <3>3, GapKeys
    <3> QED
      BY <2>1, <3>1, <3>2, <3>4
  <2>5. ASSUME NEW mk \in Mks(q), Past(s, mk)
        PROVE  FALSE
    <3>1. PICK n \in Nat : n >= s.Nr /\ n < until /\ mk = <<s.CKr, n>>
      BY <2>4
    <3>2. mk[1] = s.CKr /\ mk[2] = n
      BY <3>1
    <3> QED
      BY <2>1, <2>5, <3>1, <3>2 DEF Past
  <2>6. Mks(s.MKSKIPPED) \cap Mks(q) = {} /\ KeyStore(s.MKSKIPPED)
    BY <2>5 DEF RatchetOk
  <2>7. PICK keys : keys = Evict(s.MKSKIPPED \o q)
    OBVIOUS
  <2>8. KeyStore(keys) /\ Mks(keys) \subseteq Mks(s.MKSKIPPED) \cup Mks(q)
    BY <2>4, <2>6, <2>7, JoinKeys, EvictKeys
  <2>9. PICK t : t = skipMessageKeys(s, until, dh)
    OBVIOUS
  <2>10. t = [s EXCEPT !.MKSKIPPED = keys, !.Nr = until]
    BY <1>2, <2>2, <2>7, <2>9 DEF skipMessageKeys
  <2>11. t = [RK |-> s.RK, CKs |-> s.CKs, CKr |-> s.CKr, DHs |-> s.DHs, DHr |-> s.DHr,
              Ns |-> s.Ns, Nr |-> until, PN |-> s.PN, MKSKIPPED |-> keys]
    BY <2>10 DEF RatchetOk
  <2>12. /\ t.RK = s.RK /\ t.CKr = s.CKr /\ t.Nr = until /\ t.MKSKIPPED = keys
         /\ t.Ns = s.Ns /\ t.PN = s.PN /\ t.CKs = s.CKs /\ t.DHs = s.DHs /\ t.DHr = s.DHr
    BY <2>11
  <2>13. ASSUME NEW mk, Past(s, mk)
         PROVE  Past(t, mk)
    BY <2>1, <2>12, <2>13 DEF Past
  <2>14. ASSUME NEW mk \in Mks(q)
         PROVE  Past(t, mk)
    <3>1. PICK n \in Nat : n >= s.Nr /\ n < until /\ mk = <<s.CKr, n>>
      BY <2>4
    <3>2. mk[1] = s.CKr /\ mk[2] = n /\ mk = <<mk[1], mk[2]>>
      BY <3>1
    <3>3. IsSeq(s.CKr) /\ Len(s.CKr) <= Len(s.RK)
      BY DEF RatchetOk
    <3> QED
      BY <2>12, <3>1, <3>2, <3>3 DEF Past
  <2>15. \A mk \in Mks(keys) : Past(t, mk)
    BY <2>8, <2>13, <2>14 DEF RatchetOk
  <2>16. RatchetOk(t)
    <3>1. /\ IsSeq(s.RK) /\ IsSeq(s.CKr) /\ Len(s.CKr) <= Len(s.RK)
          /\ s.Ns \in Nat /\ s.PN \in Nat
      BY DEF RatchetOk
    <3> QED
      BY <2>8, <2>11, <2>12, <2>15, <3>1 DEF RatchetOk
  <2>17. ASSUME NEW mk, KeySpent(s, mk)
         PROVE  KeySpent(t, mk)
    <3>1. mk \notin Mks(q)
      BY <2>5, <2>17 DEF KeySpent
    <3> QED
      BY <2>8, <2>12, <2>13, <2>17, <3>1 DEF KeySpent
  <2> QED
    BY <2>9, <2>12, <2>13, <2>16, <2>17 DEF Onward
<1> QED
  BY <1>1, <1>2

LEMMA Derives ==
  ASSUME NEW rk, IsSeq(rk), NEW dh
  PROVE  IsSeq(kdfRK(rk, dh)) /\ Len(rk) \in Nat /\ Len(kdfRK(rk, dh)) = Len(rk) + 1
<1>1. PICK S : rk \in Seq(S)
  BY DEF IsSeq
<1>2. rk \in Seq(S \cup {dh})
  BY <1>1, SeqMonotonic
<1> QED
  BY <1>2, AppendProperties, LenProperties DEF kdfRK, IsSeq

LEMMA TurnKeeps ==
  ASSUME NEW s, RatchetOk(s), NEW dh
  PROVE  LET t == dhRatchet(s, dh) IN
         /\ RatchetOk(t) /\ Onward(s, t)
         /\ \A mk : Past(s, mk) => mk[1] # t.CKr
<1>1. PICK t : t = dhRatchet(s, dh)
  OBVIOUS
<1>2. PICK rk1 : rk1 = kdfRK(s.RK, sharedKey(s.DHs, dh))
  OBVIOUS
<1>3. PICK dhs : dhs = generateKeyPair(s)
  OBVIOUS
<1>4. PICK rk2 : rk2 = kdfRK(rk1, sharedKey(dhs, dh))
  OBVIOUS
<1>5. /\ IsSeq(rk1) /\ IsSeq(rk2) /\ Len(s.RK) \in Nat
      /\ Len(rk1) = Len(s.RK) + 1 /\ Len(rk2) = Len(s.RK) + 2
  <2>1. IsSeq(rk1) /\ Len(s.RK) \in Nat /\ Len(rk1) = Len(s.RK) + 1
    BY <1>2, Derives DEF RatchetOk
  <2>2. IsSeq(rk2) /\ Len(rk2) = Len(rk1) + 1
    BY <1>4, <2>1, Derives
  <2> QED
    BY <2>1, <2>2
<1>6. t = [s EXCEPT !.PN = s.Ns, !.Ns = 0, !.Nr = 0, !.DHr = dh,
              !.RK = rk2, !.CKr = rk1, !.CKs = rk2, !.DHs = dhs]
  BY <1>1, <1>2, <1>3, <1>4 DEF dhRatchet
<1>7. t = [RK |-> rk2, CKs |-> rk2, CKr |-> rk1, DHs |-> dhs, DHr |-> dh,
           Ns |-> 0, Nr |-> 0, PN |-> s.Ns, MKSKIPPED |-> s.MKSKIPPED]
  BY <1>6 DEF RatchetOk
<1>8. /\ t.RK = rk2 /\ t.CKs = rk2 /\ t.CKr = rk1 /\ t.DHs = dhs /\ t.DHr = dh
      /\ t.Ns = 0 /\ t.Nr = 0 /\ t.PN = s.Ns /\ t.MKSKIPPED = s.MKSKIPPED
  BY <1>7
<1>9. ASSUME NEW mk, Past(s, mk)
      PROVE  Past(t, mk) /\ mk[1] # t.CKr
  <2>1. Len(mk[1]) \in Nat /\ Len(mk[1]) <= Len(s.RK)
    BY <1>9, LenProperties DEF Past, IsSeq
  <2>2. mk[1] # rk1
    BY <1>5, <2>1
  <2> QED
    BY <1>5, <1>8, <1>9, <2>1, <2>2 DEF Past
<1>10. RatchetOk(t)
  <2>1. s.Ns \in Nat /\ KeyStore(s.MKSKIPPED) /\ \A mk \in Mks(s.MKSKIPPED) : Past(t, mk)
    BY <1>9 DEF RatchetOk
  <2> QED
    BY <1>5, <1>7, <1>8, <2>1 DEF RatchetOk
<1>11. Onward(s, t)
  BY <1>8, <1>9 DEF Onward, KeySpent
<1> QED
  BY <1>1, <1>9, <1>10, <1>11

\* The numbers in a header (of a frame that is not sealed, too).
SlotOk(h) == h.n \in Nat /\ h.pn \in Nat

LEMMA SealKeeps ==
  ASSUME NEW s, RatchetOk(s)
  PROVE  RatchetOk(Advanced(s)) /\ Onward(s, Advanced(s)) /\ SlotOk(Slot(s))
<1>1. PICK r : r = SendReady(s)
  OBVIOUS
<1>2. /\ RatchetOk(r) /\ r.CKr = s.CKr /\ r.Nr = s.Nr /\ r.MKSKIPPED = s.MKSKIPPED
      /\ Len(s.RK) \in Nat /\ Len(r.RK) \in Nat /\ Len(s.RK) <= Len(r.RK)
  <2>1. CASE s.CKs # Null
    <3>1. r = s
      BY <1>1, <2>1 DEF SendReady
    <3>2. Len(s.RK) \in Nat
      BY Derives DEF RatchetOk
    <3> QED
      BY <3>1, <3>2
  <2>2. CASE s.CKs = Null
    <3>1. PICK dhs : dhs = generateKeyPair(s)
      OBVIOUS
    <3>2. PICK rk : rk = kdfRK(s.RK, sharedKey(dhs, s.DHr))
      OBVIOUS
    <3>3. IsSeq(rk) /\ Len(s.RK) \in Nat /\ Len(rk) = Len(s.RK) + 1
      BY <3>2, Derives DEF RatchetOk
    <3>4. r = [s EXCEPT !.PN = s.Ns, !.Ns = 0, !.DHs = dhs, !.RK = rk, !.CKs = rk]
      BY <1>1, <2>2, <3>1, <3>2 DEF SendReady
    <3>5. r = [RK |-> rk, CKs |-> rk, CKr |-> s.CKr, DHs |-> dhs, DHr |-> s.DHr,
               Ns |-> 0, Nr |-> s.Nr, PN |-> s.Ns, MKSKIPPED |-> s.MKSKIPPED]
      BY <3>4 DEF RatchetOk
    <3>6. /\ r.RK = rk /\ r.CKs = rk /\ r.CKr = s.CKr /\ r.DHs = dhs /\ r.DHr = s.DHr
          /\ r.Ns = 0 /\ r.Nr = s.Nr /\ r.PN = s.Ns /\ r.MKSKIPPED = s.MKSKIPPED
      BY <3>5
    <3>7. /\ IsSeq(s.CKr) /\ Len(s.CKr) \in Nat /\ Len(s.CKr) <= Len(s.RK)
          /\ s.Ns \in Nat /\ s.Nr \in Nat
      BY Derives DEF RatchetOk
    <3>8. ASSUME NEW mk \in Mks(s.MKSKIPPED)
          PROVE  Past(r, mk)
      <4>1. Past(s, mk)
        BY DEF RatchetOk
      <4>2. Len(mk[1]) \in Nat
        BY <4>1, Derives DEF Past
      <4> QED
        BY <3>3, <3>6, <4>1, <4>2 DEF Past
    <3>9. KeyStore(s.MKSKIPPED)
      BY DEF RatchetOk
    <3>10. RatchetOk(r)
      BY <3>3, <3>5, <3>6, <3>7, <3>8, <3>9 DEF RatchetOk
    <3> QED
      BY <3>3, <3>6, <3>10
  <2> QED
    BY <2>1, <2>2
<1>3. PICK t : t = Advanced(s)
  OBVIOUS
<1>4. t = [r EXCEPT !.Ns = @ + 1]
  BY <1>1, <1>3 DEF Advanced
<1>5. t = [RK |-> r.RK, CKs |-> r.CKs, CKr |-> r.CKr, DHs |-> r.DHs, DHr |-> r.DHr,
           Ns |-> r.Ns + 1, Nr |-> r.Nr, PN |-> r.PN, MKSKIPPED |-> r.MKSKIPPED]
  BY <1>2, <1>4 DEF RatchetOk
<1>6. /\ t.RK = r.RK /\ t.CKs = r.CKs /\ t.CKr = r.CKr /\ t.DHs = r.DHs /\ t.DHr = r.DHr
      /\ t.Ns = r.Ns + 1 /\ t.Nr = r.Nr /\ t.PN = r.PN /\ t.MKSKIPPED = r.MKSKIPPED
  BY <1>5
<1>7. ASSUME NEW mk, Past(s, mk)
      PROVE  Past(t, mk)
  <2>1. Len(mk[1]) \in Nat
    BY <1>7, Derives DEF Past
  <2>2. /\ mk = <<mk[1], mk[2]>> /\ IsSeq(mk[1]) /\ mk[2] \in Nat
        /\ Len(mk[1]) <= Len(s.RK) /\ (mk[1] = s.CKr => mk[2] < s.Nr)
    BY <1>7 DEF Past
  <2>3. Len(mk[1]) <= Len(t.RK) /\ (mk[1] = t.CKr => mk[2] < t.Nr)
    BY <1>2, <1>6, <2>1, <2>2
  <2> QED
    BY <2>2, <2>3 DEF Past
<1>8. RatchetOk(t)
  <2>1. \A mk \in Mks(t.MKSKIPPED) : Past(t, mk)
    BY <1>2, <1>6, <1>7 DEF RatchetOk
  <2>2. /\ IsSeq(r.RK) /\ IsSeq(r.CKr) /\ Len(r.CKr) <= Len(r.RK)
        /\ r.Ns \in Nat /\ r.Nr \in Nat /\ r.PN \in Nat /\ KeyStore(r.MKSKIPPED)
    BY <1>2 DEF RatchetOk
  <2>3. t = [RK |-> t.RK, CKs |-> t.CKs, CKr |-> t.CKr, DHs |-> t.DHs, DHr |-> t.DHr,
             Ns |-> t.Ns, Nr |-> t.Nr, PN |-> t.PN, MKSKIPPED |-> t.MKSKIPPED]
    BY <1>5
  <2>4. /\ IsSeq(t.RK) /\ IsSeq(t.CKr) /\ Len(t.CKr) <= Len(t.RK)
        /\ t.Ns \in Nat /\ t.Nr \in Nat /\ t.PN \in Nat /\ KeyStore(t.MKSKIPPED)
    BY <1>6, <2>2
  <2> QED
    BY <2>1, <2>3, <2>4 DEF RatchetOk
<1>9. Onward(s, t)
  BY <1>2, <1>6, <1>7 DEF Onward, KeySpent
<1>10. SlotOk(Slot(s))
  <2>1. Slot(s) = [dh |-> r.DHs, n |-> r.Ns, pn |-> r.PN, mk |-> kdfCK(r.CKs, r.Ns)]
    BY <1>1 DEF Slot
  <2> QED
    BY <1>2, <2>1 DEF SlotOk, RatchetOk
<1> QED
  BY <1>3, <1>8, <1>9, <1>10

\* The next message of the chain, when its key is taken.
LEMMA StepKeeps ==
  ASSUME NEW s, RatchetOk(s), NEW mk, mk = kdfCK(s.CKr, s.Nr)
  PROVE  LET t == [s EXCEPT !.Nr = @ + 1] IN
         /\ RatchetOk(t) /\ Onward(s, t) /\ KeySpent(t, mk) /\ ~Past(s, mk)
<1>1. PICK t : t = [s EXCEPT !.Nr = @ + 1]
  OBVIOUS
<1>2. t = [RK |-> s.RK, CKs |-> s.CKs, CKr |-> s.CKr, DHs |-> s.DHs, DHr |-> s.DHr,
           Ns |-> s.Ns, Nr |-> s.Nr + 1, PN |-> s.PN, MKSKIPPED |-> s.MKSKIPPED]
  BY <1>1 DEF RatchetOk
<1>3. /\ t.RK = s.RK /\ t.CKs = s.CKs /\ t.CKr = s.CKr /\ t.DHs = s.DHs /\ t.DHr = s.DHr
      /\ t.Ns = s.Ns /\ t.Nr = s.Nr + 1 /\ t.PN = s.PN /\ t.MKSKIPPED = s.MKSKIPPED
  BY <1>2
<1>4. /\ IsSeq(s.RK) /\ IsSeq(s.CKr) /\ Len(s.CKr) <= Len(s.RK)
      /\ s.Ns \in Nat /\ s.Nr \in Nat /\ s.PN \in Nat
      /\ KeyStore(s.MKSKIPPED) /\ \A k \in Mks(s.MKSKIPPED) : Past(s, k)
  BY DEF RatchetOk
<1>5. ASSUME NEW k, Past(s, k)
      PROVE  Past(t, k)
  BY <1>3, <1>4, <1>5 DEF Past
<1>6. mk = <<mk[1], mk[2]>> /\ mk[1] = s.CKr /\ mk[2] = s.Nr
  BY DEF kdfCK
<1>7. Past(t, mk) /\ ~Past(s, mk)
  BY <1>3, <1>4, <1>6 DEF Past
<1>8. RatchetOk(t)
  BY <1>2, <1>3, <1>4, <1>5 DEF RatchetOk
<1>9. mk \notin Mks(s.MKSKIPPED)
  BY <1>4, <1>7
<1> QED
  BY <1>1, <1>3, <1>5, <1>7, <1>8, <1>9 DEF Onward, KeySpent

\* A key that was kept, when it is taken.
LEMMA KeptKeeps ==
  ASSUME NEW s, RatchetOk(s), NEW i \in DOMAIN s.MKSKIPPED
  PROVE  LET t == [s EXCEPT !.MKSKIPPED = Forget(@, i)] IN
         /\ RatchetOk(t) /\ Onward(s, t) /\ KeySpent(t, s.MKSKIPPED[i].mk)
         /\ ~KeySpent(s, s.MKSKIPPED[i].mk)
<1>1. PICK t : t = [s EXCEPT !.MKSKIPPED = Forget(@, i)]
  OBVIOUS
<1>2. PICK q : q = s.MKSKIPPED
  OBVIOUS
<1>3. PICK keys : keys = Forget(q, i)
  OBVIOUS
<1>4. /\ IsSeq(s.RK) /\ IsSeq(s.CKr) /\ Len(s.CKr) <= Len(s.RK)
      /\ s.Ns \in Nat /\ s.Nr \in Nat /\ s.PN \in Nat
      /\ KeyStore(q) /\ \A k \in Mks(q) : Past(s, k)
  BY <1>2 DEF RatchetOk
<1>5. i \in 1..Len(q)
  BY <1>2, <1>4, LenProperties DEF KeyStore, IsSeq
<1>6. KeyStore(keys) /\ Mks(keys) \subseteq Mks(q) \ {q[i].mk}
  BY <1>3, <1>4, <1>5, ForgetKeys
<1>7. t = [RK |-> s.RK, CKs |-> s.CKs, CKr |-> s.CKr, DHs |-> s.DHs, DHr |-> s.DHr,
           Ns |-> s.Ns, Nr |-> s.Nr, PN |-> s.PN, MKSKIPPED |-> keys]
  BY <1>1, <1>2, <1>3 DEF RatchetOk
<1>8. /\ t.RK = s.RK /\ t.CKs = s.CKs /\ t.CKr = s.CKr /\ t.DHs = s.DHs /\ t.DHr = s.DHr
      /\ t.Ns = s.Ns /\ t.Nr = s.Nr /\ t.PN = s.PN /\ t.MKSKIPPED = keys
  BY <1>7
<1>9. \A k : Past(s, k) => Past(t, k)
  BY <1>8 DEF Past
<1>10. RatchetOk(t)
  BY <1>4, <1>6, <1>7, <1>8, <1>9 DEF RatchetOk
<1>11. q[i].mk \in Mks(q)
  BY <1>5 DEF Mks
<1> QED
  BY <1>1, <1>2, <1>4, <1>6, <1>8, <1>9, <1>10, <1>11 DEF Onward, KeySpent

LEMMA DecryptKeeps ==
  ASSUME NEW s, RatchetOk(s), NEW h, SlotOk(h)
  PROVE  LET d == decrypt(s, h) IN
         /\ RatchetOk(d.s) /\ Onward(s, d.s)
         /\ d.ok => KeySpent(d.s, h.mk)
         /\ KeySpent(s, h.mk) => ~d.ok
<1>1. PICK hits : hits = {i \in DOMAIN s.MKSKIPPED :
                             s.MKSKIPPED[i].dh = h.dh /\ s.MKSKIPPED[i].n = h.n}
  OBVIOUS
<1>2. PICK s0 : s0 = skipMessageKeys(s, h.pn, s.DHr)
  OBVIOUS
<1>3. PICK s1 : s1 = IF h.dh # s.DHr THEN dhRatchet(s0, h.dh) ELSE s
  OBVIOUS
<1>4. PICK s2 : s2 = skipMessageKeys(s1, h.n, h.dh)
  OBVIOUS
<1>5. PICK d : d = decrypt(s, h)
  OBVIOUS
<1>6. RatchetOk(s0) /\ Onward(s, s0)
  BY <1>2, SkipKeeps DEF SlotOk
<1>7. RatchetOk(s1) /\ Onward(s, s1)
  <2>1. CASE h.dh # s.DHr
    BY <1>3, <1>6, <2>1, TurnKeeps DEF Onward
  <2>2. CASE ~(h.dh # s.DHr)
    BY <1>3, <2>2 DEF Onward
  <2> QED
    BY <2>1, <2>2
<1>8. RatchetOk(s2) /\ Onward(s1, s2)
  BY <1>4, <1>7, SkipKeeps DEF SlotOk
<1>9. Onward(s, s2)
  BY <1>7, <1>8 DEF Onward
<1>10. CASE hits # {}
  <2>1. PICK i : i = CHOOSE j \in hits : TRUE
    OBVIOUS
  <2>2. i \in DOMAIN s.MKSKIPPED
    BY <1>1, <1>10, <2>1
  <2>3. d = IF s.MKSKIPPED[i].mk = h.mk
            THEN [ok |-> TRUE, s |-> [s EXCEPT !.MKSKIPPED = Forget(@, i)]]
            ELSE [ok |-> FALSE, s |-> s]
    BY <1>1, <1>5, <1>10, <2>1 DEF decrypt
  <2>4. CASE s.MKSKIPPED[i].mk = h.mk
    <3>1. PICK t : t = [s EXCEPT !.MKSKIPPED = Forget(@, i)]
      OBVIOUS
    <3>2. RatchetOk(t) /\ Onward(s, t) /\ KeySpent(t, h.mk) /\ ~KeySpent(s, h.mk)
      BY <2>2, <2>4, <3>1, KeptKeeps
    <3>3. d.s = t
      BY <2>3, <2>4, <3>1
    <3> QED
      BY <1>5, <3>2, <3>3
  <2>5. CASE s.MKSKIPPED[i].mk # h.mk
    <3>1. d.s = s /\ ~d.ok
      BY <2>3, <2>5
    <3> QED
      BY <1>5, <3>1 DEF Onward
  <2> QED
    BY <2>4, <2>5
<1>11. CASE hits = {}
  <2>1. PICK bad \in BOOLEAN :
           bad <=> \/ (h.dh # s.DHr /\ TooFar(s, h.pn)) \/ TooFar(s1, h.n) \/ s2.CKr = Null
                   \/ kdfCK(s2.CKr, s2.Nr) # h.mk
    OBVIOUS
  <2>2. d = IF bad THEN [ok |-> FALSE, s |-> s] ELSE [ok |-> TRUE, s |-> [s2 EXCEPT !.Nr = @ + 1]]
    BY <1>1, <1>2, <1>3, <1>4, <1>5, <1>11, <2>1 DEF decrypt
  <2>3. CASE bad
    <3>1. d.s = s /\ ~d.ok
      BY <2>2, <2>3
    <3> QED
      BY <1>5, <3>1 DEF Onward
  <2>4. CASE ~bad
    <3>1. PICK t : t = [s2 EXCEPT !.Nr = @ + 1]
      OBVIOUS
    <3>2. h.mk = kdfCK(s2.CKr, s2.Nr)
      BY <2>1, <2>4
    <3>3. RatchetOk(t) /\ Onward(s2, t) /\ KeySpent(t, h.mk) /\ ~Past(s2, h.mk)
      BY <1>8, <3>1, <3>2, StepKeeps
    <3>4. d.s = t
      BY <2>2, <2>4, <3>1
    <3>5. Onward(s, t) /\ ~KeySpent(s, h.mk)
      BY <1>9, <3>3 DEF Onward, KeySpent
    <3> QED
      BY <1>5, <3>3, <3>4, <3>5
  <2> QED
    BY <2>3, <2>4
<1> QED
  BY <1>10, <1>11

(* What the pages have opened *)

\* Each page's ratchet remembers what it has used, and what it has opened is.
Secrecy ==
    /\ rat = [p \in Pages |-> rat[p]] /\ opened = [p \in Pages |-> opened[p]]
    /\ \A p \in Pages : RatchetOk(rat[p])
    /\ \A p \in Pages : \A h \in opened[p] : SlotOk(h) /\ KeySpent(rat[p], h.mk)
    /\ \A p \in Pages : \A f \in Way(p) : SlotOk(f.slot)

LEMMA AddedIn ==
  ASSUME NEW s, IsSeq(s), NEW f
  PROVE  In(Append(s, f)) \subseteq In(s) \cup {f}
<1>1. PICK S : s \in Seq(S)
  BY DEF IsSeq
<1>2. PICK t : t = Append(s, f)
  OBVIOUS
<1>3. s \in Seq(S \cup {f})
  BY <1>1, SeqMonotonic
<1>4. /\ Len(s) \in Nat /\ Len(t) = Len(s) + 1
      /\ t[Len(s) + 1] = f /\ \A i \in 1..Len(s) : t[i] = s[i]
  BY <1>2, <1>3, LenProperties, AppendProperties
<1>5. \A i \in 1..Len(t) : (i \in 1..Len(s) /\ t[i] = s[i]) \/ t[i] = f
  BY <1>4
<1> QED
  BY <1>2, <1>5 DEF In

LEMMA CarriesWay ==
  ASSUME Ways, NEW p \in Pages, NEW f, dispatch(p, f) \/ dispatchDirect(p, f)
  PROVE  \A q \in Pages : Way(q)' \subseteq Way(q) \cup {f}
<1>1. PICK r \in Pages : r = Other(p)
  BY OtherPage
<1>2. ASSUME relay' = [relay EXCEPT ![r] = Append(@, f)], direct' = direct
      PROVE  \A q \in Pages : Way(q)' \subseteq Way(q) \cup {f}
  <2>1. relay'[r] = Append(relay[r], f) /\ \A q \in Pages \ {r} : relay'[q] = relay[q]
    BY <1>2 DEF Ways
  <2>2. In(relay'[r]) \subseteq In(relay[r]) \cup {f}
    BY <2>1, AddedIn DEF Ways
  <2> QED
    BY <1>2, <2>1, <2>2 DEF Way
<1>3. ASSUME direct' = [direct EXCEPT ![r] = Append(@, f)], relay' = relay
      PROVE  \A q \in Pages : Way(q)' \subseteq Way(q) \cup {f}
  <2>1. direct'[r] = Append(direct[r], f) /\ \A q \in Pages \ {r} : direct'[q] = direct[q]
    BY <1>3 DEF Ways
  <2>2. In(direct'[r]) \subseteq In(direct[r]) \cup {f}
    BY <2>1, AddedIn DEF Ways
  <2> QED
    BY <1>3, <2>1, <2>2 DEF Way
<1> QED
  BY <1>1, <1>2, <1>3 DEF dispatch, dispatchDirect

LEMMA SecretStarts == Init => Secrecy
<1> SUFFICES ASSUME Init
             PROVE  Secrecy
  OBVIOUS
<1>1. \A p \in Pages : opened[p] = {} /\ relay[p] = <<>> /\ direct[p] = <<>>
  BY DEF Init
<1>2. \A p \in Pages : Way(p) = {}
  <2>1. Len(<<>>) = 0
    OBVIOUS
  <2> QED
    BY <1>1, <2>1 DEF Way, In
<1>3. IsSeq(Null) /\ Len(Null) = 0 /\ KeyStore(Null) /\ Mks(Null) = {}
  <2>1. Null \in Seq({}) /\ Len(Null) = 0
    BY DEF Null
  <2> QED
    BY <2>1 DEF IsSeq, KeyStore, Unlike, Mks
<1>4. ASSUME NEW own, NEW remote
      PROVE  RatchetOk(initAlice(own, remote)) /\ RatchetOk(initBob(own, remote))
  <2>1. PICK rk : rk = kdfRK(Null, sharedKey(KeyPair(own, 0), KeyPair(remote, 0)))
    OBVIOUS
  <2>2. IsSeq(rk) /\ Len(rk) = 1
    <3>1. PICK dh : dh = sharedKey(KeyPair(own, 0), KeyPair(remote, 0))
      OBVIOUS
    <3>2. IsSeq(kdfRK(Null, dh)) /\ Len(kdfRK(Null, dh)) = Len(Null) + 1
      BY <1>3, Derives
    <3> QED
      BY <1>3, <2>1, <3>1, <3>2
  <2>3. PICK a : a = initAlice(own, remote)
    OBVIOUS
  <2>4. a = [RK |-> rk, CKs |-> rk, CKr |-> Null, DHs |-> KeyPair(own, 0),
             DHr |-> KeyPair(remote, 0), Ns |-> 0, Nr |-> 0, PN |-> 0, MKSKIPPED |-> Null]
    BY <2>1, <2>3 DEF initAlice, Null
  <2>5. RatchetOk(a)
    BY <1>3, <2>2, <2>4 DEF RatchetOk
  <2>6. PICK b : b = initBob(own, remote)
    OBVIOUS
  <2>7. b = [RK |-> rk, CKs |-> Null, CKr |-> rk, DHs |-> KeyPair(own, 0),
             DHr |-> KeyPair(remote, 0), Ns |-> 0, Nr |-> 0, PN |-> 0, MKSKIPPED |-> Null]
    <3>1. b = [a EXCEPT !.CKs = Null, !.CKr = rk]
      BY <2>1, <2>3, <2>6 DEF initBob, Null
    <3> QED
      BY <2>4, <3>1
  <2>8. RatchetOk(b)
    BY <1>3, <2>2, <2>7 DEF RatchetOk
  <2> QED
    BY <2>3, <2>5, <2>6, <2>8
<1>5. /\ rat = [p \in Pages |-> rat[p]] /\ opened = [p \in Pages |-> opened[p]]
      /\ \A p \in Pages : rat[p] = IF p = Alice THEN initAlice(Alice, Bob) ELSE initBob(Bob, Alice)
  BY DEF Init
<1> QED
  BY <1>1, <1>2, <1>4, <1>5 DEF Secrecy

LEMMA SealSecret ==
  ASSUME Ways, Secrecy, NEW p \in Pages, NEW f, f.slot = Slot(rat[p]), Seal(p),
         dispatch(p, f) \/ dispatchDirect(p, f), opened' = opened
  PROVE  Secrecy'
<1>1. PICK t : t = Advanced(rat[p])
  OBVIOUS
<1>2. RatchetOk(t) /\ Onward(rat[p], t) /\ SlotOk(f.slot)
  BY <1>1, SealKeeps DEF Secrecy
<1>3. rat' = [rat EXCEPT ![p] = t]
  BY <1>1 DEF Seal
<1>4. /\ rat' = [q \in Pages |-> rat'[q]]
      /\ \A q \in Pages : rat'[q] = IF q = p THEN t ELSE rat[q]
  BY <1>3 DEF Secrecy
<1>5. \A q \in Pages : RatchetOk(rat'[q])
  BY <1>2, <1>4 DEF Secrecy
<1>6. \A q \in Pages : \A h \in opened'[q] : SlotOk(h) /\ KeySpent(rat'[q], h.mk)
  BY <1>2, <1>4 DEF Secrecy, Onward
<1>7. \A q \in Pages : \A g \in Way(q)' : SlotOk(g.slot)
  BY <1>2, CarriesWay DEF Secrecy
<1> QED
  BY <1>4, <1>5, <1>6, <1>7 DEF Secrecy

LEMMA ReadSecret ==
  ASSUME Ways, Secrecy, NEW p \in Pages, NEW f, Arrives(p, f), decryptFrom(p, f)
  PROVE  Secrecy'
<1>1. SlotOk(f.slot) /\ \A q \in Pages : \A g \in Way(q)' : SlotOk(g.slot)
  BY ArrivesWay DEF Secrecy
<1>2. PICK h : h = f.slot
  OBVIOUS
<1>3. PICK d : d = decrypt(rat[p], h)
  OBVIOUS
<1>4. RatchetOk(d.s) /\ Onward(rat[p], d.s) /\ (d.ok => KeySpent(d.s, h.mk)) /\ SlotOk(h)
  BY <1>1, <1>2, <1>3, DecryptKeeps DEF Secrecy
<1>5. PICK o : o = IF d.ok THEN opened[p] \cup {h} ELSE opened[p]
  OBVIOUS
<1>6. rat' = [rat EXCEPT ![p] = d.s] /\ opened' = [opened EXCEPT ![p] = o]
  BY <1>2, <1>3, <1>5 DEF decryptFrom
<1>7. /\ rat' = [q \in Pages |-> rat'[q]] /\ opened' = [q \in Pages |-> opened'[q]]
      /\ \A q \in Pages : rat'[q] = IF q = p THEN d.s ELSE rat[q]
      /\ \A q \in Pages : opened'[q] = IF q = p THEN o ELSE opened[q]
  BY <1>6 DEF Secrecy
<1>8. \A q \in Pages : RatchetOk(rat'[q])
  BY <1>4, <1>7 DEF Secrecy
<1>9. \A g \in o : (g = h /\ d.ok) \/ g \in opened[p]
  BY <1>5
<1>10. \A g \in o : SlotOk(g) /\ KeySpent(d.s, g.mk)
  BY <1>4, <1>9 DEF Secrecy, Onward
<1>11. \A q \in Pages : \A g \in opened'[q] : SlotOk(g) /\ KeySpent(rat'[q], g.mk)
  BY <1>7, <1>10 DEF Secrecy
<1> QED
  BY <1>1, <1>7, <1>8, <1>11 DEF Secrecy

LEMMA QuietSecret ==
  ASSUME Secrecy, rat' = rat, opened' = opened,
         \A q \in Pages : \A g \in Way(q)' : g \in Way(q) \/ g.slot = NoSlot
  PROVE  Secrecy'
<1>1. SlotOk(NoSlot)
  BY DEF NoSlot, SlotOk
<1>2. \A q \in Pages : \A g \in Way(q)' : SlotOk(g.slot)
  BY <1>1 DEF Secrecy
<1> QED
  BY <1>2 DEF Secrecy

LEMMA StillSecret ==
  ASSUME Secrecy, rat' = rat, opened' = opened, relay' = relay, direct' = direct
  PROVE  Secrecy'
<1>1. \A q \in Pages : Way(q)' = Way(q)
  BY DEF Way
<1> QED
  BY <1>1, QuietSecret

LEMMA UserSecret ==
  ASSUME Ways, Secrecy, NEW p \in Pages, User(p) \/ sendChat(p)
  PROVE  Secrecy'
<1>1. ASSUME NEW kind, Sends(p, kind)
      PROVE  Secrecy'
  <2>1. PICK f : f = Frame(kind, sealed', 0, Slot(rat[p]))
    OBVIOUS
  <2>2. f.slot = Slot(rat[p]) /\ Seal(p) /\ dispatch(p, f) /\ opened' = opened
    BY <1>1, <2>1 DEF Sends, Frame
  <2> QED
    BY <2>2, SealSecret
<1>2. CASE sendFileStream(p)
  <2>1. PICK f : f = Frame("init", sealed', 0, Slot(rat[p]))
    OBVIOUS
  <2>2. f.slot = Slot(rat[p]) /\ Seal(p) /\ dispatchDirect(p, f) /\ opened' = opened
    BY <1>2, <2>1 DEF sendFileStream, Frame
  <2> QED
    BY <2>2, SealSecret
<1>3. ASSUME NEW n \in Nonces, editMessage(p, n)
      PROVE  Secrecy'
  <2>1. PICK f : f = Frame("edit", n, sealed', Slot(rat[p]))
    OBVIOUS
  <2>2. f.slot = Slot(rat[p]) /\ Seal(p) /\ dispatch(p, f) /\ opened' = opened
    BY <1>3, <2>1 DEF editMessage, Frame
  <2> QED
    BY <2>2, SealSecret
<1>4. ASSUME NEW n \in Nonces, deleteMessage(p, n)
      PROVE  Secrecy'
  <2>1. PICK f : f = Plain("delete", n)
    OBVIOUS
  <2>2. f.slot = NoSlot /\ dispatch(p, f) /\ rat' = rat /\ opened' = opened
    BY <1>4, <2>1 DEF deleteMessage, Plain, Frame
  <2>3. \A q \in Pages : \A g \in Way(q)' : g \in Way(q) \/ g.slot = NoSlot
    BY <2>2, CarriesWay
  <2> QED
    BY <2>2, <2>3, QuietSecret
<1>5. ASSUME NEW n \in Nonces, markAsRead(p, n)
      PROVE  Secrecy'
  BY <1>5, StillSecret DEF markAsRead
<1> QED
  BY <1>1, <1>2, <1>3, <1>4, <1>5 DEF User, sendChat, sendMessage, sendFile

LEMMA PageSecret ==
  ASSUME Ways, Secrecy, NEW p \in Pages,
         Page(p) \/ StreamStalls(p) \/ TerminalReads(p) \/ TerminalSkipsReceipt(p)
  PROVE  Secrecy'
<1>1. CASE ReceivesText(p) \/ ReceivesEdit(p) \/ ReceivesInit(p)
  <2>1. PICK f : Arrives(p, f) /\ decryptFrom(p, f)
    BY <1>1 DEF ReceivesText, ReceivesEdit, ReceivesInit
  <2> QED
    BY <2>1, ReadSecret
<1>2. ASSUME NEW f, Arrives(p, f), rat' = rat, opened' = opened
      PROVE  Secrecy'
  BY <1>2, ArrivesWay, QuietSecret
<1>3. CASE ReceivesDelete(p) \/ ReceivesChunk(p)
  <2>1. \E f : Arrives(p, f) /\ rat' = rat /\ opened' = opened
    BY <1>3 DEF ReceivesDelete, ReceivesChunk
  <2> QED
    BY <1>2, <2>1
<1>4. CASE TerminalReads(p)
  <2>1. PICK f : /\ Arrives(p, f)
                 /\ decryptFrom(p, f) \/ (rat' = rat /\ opened' = opened)
    BY <1>4 DEF TerminalReads
  <2> QED
    BY <1>2, <2>1, ReadSecret
<1>5. CASE SendsChunk(p)
  <2>1. PICK f : f = frames(sending[p])
    OBVIOUS
  <2>2. f.slot = NoSlot /\ dispatchDirect(p, f) /\ rat' = rat /\ opened' = opened
    BY <1>5, <2>1 DEF SendsChunk, frames, Frame
  <2>3. \A q \in Pages : \A g \in Way(q)' : g \in Way(q) \/ g.slot = NoSlot
    BY <2>2, CarriesWay
  <2> QED
    BY <2>2, <2>3, QuietSecret
<1>6. CASE ReceivesReceipt(p) \/ StreamInterrupted(p) \/ StreamStalls(p) \/ TerminalSkipsReceipt(p)
  <2>1. rat' = rat /\ opened' = opened /\ relay' = relay /\ direct' = direct
    BY <1>6 DEF ReceivesReceipt, StreamInterrupted, StreamStalls, TerminalSkipsReceipt, queues
  <2> QED
    BY <2>1, StillSecret
<1> QED
  BY <1>1, <1>3, <1>4, <1>5, <1>6 DEF Page

LEMMA SecretStep ==
  ASSUME Ways, terminals \subseteq Pages, Secrecy, [Next]_vars
  PROVE  Secrecy'
<1>1. CASE UNCHANGED vars
  <2>1. rat' = rat /\ opened' = opened /\ relay' = relay /\ direct' = direct
    BY <1>1 DEF vars, queues
  <2> QED
    BY <2>1, StillSecret
<1>2. CASE \E p \in Pages \ terminals : User(p) \/ Page(p) \/ StreamStalls(p)
  BY <1>2, UserSecret, PageSecret
<1>3. CASE \E p \in terminals : Terminal(p)
  BY <1>3, UserSecret, PageSecret DEF Terminal
<1>4. CASE LinkDies \/ \E p \in Pages : RelayLoses(p)
  <2>1. rat' = rat /\ opened' = opened
    BY <1>4 DEF LinkDies, RelayLoses
  <2>2. \A q \in Pages : Way(q)' \subseteq Way(q)
    BY <1>4, LossWay
  <2> QED
    BY <2>1, <2>2, QuietSecret
<1>5. CASE LinkOpens
  <2>1. rat' = rat /\ opened' = opened /\ relay' = relay /\ direct' = direct
    BY <1>5 DEF LinkOpens, queues
  <2> QED
    BY <2>1, StillSecret
<1> QED
  BY <1>1, <1>2, <1>3, <1>4, <1>5 DEF Next

LEMMA SecretHolds == Spec => []Secrecy
<1>1. TalkInv => Ways /\ terminals \subseteq Pages
  BY DEF TalkInv, TalkType
<1>2. TalkInv /\ Secrecy /\ [Next]_vars => Secrecy'
  BY <1>1, SecretStep
<1> QED
  BY <1>2, SecretStarts, TalkIsSound, PTL DEF Spec

\* ReadOnce: what a page has opened it can never open again (decrypt and
\* skipMessageKeys of the double ratchet): its key is of a chain that is over,
\* or before the next of the present one, and among the kept ones no more.  For
\* any number of frames, in any order, whatever is lost or read from a gap.
THEOREM ForwardSecrecy == Spec => []ReadOnce
<1>1. Secrecy => ReadOnce
  <2>1. ASSUME Secrecy, NEW p \in Pages, NEW h \in opened[p]
        PROVE  ~decrypt(rat[p], h).ok
    <3>1. RatchetOk(rat[p]) /\ SlotOk(h) /\ KeySpent(rat[p], h.mk)
      BY <2>1 DEF Secrecy
    <3> QED
      BY <3>1, DecryptKeeps
  <2> QED
    BY <2>1 DEF ReadOnce
<1> QED
  BY <1>1, SecretHolds, PTL

(* What a page can open *)

\* The entries of a store of kept keys: at most one for a key pair and a
\* number, and of the present chain only of messages before the next.
OneKey(E) == \A e, g \in E : e.dh = g.dh /\ e.n = g.n => e = g
Below(E, dh, nr) ==
    \A e \in E : /\ e.dh[2] \in Nat /\ e.dh[2] <= dh[2] /\ e.n \in Nat
                 /\ e.dh = dh => e.n < nr
Holds(E, h) == \E e \in E : e.dh = h.dh /\ e.n = h.n /\ e.mk = h.mk

Entries(ck, dh, nr, k) == {[dh |-> dh, n |-> j, mk |-> <<ck, j>>] : j \in nr..(nr + k - 1)}

LEMMA JoinIn ==
  ASSUME NEW q, IsSeq(q), NEW r, IsSeq(r)
  PROVE  /\ IsSeq(q \o r) /\ In(q \o r) = In(q) \cup In(r)
         /\ Len(q) \in Nat /\ Len(r) \in Nat /\ Len(q \o r) = Len(q) + Len(r)
<1>1. PICK S : q \in Seq(S)
  BY DEF IsSeq
<1>2. PICK T : r \in Seq(T)
  BY DEF IsSeq
<1>3. q \in Seq(S \cup T) /\ r \in Seq(S \cup T)
  BY <1>1, <1>2, SeqMonotonic
<1>4. PICK m \in Nat : m = Len(q)
  BY <1>3, LenProperties
<1>5. PICK n \in Nat : n = Len(r)
  BY <1>3, LenProperties
<1>6. PICK t : t = q \o r
  OBVIOUS
<1>7. /\ t \in Seq(S \cup T) /\ Len(t) = m + n
      /\ \A i \in 1..(m + n) : t[i] = IF i <= m THEN q[i] ELSE r[i - m]
  BY <1>3, <1>4, <1>5, <1>6, ConcatProperties
<1>8. ASSUME NEW i \in 1..Len(t)
      PROVE  t[i] \in In(q) \cup In(r)
  <2>1. CASE i <= m
    BY <1>4, <1>7, <2>1 DEF In
  <2>2. CASE ~(i <= m)
    <3>1. i - m \in 1..n /\ t[i] = r[i - m]
      BY <1>7, <2>2
    <3> QED
      BY <1>5, <3>1 DEF In
  <2> QED
    BY <2>1, <2>2
<1>9. ASSUME NEW i \in 1..m
      PROVE  q[i] \in In(t)
  <2>1. i \in 1..Len(t) /\ t[i] = q[i]
    BY <1>7
  <2> QED
    BY <2>1 DEF In
<1>10. ASSUME NEW i \in 1..n
       PROVE  r[i] \in In(t)
  <2>1. i + m \in 1..Len(t) /\ t[i + m] = r[i]
    BY <1>7
  <2> QED
    BY <2>1 DEF In
<1>11. In(t) = In(q) \cup In(r)
  <2>1. In(t) \subseteq In(q) \cup In(r)
    BY <1>8 DEF In
  <2>2. In(q) \subseteq In(t)
    BY <1>4, <1>9 DEF In
  <2>3. In(r) \subseteq In(t)
    BY <1>5, <1>10 DEF In
  <2> QED
    BY <2>1, <2>2, <2>3
<1> QED
  BY <1>4, <1>5, <1>6, <1>7, <1>11 DEF IsSeq

LEMMA CutIn ==
  ASSUME NEW q, IsSeq(q), NEW a \in Nat \ {0}, NEW b \in Nat, b <= Len(q), a <= b + 1
  PROVE  LET r == SubSeq(q, a, b) IN
         IsSeq(r) /\ In(r) = {q[i] : i \in a..b} /\ Len(r) = b - a + 1
<1>1. PICK S : q \in Seq(S)
  BY DEF IsSeq
<1>2. Len(q) \in Nat /\ \A i \in 1..Len(q) : q[i] \in S
  BY <1>1, LenProperties, ElementOfSeq
<1>3. PICK r : r = SubSeq(q, a, b)
  OBVIOUS
<1>4. /\ r \in Seq(S) /\ Len(r) = b - a + 1
      /\ \A i \in 1..(b - a + 1) : r[i] = q[a + i - 1]
  BY <1>2, <1>3, SubSeqProperties, SMTT(30)
<1>5. \A i \in 1..Len(r) : r[i] = q[a + i - 1] /\ a + i - 1 \in a..b
  BY <1>2, <1>4
<1>6. In(r) \subseteq {q[i] : i \in a..b}
  BY <1>5 DEF In
<1>7. ASSUME NEW i \in a..b
      PROVE  q[i] \in In(r)
  <2>1. i - a + 1 \in 1..Len(r) /\ r[i - a + 1] = q[i]
    BY <1>4, <1>5
  <2> QED
    BY <2>1 DEF In
<1> QED
  BY <1>3, <1>4, <1>6, <1>7 DEF IsSeq

LEMMA ForgetIn ==
  ASSUME NEW q, KeyStore(q), NEW i \in 1..Len(q)
  PROVE  In(Forget(q, i)) = In(q) \ {q[i]} /\ Len(Forget(q, i)) = Len(q) - 1 /\ Len(q) \in Nat
<1>1. Len(q) \in Nat /\ IsSeq(q)
  BY LenProperties DEF KeyStore, IsSeq
<1>2. PICK r : r = SubSeq(q, 1, i - 1)
  OBVIOUS
<1>3. PICK t : t = SubSeq(q, i + 1, Len(q))
  OBVIOUS
<1>4. IsSeq(r) /\ In(r) = {q[j] : j \in 1..(i - 1)} /\ Len(r) = i - 1
  <2>1. 1 \in Nat \ {0} /\ i - 1 \in Nat /\ i - 1 <= Len(q) /\ 1 <= (i - 1) + 1
    BY <1>1
  <2>2. PICK b \in Nat : b = i - 1
    BY <2>1
  <2>3. PICK a \in Nat \ {0} : a = 1
    OBVIOUS
  <2>4. IsSeq(q) /\ b <= Len(q) /\ a <= b + 1 /\ r = SubSeq(q, a, b)
    BY <1>1, <1>2, <2>1, <2>2, <2>3
  <2>5. IsSeq(r) /\ In(r) = {q[j] : j \in a..b}
    BY <2>4, CutIn
  <2>6. Len(r) = b - a + 1
    BY <2>4, CutIn
  <2> QED
    BY <2>2, <2>3, <2>5, <2>6
<1>5. IsSeq(t) /\ In(t) = {q[j] : j \in (i + 1)..Len(q)} /\ Len(t) = Len(q) - i
  <2>1. PICK a \in Nat \ {0} : a = i + 1
    BY <1>1
  <2>2. PICK b \in Nat : b = Len(q)
    BY <1>1
  <2>3. a <= b + 1 /\ b <= Len(q)
    BY <1>1, <2>1, <2>2
  <2>4. IsSeq(t) /\ In(t) = {q[j] : j \in a..b} /\ Len(t) = b - a + 1
    BY <1>1, <1>3, <2>1, <2>2, <2>3, CutIn
  <2> QED
    BY <2>1, <2>2, <2>4
<1>6. In(r \o t) = In(r) \cup In(t) /\ Len(r \o t) = Len(r) + Len(t)
  BY <1>4, <1>5, JoinIn
<1>7. \A j \in 1..Len(q) : j # i => q[j] # q[i]
  BY <1>1 DEF KeyStore, Unlike
<1>8. In(r) \cup In(t) = In(q) \ {q[i]}
  <2>1. \A j \in 1..Len(q) : j = i \/ j \in 1..(i - 1) \/ j \in (i + 1)..Len(q)
    BY <1>1
  <2>2. \A j \in 1..(i - 1) : j \in 1..Len(q) /\ j # i
    BY <1>1
  <2>3. \A j \in (i + 1)..Len(q) : j \in 1..Len(q) /\ j # i
    BY <1>1
  <2> QED
    BY <1>4, <1>5, <1>7, <2>1, <2>2, <2>3 DEF In
<1>9. PICK f : f = r \o t
  OBVIOUS
<1>10. Len(f) = Len(q) - 1 /\ In(f) = In(q) \ {q[i]}
  BY <1>1, <1>4, <1>5, <1>6, <1>8, <1>9
<1>11. f = Forget(q, i)
  BY <1>2, <1>3, <1>9 DEF Forget
<1> QED
  BY <1>1, <1>10, <1>11

LEMMA GapIn ==
  ASSUME NEW ck, NEW nr \in Nat, NEW k \in Nat, NEW dh,
         NEW q, Gap(q, ck, nr, k, dh)
  PROVE  IsSeq(q) /\ Len(q) = k /\ In(q) = Entries(ck, dh, nr, k)
<1>1. nr + k \in Nat
  OBVIOUS
<1>2. q = [i \in 1..k |-> [dh |-> dh, n |-> nr + i - 1, mk |-> <<ck, nr + i - 1>>]]
  BY <1>1 DEF Gap, kdfCK
<1>3. PICK S : S = {q[i] : i \in 1..k}
  OBVIOUS
<1>4. q \in [1..k -> S]
  <2>1. q = [i \in 1..k |-> q[i]]
    BY <1>2
  <2> QED
    BY <1>3, <2>1
<1>5. q \in Seq(S) /\ Len(q) = k
  BY <1>4
<1>6. ASSUME NEW i \in 1..k
      PROVE  q[i] \in Entries(ck, dh, nr, k)
  <2>1. PICK j \in nr..(nr + k - 1) : j = nr + i - 1
    BY <1>1
  <2> QED
    BY <1>2, <2>1 DEF Entries
<1>7. ASSUME NEW j \in nr..(nr + k - 1)
      PROVE  [dh |-> dh, n |-> j, mk |-> <<ck, j>>] \in In(q)
  <2>1. PICK i \in 1..k : i = j - nr + 1 /\ nr + i - 1 = j
    BY <1>1
  <2>2. q[i] = [dh |-> dh, n |-> j, mk |-> <<ck, j>>]
    BY <1>2, <2>1
  <2> QED
    BY <1>5, <2>2 DEF In
<1>8. In(q) = Entries(ck, dh, nr, k)
  BY <1>5, <1>6, <1>7 DEF In, Entries
<1> QED
  BY <1>1, <1>5, <1>8 DEF IsSeq

\* What the record of a ratchet is, but for the store and the place in the chain.
SameEnd(s, t) == /\ t.RK = s.RK /\ t.CKs = s.CKs /\ t.CKr = s.CKr /\ t.DHs = s.DHs
                 /\ t.DHr = s.DHr /\ t.Ns = s.Ns /\ t.PN = s.PN

\* A gap is bridged: the keys of what is missing are kept, as long as there is
\* room for them.
LEMMA SkipFields ==
  ASSUME NEW s, RatchetOk(s), NEW until \in Nat, NEW dh, dh[2] \in Nat,
         OneKey(In(s.MKSKIPPED)), Below(In(s.MKSKIPPED), dh, s.Nr),
         s.CKr # Null, s.Nr <= until, Len(s.MKSKIPPED) + (until - s.Nr) <= MAX_SKIPPED_KEYS,
         NEW t, t = skipMessageKeys(s, until, dh)
  PROVE  /\ SameEnd(s, t) /\ t.Nr = until
         /\ In(t.MKSKIPPED) = In(s.MKSKIPPED) \cup Entries(s.CKr, dh, s.Nr, until - s.Nr)
         /\ Len(t.MKSKIPPED) = Len(s.MKSKIPPED) + (until - s.Nr)
         /\ OneKey(In(t.MKSKIPPED)) /\ Below(In(t.MKSKIPPED), dh, until)
<1>1. /\ s.Nr \in Nat /\ KeyStore(s.MKSKIPPED) /\ IsSeq(s.MKSKIPPED) /\ Len(s.MKSKIPPED) \in Nat
  BY LenProperties DEF RatchetOk, KeyStore, IsSeq
<1>2. CASE s.Nr = until
  <2>1. t = s
    BY <1>1, <1>2 DEF skipMessageKeys
  <2>2. Entries(s.CKr, dh, s.Nr, until - s.Nr) = {}
    BY <1>1, <1>2 DEF Entries
  <2> QED
    BY <1>1, <1>2, <2>1, <2>2 DEF SameEnd
<1>3. CASE s.Nr < until
  <2>1. PICK q : q = [i \in 1..(until - s.Nr) |->
                  [dh |-> dh, n |-> s.Nr + i - 1, mk |-> kdfCK(s.CKr, s.Nr + i - 1)]]
    OBVIOUS
  <2>2. Gap(q, s.CKr, s.Nr, until - s.Nr, dh)
    BY <2>1 DEF Gap
  <2>3. IsSeq(q) /\ Len(q) = until - s.Nr /\ In(q) = Entries(s.CKr, dh, s.Nr, until - s.Nr)
    <3>1. PICK nr \in Nat : nr = s.Nr
      BY <1>1
    <3>2. PICK k \in Nat : k = until - nr
      BY <1>3, <3>1
    <3>3. Gap(q, s.CKr, nr, k, dh)
      BY <2>2, <3>1, <3>2
    <3>4. IsSeq(q) /\ Len(q) = k /\ In(q) = Entries(s.CKr, dh, nr, k)
      BY <3>2, <3>3, GapIn
    <3> QED
      BY <3>1, <3>2, <3>4
  <2>4. PICK keys : keys = s.MKSKIPPED \o q
    OBVIOUS
  <2>5. /\ In(keys) = In(s.MKSKIPPED) \cup Entries(s.CKr, dh, s.Nr, until - s.Nr)
        /\ Len(keys) = Len(s.MKSKIPPED) + (until - s.Nr)
    BY <1>1, <2>3, <2>4, JoinIn
  <2>6. Evict(keys) = keys
    BY <2>5 DEF Evict
  <2>7. t = [s EXCEPT !.MKSKIPPED = keys, !.Nr = until]
    <3>1. ~(s.CKr = Null \/ s.Nr >= until)
      BY <1>1, <1>3
    <3> QED
      BY <2>1, <2>4, <2>6, <3>1 DEF skipMessageKeys
  <2>8. t = [RK |-> s.RK, CKs |-> s.CKs, CKr |-> s.CKr, DHs |-> s.DHs, DHr |-> s.DHr,
              Ns |-> s.Ns, Nr |-> until, PN |-> s.PN, MKSKIPPED |-> keys]
    BY <2>7 DEF RatchetOk
  <2>9. SameEnd(s, t) /\ t.Nr = until /\ t.MKSKIPPED = keys
    BY <2>8 DEF SameEnd
  <2>10. \A e \in Entries(s.CKr, dh, s.Nr, until - s.Nr) :
            e.dh = dh /\ e.n \in Nat /\ s.Nr <= e.n /\ e.n < until /\ e.mk = <<s.CKr, e.n>>
            /\ e = [dh |-> dh, n |-> e.n, mk |-> <<s.CKr, e.n>>]
    BY <1>1 DEF Entries
  <2>11. \A e \in In(s.MKSKIPPED) : e.dh = dh => e.n < s.Nr
    BY DEF Below
  <2>12. OneKey(In(keys))
    <3>1. ASSUME NEW e \in In(keys), NEW g \in In(keys), e.dh = g.dh, e.n = g.n
          PROVE  e = g
      <4>1. CASE e \in In(s.MKSKIPPED) /\ g \in In(s.MKSKIPPED)
        BY <3>1, <4>1 DEF OneKey
      <4>2. CASE /\ e \in Entries(s.CKr, dh, s.Nr, until - s.Nr)
                 /\ g \in Entries(s.CKr, dh, s.Nr, until - s.Nr)
        BY <2>10, <3>1, <4>2
      <4>3. CASE e \in In(s.MKSKIPPED) /\ g \in Entries(s.CKr, dh, s.Nr, until - s.Nr)
        <5>1. g.dh = dh /\ g.n \in Nat /\ s.Nr <= g.n
          BY <2>10, <4>3
        <5>2. e.n < s.Nr
          BY <2>11, <3>1, <4>3, <5>1
        <5> QED
          BY <1>1, <3>1, <5>1, <5>2
      <4>4. CASE g \in In(s.MKSKIPPED) /\ e \in Entries(s.CKr, dh, s.Nr, until - s.Nr)
        <5>1. e.dh = dh /\ e.n \in Nat /\ s.Nr <= e.n
          BY <2>10, <4>4
        <5>2. g.n < s.Nr
          BY <2>11, <3>1, <4>4, <5>1
        <5> QED
          BY <1>1, <3>1, <5>1, <5>2
      <4> QED
        BY <2>5, <4>1, <4>2, <4>3, <4>4
    <3> QED
      BY <3>1 DEF OneKey
  <2>13. Below(In(keys), dh, until)
    <3>1. ASSUME NEW e \in In(s.MKSKIPPED)
          PROVE  /\ e.dh[2] \in Nat /\ e.dh[2] <= dh[2] /\ e.n \in Nat
                 /\ e.dh = dh => e.n < until
      <4>1. e.dh[2] \in Nat /\ e.dh[2] <= dh[2] /\ e.n \in Nat /\ (e.dh = dh => e.n < s.Nr)
        BY DEF Below
      <4> QED
        BY <1>1, <1>3, <4>1
    <3>2. \A e \in Entries(s.CKr, dh, s.Nr, until - s.Nr) :
             /\ e.dh[2] \in Nat /\ e.dh[2] <= dh[2] /\ e.n \in Nat
             /\ e.dh = dh => e.n < until
      BY <2>10
    <3> QED
      BY <2>5, <3>1, <3>2 DEF Below
  <2> QED
    BY <2>5, <2>9, <2>12, <2>13
<1> QED
  BY <1>1, <1>2, <1>3

\* A frame whose key was kept.
LEMMA OpenKept ==
  ASSUME NEW r, RatchetOk(r), NEW h, OneKey(In(r.MKSKIPPED)), Holds(In(r.MKSKIPPED), h),
         NEW d, d = decrypt(r, h)
  PROVE  /\ d.ok /\ SameEnd(r, d.s) /\ d.s.Nr = r.Nr
         /\ Len(r.MKSKIPPED) \in Nat /\ Len(d.s.MKSKIPPED) = Len(r.MKSKIPPED) - 1
         /\ In(d.s.MKSKIPPED) \subseteq In(r.MKSKIPPED)
         /\ \A g : Holds(In(r.MKSKIPPED), g) /\ (g.dh # h.dh \/ g.n # h.n)
                      => Holds(In(d.s.MKSKIPPED), g)
<1>1. PICK q : q = r.MKSKIPPED
  OBVIOUS
<1>2. KeyStore(q) /\ DOMAIN q = 1..Len(q) /\ Len(q) \in Nat
  <2>1. KeyStore(q)
    BY <1>1 DEF RatchetOk
  <2> QED
    BY <2>1, LenProperties DEF KeyStore, IsSeq
<1>3. PICK hits : hits = {i \in DOMAIN r.MKSKIPPED :
                             r.MKSKIPPED[i].dh = h.dh /\ r.MKSKIPPED[i].n = h.n}
  OBVIOUS
<1>4. PICK e \in In(q) : e.dh = h.dh /\ e.n = h.n /\ e.mk = h.mk
  BY <1>1 DEF Holds
<1>5. PICK i : i = CHOOSE j \in hits : TRUE
  OBVIOUS
<1>6. PICK k \in 1..Len(q) : e = q[k]
  BY DEF In
<1>7. k \in hits
  BY <1>1, <1>2, <1>3, <1>4, <1>6
<1>8. hits # {} /\ i \in 1..Len(q) /\ q[i].dh = h.dh /\ q[i].n = h.n
  BY <1>1, <1>2, <1>3, <1>5, <1>7
<1>9. q[i] = e
  <2>1. q[i] \in In(q)
    BY <1>8 DEF In
  <2> QED
    BY <1>1, <1>4, <1>8, <2>1 DEF OneKey
<1>10. PICK keys : keys = Forget(q, i)
  OBVIOUS
<1>11. d = [ok |-> TRUE, s |-> [r EXCEPT !.MKSKIPPED = keys]]
  BY <1>1, <1>3, <1>4, <1>5, <1>8, <1>9, <1>10 DEF decrypt
<1>12. PICK t : t = [r EXCEPT !.MKSKIPPED = keys]
  OBVIOUS
<1>13. t = [RK |-> r.RK, CKs |-> r.CKs, CKr |-> r.CKr, DHs |-> r.DHs, DHr |-> r.DHr,
            Ns |-> r.Ns, Nr |-> r.Nr, PN |-> r.PN, MKSKIPPED |-> keys]
  BY <1>12 DEF RatchetOk
<1>14. d.ok /\ d.s = t /\ SameEnd(r, t) /\ t.Nr = r.Nr /\ t.MKSKIPPED = keys
  BY <1>11, <1>12, <1>13 DEF SameEnd
<1>15. In(keys) = In(q) \ {e} /\ Len(keys) = Len(q) - 1
  BY <1>2, <1>8, <1>9, <1>10, ForgetIn
<1>16. ASSUME NEW g, Holds(In(q), g), g.dh # h.dh \/ g.n # h.n
       PROVE  Holds(In(keys), g)
  BY <1>4, <1>15, <1>16 DEF Holds
<1> QED
  BY <1>1, <1>2, <1>14, <1>15, <1>16

\* The next messages of a chain have no kept key.
LEMMA NoHit ==
  ASSUME NEW r, RatchetOk(r), NEW h, h.n \in Nat, NEW dh, NEW nr \in Nat,
         Below(In(r.MKSKIPPED), dh, nr),
         (h.dh = dh /\ nr <= h.n) \/ (h.dh[2] \in Nat /\ dh[2] \in Nat /\ dh[2] < h.dh[2])
  PROVE  {i \in DOMAIN r.MKSKIPPED : r.MKSKIPPED[i].dh = h.dh /\ r.MKSKIPPED[i].n = h.n} = {}
<1>1. DOMAIN r.MKSKIPPED = 1..Len(r.MKSKIPPED)
  BY LenProperties DEF RatchetOk, KeyStore, IsSeq
<1>2. ASSUME NEW i \in DOMAIN r.MKSKIPPED, r.MKSKIPPED[i].dh = h.dh, r.MKSKIPPED[i].n = h.n
      PROVE  FALSE
  <2>1. PICK e \in In(r.MKSKIPPED) : e = r.MKSKIPPED[i]
    BY <1>1 DEF In
  <2>2. e.dh[2] \in Nat /\ e.dh[2] <= dh[2] /\ e.n \in Nat /\ (e.dh = dh => e.n < nr)
    BY DEF Below
  <2>3. CASE h.dh = dh /\ nr <= h.n
    BY <1>2, <2>1, <2>2, <2>3
  <2>4. CASE h.dh[2] \in Nat /\ dh[2] \in Nat /\ dh[2] < h.dh[2]
    BY <1>2, <2>1, <2>2, <2>4
  <2> QED
    BY <2>3, <2>4
<1> QED
  BY <1>2

\* The chain has taken another key, that of message n.
LEMMA NextKey ==
  ASSUME NEW s, RatchetOk(s), NEW n \in Nat, s.Nr = n, NEW t, t = [s EXCEPT !.Nr = @ + 1]
  PROVE  SameEnd(s, t) /\ t.Nr = n + 1 /\ t.MKSKIPPED = s.MKSKIPPED
<1>1. t = [RK |-> s.RK, CKs |-> s.CKs, CKr |-> s.CKr, DHs |-> s.DHs, DHr |-> s.DHr,
           Ns |-> s.Ns, Nr |-> s.Nr + 1, PN |-> s.PN, MKSKIPPED |-> s.MKSKIPPED]
  BY DEF RatchetOk
<1> QED
  BY <1>1 DEF SameEnd

LEMMA BelowNext ==
  ASSUME NEW E, NEW dh, NEW n \in Nat, Below(E, dh, n)
  PROVE  Below(E, dh, n + 1)
<1>1. ASSUME NEW e \in E
      PROVE  /\ e.dh[2] \in Nat /\ e.dh[2] <= dh[2] /\ e.n \in Nat
             /\ e.dh = dh => e.n < n + 1
  <2>1. e.dh[2] \in Nat /\ e.dh[2] <= dh[2] /\ e.n \in Nat /\ (e.dh = dh => e.n < n)
    BY DEF Below
  <2> QED
    BY <2>1
<1> QED
  BY <1>1 DEF Below

\* A frame of the chain that the page is reading.
LEMMA OpenCurrent ==
  ASSUME NEW r, RatchetOk(r), NEW h, h.dh = r.DHr, h.n \in Nat, r.DHr[2] \in Nat,
         r.CKr # Null, h.mk = kdfCK(r.CKr, h.n), r.Nr <= h.n, h.n - r.Nr <= MAX_SKIP,
         Len(r.MKSKIPPED) + (h.n - r.Nr) <= MAX_SKIPPED_KEYS,
         OneKey(In(r.MKSKIPPED)), Below(In(r.MKSKIPPED), r.DHr, r.Nr),
         NEW d, d = decrypt(r, h)
  PROVE  /\ d.ok /\ SameEnd(r, d.s) /\ d.s.Nr = h.n + 1
         /\ In(d.s.MKSKIPPED) = In(r.MKSKIPPED) \cup Entries(r.CKr, r.DHr, r.Nr, h.n - r.Nr)
         /\ Len(d.s.MKSKIPPED) = Len(r.MKSKIPPED) + (h.n - r.Nr)
         /\ OneKey(In(d.s.MKSKIPPED)) /\ Below(In(d.s.MKSKIPPED), r.DHr, h.n + 1)
<1>1. PICK n \in Nat : n = h.n
  OBVIOUS
<1>2. PICK s2 : s2 = skipMessageKeys(r, n, h.dh)
  OBVIOUS
<1>3. /\ SameEnd(r, s2) /\ s2.Nr = n
      /\ In(s2.MKSKIPPED) = In(r.MKSKIPPED) \cup Entries(r.CKr, r.DHr, r.Nr, n - r.Nr)
      /\ Len(s2.MKSKIPPED) = Len(r.MKSKIPPED) + (n - r.Nr)
      /\ OneKey(In(s2.MKSKIPPED)) /\ Below(In(s2.MKSKIPPED), r.DHr, n)
  <2>1. s2 = skipMessageKeys(r, n, r.DHr)
    BY <1>2
  <2>2. r.Nr <= n /\ Len(r.MKSKIPPED) + (n - r.Nr) <= MAX_SKIPPED_KEYS
    BY <1>1
  <2> QED
    BY <2>1, <2>2, SkipFields
<1>4. RatchetOk(s2)
  BY <1>2, SkipKeeps
<1>5. {i \in DOMAIN r.MKSKIPPED : r.MKSKIPPED[i].dh = h.dh /\ r.MKSKIPPED[i].n = h.n} = {}
  <2>1. PICK nr \in Nat : nr = r.Nr
    BY DEF RatchetOk
  <2>2. Below(In(r.MKSKIPPED), r.DHr, nr) /\ nr <= h.n
    BY <2>1
  <2> QED
    BY <2>2, NoHit
<1>6. ~TooFar(r, n)
  <2>1. n - r.Nr <= MAX_SKIP
    BY <1>1
  <2>2. r.Nr \in Nat
    BY DEF RatchetOk
  <2> QED
    BY <2>1, <2>2, SkipBounds DEF TooFar
<1>7. s2.CKr = r.CKr
  BY <1>3 DEF SameEnd
<1>8. PICK t : t = [s2 EXCEPT !.Nr = @ + 1]
  OBVIOUS
<1>9. d = [ok |-> TRUE, s |-> t]
  <2>1. kdfCK(s2.CKr, s2.Nr) = h.mk /\ s2.CKr # Null
    BY <1>1, <1>3, <1>7
  <2> QED
    BY <1>1, <1>2, <1>5, <1>6, <1>8, <2>1 DEF decrypt
<1>10. SameEnd(s2, t) /\ t.Nr = n + 1 /\ t.MKSKIPPED = s2.MKSKIPPED
  BY <1>3, <1>4, <1>8, NextKey
<1>11. SameEnd(r, t)
  BY <1>3, <1>10 DEF SameEnd
<1>12. Below(In(t.MKSKIPPED), r.DHr, n + 1)
  BY <1>3, <1>10, BelowNext
<1>13. d.ok /\ d.s = t
  BY <1>9
<1> QED
  BY <1>1, <1>3, <1>10, <1>11, <1>12, <1>13

\* The ratchet turns to a new key pair of the other end.
LEMMA TurnFields ==
  ASSUME NEW s, RatchetOk(s), NEW dh, NEW t, t = dhRatchet(s, dh)
  PROVE  /\ t.CKr = kdfRK(s.RK, sharedKey(s.DHs, dh)) /\ t.DHs = generateKeyPair(s)
         /\ t.RK = kdfRK(t.CKr, sharedKey(t.DHs, dh)) /\ t.CKs = t.RK /\ t.DHr = dh
         /\ t.Ns = 0 /\ t.Nr = 0 /\ t.PN = s.Ns /\ t.MKSKIPPED = s.MKSKIPPED
         /\ t.CKr # Null
<1>1. PICK rk1 : rk1 = kdfRK(s.RK, sharedKey(s.DHs, dh))
  OBVIOUS
<1>2. PICK dhs : dhs = generateKeyPair(s)
  OBVIOUS
<1>3. PICK rk2 : rk2 = kdfRK(rk1, sharedKey(dhs, dh))
  OBVIOUS
<1>4. t = [s EXCEPT !.PN = s.Ns, !.Ns = 0, !.Nr = 0, !.DHr = dh,
              !.RK = rk2, !.CKr = rk1, !.CKs = rk2, !.DHs = dhs]
  BY <1>1, <1>2, <1>3 DEF dhRatchet
<1>5. t = [RK |-> rk2, CKs |-> rk2, CKr |-> rk1, DHs |-> dhs, DHr |-> dh,
           Ns |-> 0, Nr |-> 0, PN |-> s.Ns, MKSKIPPED |-> s.MKSKIPPED]
  BY <1>4 DEF RatchetOk
<1>6. IsSeq(rk1) /\ Len(rk1) = Len(s.RK) + 1 /\ Len(s.RK) \in Nat
  BY <1>1, Derives DEF RatchetOk
<1>7. Len(Null) = 0
  BY DEF Null
<1>8. rk1 # Null
  BY <1>6, <1>7
<1> QED
  BY <1>1, <1>2, <1>3, <1>5, <1>8

\* A store as seen from a newer key pair.
LEMMA BelowTurn ==
  ASSUME NEW E, NEW dh, NEW nr, Below(E, dh, nr), NEW new, dh[2] \in Nat, new[2] \in Nat,
         dh[2] < new[2]
  PROVE  Below(E, new, 0)
<1>1. ASSUME NEW e \in E
      PROVE  /\ e.dh[2] \in Nat /\ e.dh[2] <= new[2] /\ e.n \in Nat
             /\ e.dh = new => e.n < 0
  <2>1. e.dh[2] \in Nat /\ e.dh[2] <= dh[2] /\ e.n \in Nat
    BY DEF Below
  <2>2. e.dh # new
    BY <2>1
  <2> QED
    BY <2>1, <2>2
<1> QED
  BY <1>1 DEF Below

\* The first messages of a chain are missing.
LEMMA SkipStart ==
  ASSUME NEW s, RatchetOk(s), NEW n \in Nat, NEW dh, dh[2] \in Nat, s.Nr = 0,
         OneKey(In(s.MKSKIPPED)), Below(In(s.MKSKIPPED), dh, 0),
         s.CKr # Null, Len(s.MKSKIPPED) + n <= MAX_SKIPPED_KEYS,
         NEW t, t = skipMessageKeys(s, n, dh)
  PROVE  /\ SameEnd(s, t) /\ t.Nr = n
         /\ In(t.MKSKIPPED) = In(s.MKSKIPPED) \cup Entries(s.CKr, dh, 0, n)
         /\ Len(t.MKSKIPPED) = Len(s.MKSKIPPED) + n
         /\ OneKey(In(t.MKSKIPPED)) /\ Below(In(t.MKSKIPPED), dh, n)
<1>1. s.Nr <= n /\ n - s.Nr = n /\ Below(In(s.MKSKIPPED), dh, s.Nr)
  OBVIOUS
<1>2. Len(s.MKSKIPPED) + (n - s.Nr) <= MAX_SKIPPED_KEYS
  BY <1>1
<1>7. SameEnd(s, t)
  BY <1>1, <1>2, SkipFields
<1>8. t.Nr = n
  BY <1>1, <1>2, SkipFields
<1>3. SameEnd(s, t) /\ t.Nr = n
  BY <1>7, <1>8
<1>4. In(t.MKSKIPPED) = In(s.MKSKIPPED) \cup Entries(s.CKr, dh, s.Nr, n - s.Nr)
  BY <1>1, <1>2, SkipFields
<1>5. Len(t.MKSKIPPED) = Len(s.MKSKIPPED) + (n - s.Nr)
  BY <1>1, <1>2, SkipFields
<1>6. OneKey(In(t.MKSKIPPED)) /\ Below(In(t.MKSKIPPED), dh, n)
  BY <1>1, <1>2, SkipFields
<1> QED
  BY <1>1, <1>3, <1>4, <1>5, <1>6

\* What the page keeps of the chain that it leaves.
Left(r, pn) == IF r.CKr = Null THEN {} ELSE Entries(r.CKr, r.DHr, r.Nr, pn - r.Nr)

\* A frame of the next chain.
LEMMA OpenNext ==
  ASSUME NEW r, RatchetOk(r), NEW h, h.n \in Nat, h.pn \in Nat, NEW old, old = r.DHr,
         NEW new, h.dh = new, old[2] \in Nat, new[2] \in Nat, old[2] < new[2],
         NEW ck, ck = kdfRK(r.RK, sharedKey(r.DHs, new)), h.mk = kdfCK(ck, h.n),
         r.Nr <= h.pn, h.pn - r.Nr <= MAX_SKIP, h.n <= MAX_SKIP,
         Len(r.MKSKIPPED) + (h.pn - r.Nr) + h.n <= MAX_SKIPPED_KEYS,
         OneKey(In(r.MKSKIPPED)), Below(In(r.MKSKIPPED), old, r.Nr),
         NEW d, d = decrypt(r, h)
  PROVE  LET t == d.s IN
         /\ d.ok /\ t.DHs = generateKeyPair(r) /\ t.DHr = new /\ t.CKr = ck
         /\ t.RK = kdfRK(ck, sharedKey(t.DHs, new)) /\ t.CKs = t.RK
         /\ t.PN = r.Ns /\ t.Ns = 0 /\ t.Nr = h.n + 1
         /\ In(t.MKSKIPPED) = In(r.MKSKIPPED) \cup Left(r, h.pn) \cup Entries(ck, new, 0, h.n)
         /\ Len(t.MKSKIPPED) <= Len(r.MKSKIPPED) + (h.pn - r.Nr) + h.n
         /\ Len(t.MKSKIPPED) \in Nat
         /\ OneKey(In(t.MKSKIPPED)) /\ Below(In(t.MKSKIPPED), new, h.n + 1)
<1>1. PICK n \in Nat : n = h.n
  OBVIOUS
<1>2. PICK pn \in Nat : pn = h.pn
  OBVIOUS
<1>3. PICK nr \in Nat : nr = r.Nr
  BY DEF RatchetOk
<1>4. PICK q : q = r.MKSKIPPED
  OBVIOUS
<1>5. Len(q) \in Nat
  BY <1>4, LenProperties DEF RatchetOk, KeyStore, IsSeq
<1>28. PICK l \in Nat : l = Len(r.MKSKIPPED)
  BY <1>4, <1>5
<1>29. /\ nr <= pn /\ pn - nr <= MAX_SKIP /\ n <= MAX_SKIP
       /\ l + (pn - nr) + n <= MAX_SKIPPED_KEYS
  BY <1>1, <1>2, <1>3, <1>28
<1>6. PICK s0 : s0 = skipMessageKeys(r, pn, old)
  OBVIOUS
<1>7. /\ RatchetOk(s0) /\ s0.RK = r.RK /\ s0.DHs = r.DHs /\ s0.Ns = r.Ns
      /\ In(s0.MKSKIPPED) = In(q) \cup Left(r, pn)
      /\ Len(s0.MKSKIPPED) <= Len(q) + (pn - nr) /\ Len(s0.MKSKIPPED) \in Nat
      /\ OneKey(In(s0.MKSKIPPED)) /\ \E k : Below(In(s0.MKSKIPPED), old, k)
  <2>1. RatchetOk(s0)
    BY <1>6, SkipKeeps
  <2>2. CASE r.CKr = Null
    <3>1. s0 = r
      BY <1>6, <2>2 DEF skipMessageKeys
    <3>2. Left(r, pn) = {}
      BY <2>2 DEF Left
    <3>3. Len(q) <= Len(q) + (pn - nr)
      BY <1>2, <1>3, <1>5
    <3> QED
      BY <1>4, <1>5, <2>1, <3>1, <3>2, <3>3
  <2>3. CASE r.CKr # Null
    <3>1. r.Nr <= pn /\ Len(r.MKSKIPPED) + (pn - r.Nr) <= MAX_SKIPPED_KEYS
      <4>1. l + (pn - nr) <= MAX_SKIPPED_KEYS
        BY <1>29, SkipBounds
      <4> QED
        BY <1>3, <1>28, <1>29, <4>1
    <3>7. /\ RatchetOk(r) /\ old[2] \in Nat /\ OneKey(In(r.MKSKIPPED))
          /\ Below(In(r.MKSKIPPED), old, r.Nr)
      OBVIOUS
    <3>2. /\ SameEnd(r, s0) /\ s0.Nr = pn
          /\ In(s0.MKSKIPPED) = In(r.MKSKIPPED) \cup Entries(r.CKr, old, r.Nr, pn - r.Nr)
          /\ Len(s0.MKSKIPPED) = Len(r.MKSKIPPED) + (pn - r.Nr)
          /\ OneKey(In(s0.MKSKIPPED)) /\ Below(In(s0.MKSKIPPED), old, pn)
      BY <1>6, <2>3, <3>1, <3>7, SkipFields
    <3>3. Left(r, pn) = Entries(r.CKr, old, r.Nr, pn - r.Nr)
      BY <2>3 DEF Left
    <3>4. /\ Len(s0.MKSKIPPED) <= Len(q) + (pn - nr) /\ Len(s0.MKSKIPPED) \in Nat
      BY <1>2, <1>3, <1>4, <1>5, <3>2
    <3>5. s0.RK = r.RK /\ s0.DHs = r.DHs /\ s0.Ns = r.Ns
      BY <3>2 DEF SameEnd
    <3>6. \E k : Below(In(s0.MKSKIPPED), old, k)
      BY <3>2
    <3> QED
      BY <1>4, <2>1, <3>2, <3>3, <3>4, <3>5, <3>6
  <2> QED
    BY <2>2, <2>3
<1>8. PICK s1 : s1 = dhRatchet(s0, new)
  OBVIOUS
<1>9. /\ s1.CKr = ck /\ s1.DHs = generateKeyPair(r) /\ s1.RK = kdfRK(ck, sharedKey(s1.DHs, new))
      /\ s1.CKs = s1.RK /\ s1.DHr = new /\ s1.Ns = 0 /\ s1.Nr = 0 /\ s1.PN = r.Ns
      /\ s1.MKSKIPPED = s0.MKSKIPPED /\ ck # Null
  <2>1. /\ s1.CKr = kdfRK(s0.RK, sharedKey(s0.DHs, new)) /\ s1.DHs = generateKeyPair(s0)
        /\ s1.RK = kdfRK(s1.CKr, sharedKey(s1.DHs, new)) /\ s1.CKs = s1.RK /\ s1.DHr = new
        /\ s1.Ns = 0 /\ s1.Nr = 0 /\ s1.PN = s0.Ns /\ s1.MKSKIPPED = s0.MKSKIPPED
        /\ s1.CKr # Null
    BY <1>7, <1>8, TurnFields
  <2>2. s1.CKr = ck
    BY <1>7, <2>1
  <2>3. generateKeyPair(s0) = generateKeyPair(r)
    BY <1>7 DEF generateKeyPair
  <2> QED
    BY <1>7, <2>1, <2>2, <2>3
<1>10. RatchetOk(s1)
  BY <1>7, <1>8, TurnKeeps
<1>11. Below(In(s1.MKSKIPPED), new, 0) /\ OneKey(In(s1.MKSKIPPED))
  BY <1>7, <1>9, BelowTurn
<1>12. PICK s2 : s2 = skipMessageKeys(s1, n, new)
  OBVIOUS
<1>13. /\ SameEnd(s1, s2) /\ s2.Nr = n
       /\ In(s2.MKSKIPPED) = In(s1.MKSKIPPED) \cup Entries(ck, new, 0, n)
       /\ Len(s2.MKSKIPPED) = Len(s1.MKSKIPPED) + n
       /\ OneKey(In(s2.MKSKIPPED)) /\ Below(In(s2.MKSKIPPED), new, n)
  <2>1. s1.CKr # Null /\ s1.Nr <= n /\ Below(In(s1.MKSKIPPED), new, s1.Nr)
    BY <1>9, <1>11
  <2>2. Len(s1.MKSKIPPED) + (n - s1.Nr) <= MAX_SKIPPED_KEYS
    <3>1. PICK k \in Nat : k = Len(s0.MKSKIPPED)
      BY <1>7
    <3>2. k <= l + (pn - nr)
      BY <1>4, <1>7, <1>28, <3>1
    <3>3. k + (n - 0) <= MAX_SKIPPED_KEYS
      BY <1>29, <3>2, SkipBounds
    <3> QED
      BY <1>9, <3>1, <3>3
  <2>3. /\ RatchetOk(s1) /\ new[2] \in Nat /\ OneKey(In(s1.MKSKIPPED)) /\ s1.Nr = 0
        /\ Below(In(s1.MKSKIPPED), new, 0) /\ s1.CKr # Null
        /\ Len(s1.MKSKIPPED) + n <= MAX_SKIPPED_KEYS
    BY <1>9, <1>10, <1>11, <2>1, <2>2
  <2>4. SameEnd(s1, s2) /\ s2.Nr = n
    BY <1>12, <2>3, SkipStart
  <2>5. /\ In(s2.MKSKIPPED) = In(s1.MKSKIPPED) \cup Entries(s1.CKr, new, 0, n)
        /\ Len(s2.MKSKIPPED) = Len(s1.MKSKIPPED) + n
    BY <1>12, <2>3, SkipStart, SMTT(30)
  <2>6. OneKey(In(s2.MKSKIPPED)) /\ Below(In(s2.MKSKIPPED), new, n)
    BY <1>12, <2>3, SkipStart
  <2> QED
    BY <1>9, <2>4, <2>5, <2>6
<1>14. RatchetOk(s2)
  BY <1>10, <1>12, SkipKeeps
<1>15. {i \in DOMAIN r.MKSKIPPED : r.MKSKIPPED[i].dh = h.dh /\ r.MKSKIPPED[i].n = h.n} = {}
  <2>1. Below(In(r.MKSKIPPED), old, nr)
    BY <1>3
  <2>2. h.dh[2] \in Nat /\ old[2] \in Nat /\ old[2] < h.dh[2]
    OBVIOUS
  <2> QED
    BY <2>1, <2>2, NoHit
<1>16. ~TooFar(r, pn) /\ ~TooFar(s1, n)
  <2>1. ~TooFar(r, pn)
    BY <1>2, <1>3, <1>29, SkipBounds DEF TooFar
  <2>2. n - s1.Nr = n
    BY <1>1, <1>9
  <2> QED
    BY <1>29, <2>1, <2>2, SkipBounds DEF TooFar
<1>17. s2.CKr = ck /\ s2.Nr = n
  BY <1>9, <1>13 DEF SameEnd
<1>18. PICK t : t = [s2 EXCEPT !.Nr = @ + 1]
  OBVIOUS
<1>19. d = [ok |-> TRUE, s |-> t]
  <2>1. kdfCK(s2.CKr, s2.Nr) = h.mk /\ s2.CKr # Null
    BY <1>1, <1>9, <1>17
  <2>2. h.dh # r.DHr
    OBVIOUS
  <2>3. s0 = skipMessageKeys(r, h.pn, r.DHr)
    BY <1>2, <1>6
  <2> QED
    BY <1>1, <1>2, <1>8, <1>12, <1>15, <1>16, <1>18, <2>1, <2>2, <2>3 DEF decrypt
<1>20. SameEnd(s2, t) /\ t.Nr = n + 1 /\ t.MKSKIPPED = s2.MKSKIPPED
  BY <1>14, <1>17, <1>18, NextKey
<1>21. SameEnd(s1, t)
  BY <1>13, <1>20 DEF SameEnd
<1>22. Below(In(t.MKSKIPPED), new, n + 1)
  BY <1>13, <1>20, BelowNext
<1>23. d.ok /\ d.s = t
  BY <1>19
<1>24. /\ t.DHs = generateKeyPair(r) /\ t.DHr = new /\ t.CKr = ck
       /\ t.RK = kdfRK(ck, sharedKey(t.DHs, new)) /\ t.CKs = t.RK
       /\ t.PN = r.Ns /\ t.Ns = 0
  BY <1>9, <1>21 DEF SameEnd
<1>25. In(t.MKSKIPPED) = In(r.MKSKIPPED) \cup Left(r, h.pn) \cup Entries(ck, new, 0, h.n)
  BY <1>1, <1>2, <1>4, <1>7, <1>9, <1>13, <1>20
<1>26. /\ Len(t.MKSKIPPED) <= Len(r.MKSKIPPED) + (h.pn - r.Nr) + h.n
       /\ Len(t.MKSKIPPED) \in Nat
  <2>1. PICK k \in Nat : k = Len(s0.MKSKIPPED)
    BY <1>7
  <2>2. k <= l + (pn - nr)
    BY <1>4, <1>7, <1>28, <2>1
  <2>3. Len(t.MKSKIPPED) = k + n
    BY <1>9, <1>13, <1>20, <2>1
  <2>4. k + n <= l + (pn - nr) + n /\ k + n \in Nat
    BY <2>2
  <2> QED
    BY <1>1, <1>2, <1>3, <1>28, <2>3, <2>4
<1>27. OneKey(In(t.MKSKIPPED)) /\ t.Nr = h.n + 1 /\ Below(In(t.MKSKIPPED), new, h.n + 1)
  BY <1>1, <1>13, <1>20, <1>22
<1> QED
  BY <1>23, <1>24, <1>25, <1>26, <1>27

(* The two ends of a channel *)

\* Before the responder has made its first step: it cannot send, and the
\* initiator cannot read.
Fresh(a, b) ==
    /\ a.RK # Null /\ a.CKs = a.RK /\ b.CKr = a.RK /\ b.RK = a.RK
    /\ a.CKr = Null /\ b.CKs = Null /\ a.DHr = b.DHs /\ b.DHr = a.DHs
    /\ a.MKSKIPPED = <<>> /\ a.Nr = 0 /\ b.Ns = 0

\* Ever after, one end is a step ahead of the other: it has seen the other's
\* present key pair, and the other has not seen its own.
Leads(x, y) ==
    /\ x.CKs # Null /\ y.CKs # Null /\ x.CKs = x.RK /\ y.CKs = y.RK /\ x.CKr = y.RK
    /\ x.RK = kdfRK(y.RK, sharedKey(x.DHs, y.DHs)) /\ x.DHr = y.DHs /\ y.DHr # x.DHs

\* How many messages s has sealed in the chain that r is reading, and how many
\* r has not come to, this chain's and the next one's.
Reached(s, r) == IF r.DHr = s.DHs THEN s.Ns ELSE s.PN
Lag(s, r) == IF r.DHr = s.DHs THEN s.Ns - r.Nr ELSE s.PN - r.Nr + s.Ns

\* One direction of a channel, from the end s of page o to the end r.
Chan(o, s, r) ==
    /\ s.DHs = <<o, s.DHs[2]>> /\ s.DHs[2] \in Nat
    /\ r.DHr = <<o, r.DHr[2]>> /\ r.DHr[2] \in Nat /\ r.DHr[2] <= s.DHs[2]
    /\ r.Nr <= Reached(s, r)
    /\ OneKey(In(r.MKSKIPPED)) /\ Below(In(r.MKSKIPPED), r.DHr, r.Nr)

\* What r can open of what s has sealed: its key is kept, or it is further on in
\* the present chain, or it is of the next chain.
Present(s, r, h) == /\ h.dh = r.DHr /\ r.CKr # Null /\ h.mk = kdfCK(r.CKr, h.n)
                    /\ r.Nr <= h.n /\ h.n < Reached(s, r)
Coming(s, r, h) == /\ h.dh = s.DHs /\ r.DHr # s.DHs /\ h.mk = kdfCK(s.CKs, h.n)
                   /\ h.n < s.Ns /\ h.pn = s.PN
Reaches(s, r, h) ==
    SlotOk(h) /\ (Holds(In(r.MKSKIPPED), h) \/ Present(s, r, h) \/ Coming(s, r, h))

\* What r has not come to.
Awaits(s, r, d, k) ==
    /\ k \in Nat
    /\ (d = r.DHr /\ r.Nr <= k /\ k < Reached(s, r)) \/ (d = s.DHs /\ d # r.DHr /\ k < s.Ns)

Unequal(h, g) == h.dh # g.dh \/ h.n # g.n
Earlier(h, g) == h.dh[2] < g.dh[2] \/ (h.dh = g.dh /\ h.n < g.n)

EmptyStore == In(<<>>) = {} /\ Len(<<>>) = 0
LEMMA NoEntries == EmptyStore
BY DEF EmptyStore, In

LEMMA SealFields ==
  ASSUME NEW s, RatchetOk(s), NEW t, t = Advanced(s), NEW h, h = Slot(s)
  PROVE  /\ t.CKr = s.CKr /\ t.DHr = s.DHr /\ t.Nr = s.Nr /\ t.MKSKIPPED = s.MKSKIPPED
         /\ s.CKs # Null => /\ t.RK = s.RK /\ t.CKs = s.CKs /\ t.DHs = s.DHs /\ t.PN = s.PN
                            /\ t.Ns = s.Ns + 1 /\ h.n = s.Ns
         /\ s.CKs = Null => /\ t.DHs = generateKeyPair(s) /\ t.PN = s.Ns /\ t.Ns = 1 /\ h.n = 0
                            /\ t.RK = kdfRK(s.RK, sharedKey(t.DHs, s.DHr)) /\ t.CKs = t.RK
         /\ h.dh = t.DHs /\ h.pn = t.PN /\ h.mk = kdfCK(t.CKs, h.n)
<1>1. PICK r : r = SendReady(s)
  OBVIOUS
<1>2. t = [r EXCEPT !.Ns = @ + 1] /\ h = [dh |-> r.DHs, n |-> r.Ns, pn |-> r.PN, mk |-> kdfCK(r.CKs, r.Ns)]
  BY <1>1 DEF Advanced, Slot
<1>3. CASE s.CKs # Null
  <2>1. r = s
    BY <1>1, <1>3 DEF SendReady
  <2>2. t = [RK |-> s.RK, CKs |-> s.CKs, CKr |-> s.CKr, DHs |-> s.DHs, DHr |-> s.DHr,
             Ns |-> s.Ns + 1, Nr |-> s.Nr, PN |-> s.PN, MKSKIPPED |-> s.MKSKIPPED]
    BY <1>2, <2>1 DEF RatchetOk
  <2> QED
    BY <1>2, <1>3, <2>1, <2>2
<1>4. CASE s.CKs = Null
  <2>1. PICK dhs : dhs = generateKeyPair(s)
    OBVIOUS
  <2>2. PICK rk : rk = kdfRK(s.RK, sharedKey(dhs, s.DHr))
    OBVIOUS
  <2>3. r = [s EXCEPT !.PN = s.Ns, !.Ns = 0, !.DHs = dhs, !.RK = rk, !.CKs = rk]
    BY <1>1, <1>4, <2>1, <2>2 DEF SendReady
  <2>4. r = [RK |-> rk, CKs |-> rk, CKr |-> s.CKr, DHs |-> dhs, DHr |-> s.DHr,
             Ns |-> 0, Nr |-> s.Nr, PN |-> s.Ns, MKSKIPPED |-> s.MKSKIPPED]
    BY <2>3 DEF RatchetOk
  <2>5. t = [RK |-> rk, CKs |-> rk, CKr |-> s.CKr, DHs |-> dhs, DHr |-> s.DHr,
             Ns |-> 1, Nr |-> s.Nr, PN |-> s.Ns, MKSKIPPED |-> s.MKSKIPPED]
    BY <1>2, <2>4
  <2>6. h.dh = dhs /\ h.n = 0 /\ h.pn = s.Ns /\ h.mk = kdfCK(rk, 0)
    BY <1>2, <2>4
  <2> QED
    BY <1>4, <2>1, <2>2, <2>5, <2>6
<1> QED
  BY <1>3, <1>4

\* The page seals a frame.
LEMMA SealsOn ==
  ASSUME NEW s, RatchetOk(s), NEW r, RatchetOk(r), NEW o, NEW u, Chan(o, s, r), Chan(u, r, s),
         Fresh(s, r) \/ Leads(s, r) \/ Leads(r, s),
         NEW t, t = Advanced(s), NEW h, h = Slot(s)
  PROVE  /\ (Fresh(s, r) /\ Fresh(t, r)) \/ Leads(t, r) \/ Leads(r, t)
         /\ Chan(o, t, r) /\ Chan(u, r, t)
         /\ \A g : Reaches(s, r, g) => Reaches(t, r, g) /\ Unequal(g, h)
         /\ \A g : Reaches(r, s, g) => Reaches(r, t, g)
         /\ Reaches(t, r, h)
         /\ Lag(t, r) = Lag(s, r) + 1 /\ Lag(r, t) = Lag(r, s)
         /\ \A d, k : Awaits(t, r, d, k) => Awaits(s, r, d, k) \/ (d = h.dh /\ k = h.n)
         /\ \A d, k : Awaits(r, t, d, k) => Awaits(r, s, d, k)
         /\ \A g : Reaches(s, r, g) /\ ~Holds(In(r.MKSKIPPED), g) => Earlier(g, h)
         /\ t.MKSKIPPED = s.MKSKIPPED
<1>1. s.CKs # Null
  BY DEF Fresh, Leads
<1>2. /\ t.CKr = s.CKr /\ t.DHr = s.DHr /\ t.Nr = s.Nr /\ t.MKSKIPPED = s.MKSKIPPED
      /\ t.RK = s.RK /\ t.CKs = s.CKs /\ t.DHs = s.DHs /\ t.PN = s.PN
      /\ t.Ns = s.Ns + 1 /\ h.n = s.Ns
      /\ h.dh = s.DHs /\ h.pn = s.PN /\ h.mk = kdfCK(s.CKs, s.Ns)
  BY <1>1, SealFields
<1>3. /\ s.Ns \in Nat /\ s.PN \in Nat /\ s.Nr \in Nat /\ r.Ns \in Nat /\ r.PN \in Nat /\ r.Nr \in Nat
  BY DEF RatchetOk
<1>4. (Fresh(s, r) /\ Fresh(t, r)) \/ Leads(t, r) \/ Leads(r, t)
  BY <1>2 DEF Fresh, Leads
<1>5. Reached(r, t) = Reached(r, s) /\ Lag(r, t) = Lag(r, s) /\ (\A d, k : Awaits(r, t, d, k) => Awaits(r, s, d, k))
  BY <1>2 DEF Reached, Lag, Awaits
<1>6. /\ Reached(t, r) = IF r.DHr = s.DHs THEN s.Ns + 1 ELSE s.PN
      /\ Reached(s, r) = IF r.DHr = s.DHs THEN s.Ns ELSE s.PN
  BY <1>2 DEF Reached
<1>7. Chan(o, t, r)
  BY <1>2, <1>3, <1>6 DEF Chan
<1>8. Chan(u, r, t)
  BY <1>2, <1>5 DEF Chan
<1>9. ASSUME NEW g, Reaches(r, s, g)
      PROVE  Reaches(r, t, g)
  BY <1>2, <1>5, <1>9 DEF Reaches, Present, Coming
<1>10. ASSUME NEW g, Reaches(s, r, g)
       PROVE  Reaches(t, r, g)
  <2>1. SlotOk(g)
    BY <1>10 DEF Reaches
  <2>2. CASE Holds(In(r.MKSKIPPED), g)
    BY <2>1, <2>2 DEF Reaches
  <2>3. CASE Present(s, r, g)
    <3>1. Present(t, r, g)
      BY <1>3, <1>6, <2>1, <2>3 DEF Present, SlotOk
    <3> QED
      BY <2>1, <3>1 DEF Reaches
  <2>4. CASE Coming(s, r, g)
    <3>1. Coming(t, r, g)
      BY <1>2, <1>3, <2>1, <2>4 DEF Coming, SlotOk
    <3> QED
      BY <2>1, <3>1 DEF Reaches
  <2> QED
    BY <1>10, <2>2, <2>3, <2>4 DEF Reaches
<1>11. ASSUME NEW g, Reaches(s, r, g)
       PROVE  Unequal(g, h) /\ (~Holds(In(r.MKSKIPPED), g) => Earlier(g, h))
  <2>1. SlotOk(g)
    BY <1>11 DEF Reaches
  <2>2. CASE Holds(In(r.MKSKIPPED), g)
    <3>1. PICK e \in In(r.MKSKIPPED) : e.dh = g.dh /\ e.n = g.n
      BY <2>2 DEF Holds
    <3>2. /\ e.dh[2] \in Nat /\ e.dh[2] <= r.DHr[2] /\ e.n \in Nat
          /\ e.dh = r.DHr => e.n < r.Nr
      BY DEF Chan, Below
    <3>3. CASE r.DHr = s.DHs
      <4>1. r.Nr <= s.Ns
        BY <1>6, <3>3 DEF Chan
      <4>2. g.dh = h.dh => g.n < h.n
        BY <1>2, <1>3, <3>1, <3>2, <3>3, <4>1
      <4> QED
        BY <1>2, <1>3, <2>1, <2>2, <4>2 DEF Unequal, SlotOk
    <3>4. CASE r.DHr # s.DHs
      <4>1. r.DHr[2] < s.DHs[2] /\ r.DHr[2] \in Nat /\ s.DHs[2] \in Nat
        BY <3>4 DEF Chan
      <4>2. g.dh # h.dh
        BY <1>2, <3>1, <3>2, <4>1
      <4> QED
        BY <2>2, <4>2 DEF Unequal
    <3> QED
      BY <3>3, <3>4
  <2>3. CASE Present(s, r, g)
    <3>1. CASE r.DHr = s.DHs
      <4>1. g.n < h.n /\ g.dh = h.dh
        BY <1>2, <1>6, <2>3, <3>1 DEF Present
      <4> QED
        BY <1>2, <1>3, <2>1, <4>1 DEF Unequal, Earlier, SlotOk
    <3>2. CASE r.DHr # s.DHs
      <4>1. r.DHr[2] < s.DHs[2] /\ r.DHr[2] \in Nat /\ s.DHs[2] \in Nat
        BY <3>2 DEF Chan
      <4> QED
        BY <1>2, <2>3, <3>2, <4>1 DEF Unequal, Earlier, Present
    <3> QED
      BY <3>1, <3>2
  <2>4. CASE Coming(s, r, g)
    <3>1. g.n < h.n /\ g.dh = h.dh
      BY <1>2, <2>4 DEF Coming
    <3> QED
      BY <1>2, <1>3, <2>1, <3>1 DEF Unequal, Earlier, SlotOk
  <2> QED
    BY <1>11, <2>2, <2>3, <2>4 DEF Reaches
<1>12. SlotOk(h)
  BY <1>2, <1>3 DEF SlotOk
<1>13. Reaches(t, r, h)
  <2>1. CASE r.DHr # s.DHs
    <3>1. Coming(t, r, h)
      BY <1>2, <1>3, <2>1 DEF Coming
    <3> QED
      BY <1>12, <3>1 DEF Reaches
  <2>2. CASE r.DHr = s.DHs
    <3>1. r.CKr = s.CKs
      BY <2>2 DEF Fresh, Leads
    <3>2. r.Nr <= s.Ns
      BY <1>6, <2>2 DEF Chan
    <3>3. Present(t, r, h)
      BY <1>1, <1>2, <1>3, <1>6, <2>2, <3>1, <3>2 DEF Present
    <3> QED
      BY <1>12, <3>3 DEF Reaches
  <2> QED
    BY <2>1, <2>2
<1>14. Lag(t, r) = Lag(s, r) + 1
  BY <1>2, <1>3 DEF Lag
<1>15. ASSUME NEW d, NEW k, Awaits(t, r, d, k)
       PROVE  Awaits(s, r, d, k) \/ (d = h.dh /\ k = h.n)
  BY <1>2, <1>3, <1>6, <1>15 DEF Awaits
<1> QED
  BY <1>2, <1>4, <1>5, <1>7, <1>8, <1>9, <1>10, <1>11, <1>13, <1>14, <1>15

\* The responder seals its first frame: it takes its first step.
LEMMA SealsFirst ==
  ASSUME NEW s, RatchetOk(s), NEW r, RatchetOk(r), NEW o, NEW u, Chan(o, s, r), Chan(u, r, s),
         Fresh(r, s), NEW t, t = Advanced(s), NEW h, h = Slot(s)
  PROVE  /\ Leads(t, r)
         /\ Chan(o, t, r) /\ Chan(u, r, t)
         /\ \A g : ~Reaches(s, r, g)
         /\ \A g : Reaches(r, s, g) => Reaches(r, t, g)
         /\ Reaches(t, r, h)
         /\ Lag(t, r) = Lag(s, r) + 1 /\ Lag(r, t) = Lag(r, s)
         /\ \A d, k : Awaits(t, r, d, k) => Awaits(s, r, d, k) \/ (d = h.dh /\ k = h.n)
         /\ \A d, k : Awaits(r, t, d, k) => Awaits(r, s, d, k)
         /\ t.MKSKIPPED = s.MKSKIPPED
<1>1. s.CKs = Null /\ s.RK = r.RK /\ s.DHr = r.DHs /\ r.DHr = s.DHs /\ s.Ns = 0 /\ r.Nr = 0
      /\ r.MKSKIPPED = <<>> /\ r.CKr = Null /\ r.CKs = r.RK /\ r.RK # Null
  BY DEF Fresh
<1>2. /\ t.CKr = s.CKr /\ t.DHr = s.DHr /\ t.Nr = s.Nr /\ t.MKSKIPPED = s.MKSKIPPED
      /\ t.DHs = generateKeyPair(s) /\ t.PN = 0 /\ t.Ns = 1 /\ h.n = 0
      /\ t.RK = kdfRK(r.RK, sharedKey(t.DHs, r.DHs)) /\ t.CKs = t.RK
      /\ h.dh = t.DHs /\ h.pn = 0 /\ h.mk = kdfCK(t.CKs, 0)
  BY <1>1, SealFields
<1>3. /\ s.Ns \in Nat /\ s.PN \in Nat /\ s.Nr \in Nat /\ r.Ns \in Nat /\ r.PN \in Nat /\ r.Nr \in Nat
  BY DEF RatchetOk
<1>4. t.DHs = <<o, s.DHs[2] + 1>> /\ s.DHs[2] \in Nat /\ s.DHs = <<o, s.DHs[2]>>
  BY <1>2 DEF generateKeyPair, KeyPair, Chan
<1>5. t.DHs # s.DHs /\ t.DHs[2] = s.DHs[2] + 1 /\ t.DHs = <<o, t.DHs[2]>> /\ t.DHs[2] \in Nat
  BY <1>4
<1>6. t.RK # Null
  <2>1. IsSeq(r.RK)
    BY DEF RatchetOk
  <2>2. PICK dh : dh = sharedKey(t.DHs, r.DHs)
    OBVIOUS
  <2>3. Len(t.RK) = Len(r.RK) + 1 /\ Len(r.RK) \in Nat
    BY <1>2, <2>1, <2>2, Derives
  <2>4. Len(Null) = 0
    BY DEF Null
  <2> QED
    BY <2>3, <2>4
<1>7. Leads(t, r)
  <2>1. s.CKr = r.RK
    BY DEF Fresh
  <2> QED
    BY <1>1, <1>2, <1>5, <1>6, <2>1 DEF Leads
<1>8. Reached(r, t) = Reached(r, s) /\ Lag(r, t) = Lag(r, s)
      /\ \A d, k : Awaits(r, t, d, k) => Awaits(r, s, d, k)
  BY <1>2 DEF Reached, Lag, Awaits
<1>9. Reached(t, r) = 0 /\ Reached(s, r) = 0 /\ Lag(s, r) = 0 /\ Lag(t, r) = 1
  BY <1>1, <1>2, <1>5 DEF Reached, Lag
<1>10. Chan(u, r, t)
  BY <1>2, <1>8 DEF Chan
<1>11. Chan(o, t, r)
  <2>1. /\ r.DHr = <<o, r.DHr[2]>> /\ r.DHr[2] \in Nat /\ r.DHr[2] <= t.DHs[2]
        /\ OneKey(In(r.MKSKIPPED)) /\ Below(In(r.MKSKIPPED), r.DHr, r.Nr)
    BY <1>1, <1>4, <1>5 DEF Chan
  <2>2. r.Nr <= Reached(t, r)
    BY <1>1, <1>9
  <2> QED
    BY <1>5, <2>1, <2>2 DEF Chan
<1>12. ASSUME NEW g, Reaches(r, s, g)
       PROVE  Reaches(r, t, g)
  BY <1>2, <1>8, <1>12 DEF Reaches, Present, Coming
<1>13. ASSUME NEW g, Reaches(s, r, g)
       PROVE  FALSE
  <2>1. ~Holds(In(r.MKSKIPPED), g)
    BY <1>1, NoEntries DEF EmptyStore, Holds
  <2> QED
    BY <1>1, <1>13, <2>1 DEF Reaches, Present, Coming
<1>14. Reaches(t, r, h)
  <2>1. SlotOk(h)
    BY <1>2 DEF SlotOk
  <2>2. Coming(t, r, h)
    BY <1>1, <1>2, <1>5 DEF Coming
  <2> QED
    BY <2>1, <2>2 DEF Reaches
<1>15. ASSUME NEW d, NEW k, Awaits(t, r, d, k)
       PROVE  d = h.dh /\ k = h.n
  BY <1>1, <1>2, <1>9, <1>15 DEF Awaits
<1> QED
  BY <1>2, <1>7, <1>8, <1>9, <1>10, <1>11, <1>12, <1>13, <1>14, <1>15

\* Two ends that belong together.
Tied(s, r) == Fresh(s, r) \/ Fresh(r, s) \/ Leads(s, r) \/ Leads(r, s)

\* What a step of one end, from r to t, keeps of what it can open.
Unlocks(o, u, s, r, t, h) ==
    /\ (Fresh(s, r) /\ Fresh(s, t)) \/ Leads(s, t) \/ Leads(t, s)
    /\ Chan(o, s, t) /\ Chan(u, t, s)
    /\ \A g : Reaches(s, r, g) /\ Unequal(g, h) => Reaches(s, t, g)
    /\ \A g : Reaches(r, s, g) => Reaches(t, s, g)
    /\ Lag(t, s) = Lag(r, s) /\ Lag(s, t) <= Lag(s, r) /\ Lag(s, t) \in Int
    /\ Len(t.MKSKIPPED) \in Nat
    /\ Len(t.MKSKIPPED) + Lag(s, t) + 1 <= Len(r.MKSKIPPED) + Lag(s, r)
    /\ \A d, k : Awaits(s, t, d, k) => Awaits(s, r, d, k) /\ (d # h.dh \/ k # h.n)
    /\ \A d, k : Awaits(t, s, d, k) => Awaits(r, s, d, k)

\* How far ahead of r a frame is.
Missing(r, h) == IF h.dh = r.DHr THEN h.n - r.Nr ELSE h.pn - r.Nr + h.n

\* What a frame that the page can open is not: ahead of what was sealed.
LEMMA LagFacts ==
  ASSUME NEW s, RatchetOk(s), NEW r, RatchetOk(r), NEW o, Chan(o, s, r)
  PROVE  /\ s.Ns \in Nat /\ s.PN \in Nat /\ s.Nr \in Nat /\ r.Ns \in Nat /\ r.PN \in Nat
         /\ r.Nr \in Nat /\ Lag(s, r) \in Nat /\ Len(r.MKSKIPPED) \in Nat
         /\ r.DHr[2] \in Nat /\ s.DHs[2] \in Nat /\ (r.DHr # s.DHs => r.DHr[2] < s.DHs[2])
<1>1. /\ s.Ns \in Nat /\ s.PN \in Nat /\ s.Nr \in Nat /\ r.Ns \in Nat /\ r.PN \in Nat /\ r.Nr \in Nat
  BY DEF RatchetOk
<1>2. Len(r.MKSKIPPED) \in Nat
  BY LenProperties DEF RatchetOk, KeyStore, IsSeq
<1>3. Lag(s, r) \in Nat
  BY <1>1 DEF Lag, Chan, Reached
<1>4. r.DHr[2] \in Nat /\ s.DHs[2] \in Nat /\ (r.DHr # s.DHs => r.DHr[2] < s.DHs[2])
  BY DEF Chan
<1> QED
  BY <1>1, <1>2, <1>3, <1>4

LEMMA UnlocksKept ==
  ASSUME NEW s, RatchetOk(s), NEW r, RatchetOk(r), NEW o, NEW u, Chan(o, s, r), Chan(u, r, s),
         Tied(s, r), NEW h, Holds(In(r.MKSKIPPED), h), NEW d, d = decrypt(r, h)
  PROVE  d.ok /\ Unlocks(o, u, s, r, d.s, h)
<1>1. PICK t : t = d.s
  OBVIOUS
<1>2. /\ d.ok /\ SameEnd(r, t) /\ t.Nr = r.Nr
      /\ Len(r.MKSKIPPED) \in Nat /\ Len(t.MKSKIPPED) = Len(r.MKSKIPPED) - 1
      /\ In(t.MKSKIPPED) \subseteq In(r.MKSKIPPED)
      /\ \A g : Holds(In(r.MKSKIPPED), g) /\ (g.dh # h.dh \/ g.n # h.n)
                   => Holds(In(t.MKSKIPPED), g)
  BY <1>1, OpenKept, SMTT(30) DEF Chan
<1>3. /\ t.RK = r.RK /\ t.CKs = r.CKs /\ t.CKr = r.CKr /\ t.DHs = r.DHs
      /\ t.DHr = r.DHr /\ t.Ns = r.Ns /\ t.PN = r.PN
  BY <1>2 DEF SameEnd
<1>4. PICK e \in In(r.MKSKIPPED) : e.dh = h.dh /\ e.n = h.n
  BY DEF Holds
<1>5. /\ e.dh[2] \in Nat /\ e.dh[2] <= r.DHr[2] /\ e.n \in Nat
      /\ e.dh = r.DHr => e.n < r.Nr
  BY DEF Chan, Below
<1>6. /\ r.Nr \in Nat /\ Lag(s, r) \in Nat
      /\ r.DHr[2] \in Nat /\ s.DHs[2] \in Nat /\ (r.DHr # s.DHs => r.DHr[2] < s.DHs[2])
  BY LagFacts
<1>7. (Fresh(s, r) /\ Fresh(s, t)) \/ Leads(s, t) \/ Leads(t, s)
  <2>1. ~Fresh(r, s)
    BY NoEntries DEF Fresh, EmptyStore, Holds
  <2> QED
    BY <1>2, <1>3, <2>1 DEF Tied, Fresh, Leads
<1>8. /\ Reached(s, t) = Reached(s, r) /\ Reached(t, s) = Reached(r, s)
      /\ Lag(s, t) = Lag(s, r) /\ Lag(t, s) = Lag(r, s)
  BY <1>2, <1>3 DEF Reached, Lag
<1>9. Chan(o, s, t)
  <2>1. OneKey(In(t.MKSKIPPED)) /\ Below(In(t.MKSKIPPED), t.DHr, t.Nr)
    BY <1>2, <1>3 DEF Chan, OneKey, Below
  <2> QED
    BY <1>2, <1>3, <1>8, <2>1 DEF Chan
<1>10. Chan(u, t, s)
  BY <1>3, <1>8 DEF Chan
<1>11. ASSUME NEW g, Reaches(s, r, g), Unequal(g, h)
       PROVE  Reaches(s, t, g)
  BY <1>2, <1>3, <1>8, <1>11 DEF Reaches, Present, Coming, Unequal
<1>12. ASSUME NEW g, Reaches(r, s, g)
       PROVE  Reaches(t, s, g)
  BY <1>3, <1>8, <1>12 DEF Reaches, Present, Coming
<1>13. Len(t.MKSKIPPED) \in Nat
  BY <1>2, <1>4 DEF In
<1>14. ASSUME NEW a, NEW k, Awaits(s, t, a, k)
       PROVE  Awaits(s, r, a, k) /\ (a # h.dh \/ k # h.n)
  <2>1. Awaits(s, r, a, k)
    BY <1>2, <1>3, <1>8, <1>14 DEF Awaits
  <2>2. ASSUME a = h.dh, k = h.n
        PROVE  FALSE
    BY <1>4, <1>5, <1>6, <2>1, <2>2 DEF Awaits
  <2> QED
    BY <2>1, <2>2
<1>15. ASSUME NEW a, NEW k, Awaits(t, s, a, k)
       PROVE  Awaits(r, s, a, k)
  BY <1>3, <1>8, <1>15 DEF Awaits
<1>16. /\ Lag(s, t) <= Lag(s, r) /\ Lag(s, t) \in Int
       /\ Len(t.MKSKIPPED) + Lag(s, t) + 1 <= Len(r.MKSKIPPED) + Lag(s, r)
  BY <1>2, <1>6, <1>8
<1> QED
  BY <1>1, <1>2, <1>7, <1>8, <1>9, <1>10, <1>11, <1>12, <1>13, <1>14, <1>15, <1>16 DEF Unlocks

LEMMA UnlocksPresent ==
  ASSUME NEW s, RatchetOk(s), NEW r, RatchetOk(r), NEW o, NEW u, Chan(o, s, r), Chan(u, r, s),
         Tied(s, r), NEW h, SlotOk(h), Present(s, r, h), h.n - r.Nr <= MAX_SKIP,
         Len(r.MKSKIPPED) + (h.n - r.Nr) <= MAX_SKIPPED_KEYS, NEW d, d = decrypt(r, h)
  PROVE  /\ d.ok /\ Unlocks(o, u, s, r, d.s, h)
         /\ Len(d.s.MKSKIPPED) <= Len(r.MKSKIPPED) + Missing(r, h)
<1>1. PICK t : t = d.s
  OBVIOUS
<1>2. /\ r.Nr \in Nat /\ Lag(s, r) \in Nat /\ Len(r.MKSKIPPED) \in Nat /\ s.Ns \in Nat
      /\ r.DHr[2] \in Nat /\ s.DHs[2] \in Nat /\ (r.DHr # s.DHs => r.DHr[2] < s.DHs[2])
      /\ s.PN \in Nat
  BY LagFacts
<1>3. /\ h.n \in Nat /\ h.dh = r.DHr /\ r.CKr # Null /\ h.mk = kdfCK(r.CKr, h.n)
      /\ r.Nr <= h.n /\ h.n < Reached(s, r)
  BY DEF Present, SlotOk
<1>4. OneKey(In(r.MKSKIPPED)) /\ Below(In(r.MKSKIPPED), r.DHr, r.Nr)
  BY DEF Chan
<1>5. /\ d.ok /\ SameEnd(r, t) /\ t.Nr = h.n + 1
      /\ In(t.MKSKIPPED) = In(r.MKSKIPPED) \cup Entries(r.CKr, r.DHr, r.Nr, h.n - r.Nr)
      /\ Len(t.MKSKIPPED) = Len(r.MKSKIPPED) + (h.n - r.Nr)
      /\ OneKey(In(t.MKSKIPPED)) /\ Below(In(t.MKSKIPPED), r.DHr, h.n + 1)
  BY <1>1, <1>2, <1>3, <1>4, OpenCurrent
<1>6. /\ t.RK = r.RK /\ t.CKs = r.CKs /\ t.CKr = r.CKr /\ t.DHs = r.DHs
      /\ t.DHr = r.DHr /\ t.Ns = r.Ns /\ t.PN = r.PN
  BY <1>5 DEF SameEnd
<1>7. (Fresh(s, r) /\ Fresh(s, t)) \/ Leads(s, t) \/ Leads(t, s)
  <2>1. ~Fresh(r, s)
    BY <1>3 DEF Fresh
  <2> QED
    BY <1>6, <2>1 DEF Tied, Fresh, Leads
<1>8. /\ Reached(s, t) = Reached(s, r) /\ Reached(t, s) = Reached(r, s)
      /\ Lag(t, s) = Lag(r, s) /\ Lag(s, t) = Lag(s, r) - (h.n - r.Nr) - 1
  <2>1. Reached(s, t) = Reached(s, r) /\ Reached(t, s) = Reached(r, s) /\ Lag(t, s) = Lag(r, s)
    BY <1>6 DEF Reached, Lag
  <2>2. PICK n \in Nat : n = h.n
    BY <1>3
  <2>3. PICK nr \in Nat : nr = r.Nr
    BY <1>2
  <2>4. PICK ns \in Nat : ns = s.Ns
    BY <1>2
  <2>5. PICK pn \in Nat : pn = s.PN
    BY <1>2
  <2>6. t.Nr = n + 1 /\ t.DHr = r.DHr
    BY <1>5, <1>6, <2>2
  <2>7. Lag(s, t) = Lag(s, r) - (n - nr) - 1
    <3>1. CASE r.DHr = s.DHs
      <4>1. Lag(s, t) = ns - (n + 1) /\ Lag(s, r) = ns - nr
        BY <2>3, <2>4, <2>6, <3>1 DEF Lag
      <4> QED
        BY <4>1
    <3>2. CASE r.DHr # s.DHs
      <4>1. Lag(s, t) = pn - (n + 1) + ns /\ Lag(s, r) = pn - nr + ns
        BY <2>3, <2>4, <2>5, <2>6, <3>2 DEF Lag
      <4> QED
        BY <4>1
    <3> QED
      BY <3>1, <3>2
  <2> QED
    BY <2>1, <2>2, <2>3, <2>7
<1>9. Reached(s, r) \in Nat
  BY <1>2 DEF Reached
<1>10. Chan(o, s, t)
  <2>1. t.Nr <= Reached(s, t)
    BY <1>3, <1>5, <1>8, <1>9
  <2>2. OneKey(In(t.MKSKIPPED)) /\ Below(In(t.MKSKIPPED), t.DHr, t.Nr)
    BY <1>5, <1>6
  <2> QED
    BY <1>6, <2>1, <2>2 DEF Chan
<1>11. Chan(u, t, s)
  BY <1>6, <1>8 DEF Chan
<1>12. ASSUME NEW g, Reaches(s, r, g), Unequal(g, h)
       PROVE  Reaches(s, t, g)
  <2>1. SlotOk(g) /\ g.n \in Nat
    BY <1>12 DEF Reaches, SlotOk
  <2>2. CASE Holds(In(r.MKSKIPPED), g)
    <3>1. Holds(In(t.MKSKIPPED), g)
      BY <1>5, <2>2 DEF Holds
    <3> QED
      BY <2>1, <3>1 DEF Reaches
  <2>3. CASE Coming(s, r, g)
    BY <1>6, <2>1, <2>3 DEF Reaches, Coming
  <2>4. CASE Present(s, r, g)
    <3>1. g.dh = r.DHr /\ g.mk = <<r.CKr, g.n>> /\ r.Nr <= g.n /\ g.n < Reached(s, r)
      BY <2>4 DEF Present, kdfCK
    <3>2. g.n # h.n
      BY <1>3, <1>12, <3>1 DEF Unequal
    <3>3. CASE g.n < h.n
      <4>1. PICK j \in r.Nr..(r.Nr + (h.n - r.Nr) - 1) : j = g.n
        BY <1>2, <1>3, <2>1, <3>1, <3>3
      <4>2. PICK e \in Entries(r.CKr, r.DHr, r.Nr, h.n - r.Nr) :
               e = [dh |-> r.DHr, n |-> j, mk |-> <<r.CKr, j>>]
        BY DEF Entries
      <4>3. e \in In(t.MKSKIPPED) /\ e.dh = g.dh /\ e.n = g.n /\ e.mk = g.mk
        BY <1>5, <3>1, <4>1, <4>2
      <4> QED
        BY <2>1, <4>3 DEF Reaches, Holds
    <3>4. CASE h.n < g.n
      <4>1. Present(s, t, g)
        BY <1>3, <1>5, <1>6, <1>8, <2>1, <2>4, <3>4 DEF Present
      <4> QED
        BY <2>1, <4>1 DEF Reaches
    <3> QED
      BY <1>3, <2>1, <3>2, <3>3, <3>4
  <2> QED
    BY <1>12, <2>2, <2>3, <2>4 DEF Reaches
<1>13. ASSUME NEW g, Reaches(r, s, g)
       PROVE  Reaches(t, s, g)
  BY <1>6, <1>8, <1>13 DEF Reaches, Present, Coming
<1>14. Len(t.MKSKIPPED) \in Nat
  BY <1>2, <1>3, <1>5
<1>15. ASSUME NEW a, NEW k, Awaits(s, t, a, k)
       PROVE  Awaits(s, r, a, k) /\ (a # h.dh \/ k # h.n)
  BY <1>2, <1>3, <1>5, <1>6, <1>8, <1>15 DEF Awaits
<1>16. ASSUME NEW a, NEW k, Awaits(t, s, a, k)
       PROVE  Awaits(r, s, a, k)
  BY <1>6, <1>8, <1>16 DEF Awaits
<1>17. /\ Lag(s, t) <= Lag(s, r) /\ Lag(s, t) \in Int
       /\ Len(t.MKSKIPPED) + Lag(s, t) + 1 <= Len(r.MKSKIPPED) + Lag(s, r)
  <2>1. PICK l \in Nat : l = Lag(s, r)
    BY <1>2
  <2>2. PICK g \in Nat : g = h.n - r.Nr
    BY <1>2, <1>3
  <2>3. PICK m \in Nat : m = Len(r.MKSKIPPED)
    BY <1>2
  <2>4. PICK x : x = Lag(s, t)
    OBVIOUS
  <2>5. PICK y : y = Len(t.MKSKIPPED)
    OBVIOUS
  <2>6. x = l - g - 1
    BY <1>8, <2>1, <2>2, <2>4
  <2>7. y = m + g
    BY <1>5, <2>2, <2>3, <2>5
  <2>8. x \in Int /\ x <= l
    BY <2>1, <2>2, <2>6
  <2>9. y + x + 1 = m + l
    <3> HIDE <2>1, <2>2, <2>3, <2>4, <2>5
    <3> QED
      BY <2>6, <2>7
  <2> QED
    BY <2>1, <2>3, <2>4, <2>5, <2>8, <2>9
<1>18. Unlocks(o, u, s, r, t, h)
  BY <1>5, <1>7, <1>8, <1>10, <1>11, <1>12, <1>13, <1>14, <1>15, <1>16, <1>17 DEF Unlocks
<1>19. Len(t.MKSKIPPED) <= Len(r.MKSKIPPED) + Missing(r, h)
  <2>1. Missing(r, h) = h.n - r.Nr
    BY <1>3 DEF Missing
  <2>2. PICK m \in Nat : m = Len(r.MKSKIPPED) + (h.n - r.Nr)
    BY <1>2, <1>3
  <2> QED
    BY <1>5, <2>1, <2>2
<1> QED
  BY <1>1, <1>5, <1>18, <1>19

LEMMA UnlocksComing ==
  ASSUME NEW s, RatchetOk(s), NEW r, RatchetOk(r), NEW o, NEW u, Chan(o, s, r), Chan(u, r, s),
         Tied(s, r), NEW h, SlotOk(h), Coming(s, r, h),
         h.pn - r.Nr <= MAX_SKIP, h.n <= MAX_SKIP,
         Len(r.MKSKIPPED) + (h.pn - r.Nr) + h.n <= MAX_SKIPPED_KEYS, NEW d, d = decrypt(r, h)
  PROVE  /\ d.ok /\ Unlocks(o, u, s, r, d.s, h)
         /\ Len(d.s.MKSKIPPED) <= Len(r.MKSKIPPED) + Missing(r, h)
<1>1. PICK t : t = d.s
  OBVIOUS
<1>2. /\ r.Nr \in Nat /\ Lag(s, r) \in Nat /\ Len(r.MKSKIPPED) \in Nat
      /\ s.Ns \in Nat /\ s.PN \in Nat /\ r.Ns \in Nat
      /\ r.DHr[2] \in Nat /\ s.DHs[2] \in Nat /\ (r.DHr # s.DHs => r.DHr[2] < s.DHs[2])
  BY LagFacts
<1>3. /\ h.n \in Nat /\ h.pn \in Nat /\ h.dh = s.DHs /\ r.DHr # s.DHs
      /\ h.mk = kdfCK(s.CKs, h.n) /\ h.n < s.Ns /\ h.pn = s.PN
  BY DEF Coming, SlotOk
<1>4. OneKey(In(r.MKSKIPPED)) /\ Below(In(r.MKSKIPPED), r.DHr, r.Nr) /\ r.Nr <= s.PN
  BY <1>3 DEF Chan, Reached
<1>5. Leads(s, r)
  BY <1>3 DEF Tied, Fresh, Leads
<1>6. PICK ck : ck = s.CKs
  OBVIOUS
<1>7. /\ s.CKs = s.RK /\ r.CKs = r.RK /\ s.CKr = r.RK /\ s.CKs # Null /\ r.CKs # Null
      /\ s.RK = kdfRK(r.RK, sharedKey(s.DHs, r.DHs)) /\ s.DHr = r.DHs
  BY <1>5 DEF Leads
<1>8. ck = kdfRK(r.RK, sharedKey(r.DHs, s.DHs)) /\ ck # Null
  <2>1. sharedKey(r.DHs, s.DHs) = sharedKey(s.DHs, r.DHs)
    BY DEF sharedKey
  <2> QED
    BY <1>6, <1>7, <2>1
<1>9. PICK old : old = r.DHr
  OBVIOUS
<1>10. PICK new : new = s.DHs
  OBVIOUS
<1>11. /\ h.dh = new /\ old[2] \in Nat /\ new[2] \in Nat /\ old[2] < new[2]
       /\ ck = kdfRK(r.RK, sharedKey(r.DHs, new)) /\ h.mk = kdfCK(ck, h.n) /\ r.Nr <= h.pn
       /\ Below(In(r.MKSKIPPED), old, r.Nr)
  BY <1>2, <1>3, <1>4, <1>6, <1>8, <1>9, <1>10
<1>12. /\ d.ok /\ t.DHs = generateKeyPair(r) /\ t.DHr = new /\ t.CKr = ck
       /\ t.RK = kdfRK(ck, sharedKey(t.DHs, new)) /\ t.CKs = t.RK
       /\ t.PN = r.Ns /\ t.Ns = 0 /\ t.Nr = h.n + 1
       /\ In(t.MKSKIPPED) = In(r.MKSKIPPED) \cup Left(r, h.pn) \cup Entries(ck, new, 0, h.n)
       /\ Len(t.MKSKIPPED) <= Len(r.MKSKIPPED) + (h.pn - r.Nr) + h.n
       /\ Len(t.MKSKIPPED) \in Nat
       /\ OneKey(In(t.MKSKIPPED)) /\ Below(In(t.MKSKIPPED), new, h.n + 1)
  <2>1. RatchetOk(r) /\ h.n \in Nat /\ h.pn \in Nat /\ old = r.DHr /\ h.dh = new
        /\ OneKey(In(r.MKSKIPPED)) /\ old[2] \in Nat /\ new[2] \in Nat /\ old[2] < new[2]
        /\ ck = kdfRK(r.RK, sharedKey(r.DHs, new)) /\ h.mk = kdfCK(ck, h.n)
        /\ r.Nr <= h.pn /\ h.pn - r.Nr <= MAX_SKIP /\ h.n <= MAX_SKIP
        /\ Len(r.MKSKIPPED) + (h.pn - r.Nr) + h.n <= MAX_SKIPPED_KEYS
        /\ Below(In(r.MKSKIPPED), old, r.Nr) /\ d = decrypt(r, h)
    BY <1>3, <1>4, <1>9, <1>11
  <2>2. /\ d.ok /\ d.s.DHs = generateKeyPair(r) /\ d.s.DHr = new /\ d.s.CKr = ck
        /\ d.s.RK = kdfRK(ck, sharedKey(d.s.DHs, new)) /\ d.s.CKs = d.s.RK
        /\ d.s.PN = r.Ns /\ d.s.Ns = 0 /\ d.s.Nr = h.n + 1
    BY <2>1, OpenNext, SMTT(30)
  <2>3. In(d.s.MKSKIPPED) = In(r.MKSKIPPED) \cup Left(r, h.pn) \cup Entries(ck, new, 0, h.n)
    BY <2>1, OpenNext, SMTT(30)
  <2>4. /\ Len(d.s.MKSKIPPED) <= Len(r.MKSKIPPED) + (h.pn - r.Nr) + h.n
        /\ Len(d.s.MKSKIPPED) \in Nat
    BY <2>1, OpenNext, SMTT(30)
  <2>5. OneKey(In(d.s.MKSKIPPED)) /\ Below(In(d.s.MKSKIPPED), new, h.n + 1)
    BY <2>1, OpenNext, SMTT(30)
  <2> QED
    BY <1>1, <2>2, <2>3, <2>4, <2>5
<1>13. /\ t.DHs = <<u, r.DHs[2] + 1>> /\ r.DHs[2] \in Nat /\ r.DHs = <<u, r.DHs[2]>>
  BY <1>12 DEF generateKeyPair, KeyPair, Chan
<1>14. /\ t.DHs # r.DHs /\ t.DHs[2] = r.DHs[2] + 1 /\ t.DHs = <<u, t.DHs[2]>>
       /\ t.DHs[2] \in Nat
  BY <1>13
<1>15. Leads(t, s)
  <2>1. t.RK # Null
    <3>1. IsSeq(ck)
      BY <1>6, <1>7 DEF RatchetOk
    <3>2. PICK dh : dh = sharedKey(t.DHs, new)
      OBVIOUS
    <3>3. Len(t.RK) = Len(ck) + 1 /\ Len(ck) \in Nat
      BY <1>12, <3>1, <3>2, Derives
    <3>4. Len(Null) = 0
      BY DEF Null
    <3> QED
      BY <3>3, <3>4
  <2>2. t.CKr = s.RK /\ t.RK = kdfRK(s.RK, sharedKey(t.DHs, s.DHs)) /\ t.DHr = s.DHs
    BY <1>6, <1>7, <1>10, <1>12
  <2>3. s.DHr # t.DHs
    BY <1>7, <1>14
  <2> QED
    BY <1>7, <1>12, <2>1, <2>2, <2>3 DEF Leads
<1>16. /\ Reached(s, t) = s.Ns /\ Reached(s, r) = s.PN /\ Reached(r, s) = r.Ns
       /\ Reached(t, s) = r.Ns
       /\ Lag(s, r) = s.PN - r.Nr + s.Ns /\ Lag(s, t) = s.Ns - (h.n + 1)
       /\ Lag(r, s) = r.Ns - s.Nr /\ Lag(t, s) = r.Ns - s.Nr + 0
  BY <1>3, <1>7, <1>10, <1>12, <1>14 DEF Reached, Lag
<1>17. s.Nr \in Nat /\ Lag(t, s) = Lag(r, s)
  <2>1. s.Nr \in Nat
    BY DEF RatchetOk
  <2> QED
    BY <1>2, <1>16, <2>1
<1>18. Chan(o, s, t)
  <2>1. t.Nr <= Reached(s, t)
    BY <1>2, <1>3, <1>12, <1>16
  <2>2. OneKey(In(t.MKSKIPPED)) /\ Below(In(t.MKSKIPPED), t.DHr, t.Nr)
    BY <1>12
  <2>3. s.DHs = <<o, s.DHs[2]>> /\ t.DHr = <<o, t.DHr[2]>> /\ t.DHr[2] <= s.DHs[2]
        /\ t.DHr[2] \in Nat
    BY <1>2, <1>10, <1>12 DEF Chan
  <2> QED
    BY <1>2, <2>1, <2>2, <2>3 DEF Chan
<1>19. Chan(u, t, s)
  <2>1. /\ s.DHr = <<u, s.DHr[2]>> /\ s.DHr[2] \in Nat /\ s.Nr <= Reached(r, s)
        /\ OneKey(In(s.MKSKIPPED)) /\ Below(In(s.MKSKIPPED), s.DHr, s.Nr)
    BY DEF Chan
  <2>2. s.DHr[2] <= t.DHs[2]
    BY <1>7, <1>13, <1>14
  <2> QED
    BY <1>14, <1>16, <2>1, <2>2 DEF Chan
<1>20. ASSUME NEW g, Reaches(s, r, g), Unequal(g, h)
       PROVE  Reaches(s, t, g)
  <2>1. SlotOk(g) /\ g.n \in Nat
    BY <1>20 DEF Reaches, SlotOk
  <2>2. CASE Holds(In(r.MKSKIPPED), g)
    <3>1. Holds(In(t.MKSKIPPED), g)
      BY <1>12, <2>2 DEF Holds
    <3> QED
      BY <2>1, <3>1 DEF Reaches
  <2>3. CASE Present(s, r, g)
    <3>1. /\ g.dh = r.DHr /\ g.mk = <<r.CKr, g.n>> /\ r.Nr <= g.n /\ g.n < h.pn
          /\ r.CKr # Null
      BY <1>3, <1>16, <2>3 DEF Present, kdfCK
    <3>2. PICK j \in r.Nr..(r.Nr + (h.pn - r.Nr) - 1) : j = g.n
      BY <1>2, <1>3, <2>1, <3>1
    <3>3. PICK e \in Left(r, h.pn) : e = [dh |-> r.DHr, n |-> j, mk |-> <<r.CKr, j>>]
      BY <3>1 DEF Entries, Left
    <3>4. e \in In(t.MKSKIPPED) /\ e.dh = g.dh /\ e.n = g.n /\ e.mk = g.mk
      BY <1>12, <3>1, <3>2, <3>3
    <3> QED
      BY <2>1, <3>4 DEF Reaches, Holds
  <2>4. CASE Coming(s, r, g)
    <3>1. g.dh = new /\ g.mk = <<ck, g.n>> /\ g.n < s.Ns
      BY <1>6, <1>10, <2>4 DEF Coming, kdfCK
    <3>2. g.n # h.n
      BY <1>11, <1>20, <3>1 DEF Unequal
    <3>3. CASE g.n < h.n
      <4>1. PICK j \in 0..(0 + h.n - 1) : j = g.n
        BY <1>3, <2>1, <3>3
      <4>2. PICK e \in Entries(ck, new, 0, h.n) :
               e = [dh |-> new, n |-> j, mk |-> <<ck, j>>]
        BY DEF Entries
      <4>3. e \in In(t.MKSKIPPED) /\ e.dh = g.dh /\ e.n = g.n /\ e.mk = g.mk
        BY <1>12, <3>1, <4>1, <4>2
      <4> QED
        BY <2>1, <4>3 DEF Reaches, Holds
    <3>4. CASE h.n < g.n
      <4>1. Present(s, t, g)
        BY <1>3, <1>8, <1>12, <1>16, <2>1, <3>1, <3>4 DEF Present, kdfCK
      <4> QED
        BY <2>1, <4>1 DEF Reaches
    <3> QED
      BY <1>3, <2>1, <3>2, <3>3, <3>4
  <2> QED
    BY <1>20, <2>2, <2>3, <2>4 DEF Reaches
<1>21. ASSUME NEW g, Reaches(r, s, g)
       PROVE  Reaches(t, s, g)
  <2>1. ~Coming(r, s, g)
    BY <1>7 DEF Coming
  <2>2. Present(r, s, g) => Present(t, s, g)
    BY <1>16 DEF Present
  <2> QED
    BY <1>21, <2>1, <2>2 DEF Reaches
<1>22. ASSUME NEW a, NEW k, Awaits(s, t, a, k)
       PROVE  Awaits(s, r, a, k) /\ (a # h.dh \/ k # h.n)
  BY <1>2, <1>3, <1>10, <1>12, <1>16, <1>22 DEF Awaits
<1>23. ASSUME NEW a, NEW k, Awaits(t, s, a, k)
       PROVE  Awaits(r, s, a, k)
  BY <1>12, <1>16, <1>23 DEF Awaits
<1>24. /\ Lag(s, t) <= Lag(s, r) /\ Lag(s, t) \in Int
       /\ Len(t.MKSKIPPED) + Lag(s, t) + 1 <= Len(r.MKSKIPPED) + Lag(s, r)
  <2>1. PICK b \in Nat : b = h.pn - r.Nr
    BY <1>2, <1>3, <1>4
  <2>2. PICK n \in Nat : n = h.n
    BY <1>3
  <2>3. PICK ns \in Nat : ns = s.Ns
    BY <1>2
  <2>4. PICK m \in Nat : m = Len(r.MKSKIPPED)
    BY <1>2
  <2>5. PICK l : l = Lag(s, r)
    OBVIOUS
  <2>6. PICK x : x = Lag(s, t)
    OBVIOUS
  <2>7. PICK y \in Nat : y = Len(t.MKSKIPPED)
    BY <1>12
  <2>8. l = b + ns
    BY <1>3, <1>16, <2>1, <2>3, <2>5
  <2>9. x = ns - (n + 1)
    BY <1>16, <2>2, <2>3, <2>6
  <2>10. y <= m + b + n
    BY <1>12, <2>1, <2>2, <2>4, <2>7
  <2>11. x \in Int /\ x <= l
    BY <2>1, <2>2, <2>3, <2>8, <2>9
  <2>12. y + x + 1 <= m + l
    BY <2>8, <2>9, <2>10
  <2> QED
    BY <2>4, <2>5, <2>6, <2>7, <2>11, <2>12
<1>25. Len(t.MKSKIPPED) \in Nat
  BY <1>12
<1>26. Unlocks(o, u, s, r, t, h)
  BY <1>12, <1>15, <1>17, <1>18, <1>19, <1>20, <1>21, <1>22, <1>23, <1>24, <1>25 DEF Unlocks
<1>27. Len(t.MKSKIPPED) <= Len(r.MKSKIPPED) + Missing(r, h)
  <2>1. PICK b : b = h.pn - r.Nr
    OBVIOUS
  <2>2. Missing(r, h) = b + h.n
    BY <1>3, <2>1 DEF Missing
  <2>3. b \in Nat
    BY <1>2, <1>3, <1>4, <2>1
  <2>4. Len(t.MKSKIPPED) <= Len(r.MKSKIPPED) + b + h.n
    BY <1>12, <2>1
  <2> QED
    BY <1>2, <1>3, <1>12, <2>2, <2>3, <2>4
<1> QED
  BY <1>1, <1>12, <1>26, <1>27

\* Room for what is missing before a frame: neither the gap nor the store of kept
\* keys grows too long.
RoomFor(r, h) == /\ Missing(r, h) <= MAX_SKIP
                 /\ Len(r.MKSKIPPED) + Missing(r, h) <= MAX_SKIPPED_KEYS

\* A frame that the page can come to, for which there is room, is opened.
LEMMA Openable ==
  ASSUME NEW s, RatchetOk(s), NEW r, RatchetOk(r), NEW o, NEW u, Chan(o, s, r), Chan(u, r, s),
         Tied(s, r), NEW h, Reaches(s, r, h), Holds(In(r.MKSKIPPED), h) \/ RoomFor(r, h),
         NEW d, d = decrypt(r, h)
  PROVE  /\ d.ok /\ Unlocks(o, u, s, r, d.s, h)
         /\ Holds(In(r.MKSKIPPED), h)
            \/ Len(d.s.MKSKIPPED) <= Len(r.MKSKIPPED) + Missing(r, h)
<1>1. CASE Holds(In(r.MKSKIPPED), h)
  BY <1>1, UnlocksKept
<1>2. CASE ~Holds(In(r.MKSKIPPED), h) /\ Present(s, r, h)
  <2>1. Missing(r, h) = h.n - r.Nr
    BY <1>2 DEF Missing, Present
  <2>2. RoomFor(r, h) /\ SlotOk(h) /\ Present(s, r, h)
    BY <1>2 DEF Reaches
  <2>3. h.n - r.Nr <= MAX_SKIP
    BY <2>1, <2>2 DEF RoomFor
  <2>4. Len(r.MKSKIPPED) + (h.n - r.Nr) <= MAX_SKIPPED_KEYS
    BY <2>1, <2>2 DEF RoomFor
  <2> QED
    BY <2>2, <2>3, <2>4, UnlocksPresent
<1>3. CASE ~Holds(In(r.MKSKIPPED), h) /\ Coming(s, r, h)
  <2>1. RoomFor(r, h) /\ SlotOk(h) /\ Coming(s, r, h)
    BY <1>3 DEF Reaches
  <2>2. PICK n \in Nat : n = h.n
    BY <2>1 DEF SlotOk
  <2>3. h.dh # r.DHr /\ h.pn = s.PN /\ r.DHr # s.DHs
    BY <2>1 DEF Coming
  <2>4. PICK b \in Nat : b = h.pn - r.Nr
    <3>1. s.PN \in Nat /\ r.Nr \in Nat /\ r.Nr <= s.PN
      BY <2>3, LagFacts DEF Chan, Reached
    <3> QED
      BY <2>3, <3>1
  <2>5. Missing(r, h) = b + n
    BY <2>2, <2>3, <2>4 DEF Missing
  <2>6. PICK m \in Nat : m = Len(r.MKSKIPPED)
    BY LagFacts
  <2>7. b + n <= MAX_SKIP /\ m + (b + n) <= MAX_SKIPPED_KEYS
    BY <2>1, <2>5, <2>6 DEF RoomFor
  <2>8. b <= MAX_SKIP /\ n <= MAX_SKIP /\ m + b + n <= MAX_SKIPPED_KEYS
    BY <2>7, SkipBounds
  <2>9. h.pn - r.Nr <= MAX_SKIP /\ h.n <= MAX_SKIP
    BY <2>2, <2>4, <2>8
  <2>10. Len(r.MKSKIPPED) + (h.pn - r.Nr) + h.n <= MAX_SKIPPED_KEYS
    BY <2>2, <2>4, <2>6, <2>8
  <2> QED
    <3>1. d.ok /\ Unlocks(o, u, s, r, d.s, h)
      BY <2>1, <2>9, <2>10, UnlocksComing
    <3>2. Len(d.s.MKSKIPPED) <= Len(r.MKSKIPPED) + Missing(r, h)
      BY <2>1, <2>9, <2>10, UnlocksComing
    <3> QED
      BY <3>1, <3>2
<1> QED
  BY <1>1, <1>2, <1>3 DEF Reaches

\* A frame that is sealed can be opened, after all that were sealed before it.
LEMMA Seals ==
  ASSUME NEW s, RatchetOk(s), NEW r, RatchetOk(r), NEW o, NEW u, Chan(o, s, r), Chan(u, r, s),
         Tied(s, r), NEW t, t = Advanced(s), NEW h, h = Slot(s)
  PROVE  /\ Tied(t, r) /\ Chan(o, t, r) /\ Chan(u, r, t)
         /\ \A g : Reaches(s, r, g) => Reaches(t, r, g) /\ Unequal(g, h)
         /\ \A g : Reaches(r, s, g) => Reaches(r, t, g)
         /\ Reaches(t, r, h)
         /\ Lag(t, r) = Lag(s, r) + 1 /\ Lag(r, t) = Lag(r, s)
         /\ \A d, k : Awaits(t, r, d, k) => Awaits(s, r, d, k) \/ (d = h.dh /\ k = h.n)
         /\ \A d, k : Awaits(r, t, d, k) => Awaits(r, s, d, k)
         /\ \A g : Reaches(s, r, g) /\ ~Holds(In(r.MKSKIPPED), g) => Earlier(g, h)
         /\ t.MKSKIPPED = s.MKSKIPPED
<1>1. CASE Fresh(r, s)
  <2>1. /\ Leads(t, r)
        /\ Chan(o, t, r) /\ Chan(u, r, t)
        /\ \A g : ~Reaches(s, r, g)
        /\ \A g : Reaches(r, s, g) => Reaches(r, t, g)
        /\ Reaches(t, r, h)
        /\ Lag(t, r) = Lag(s, r) + 1 /\ Lag(r, t) = Lag(r, s)
        /\ \A d, k : Awaits(t, r, d, k) => Awaits(s, r, d, k) \/ (d = h.dh /\ k = h.n)
        /\ \A d, k : Awaits(r, t, d, k) => Awaits(r, s, d, k)
        /\ t.MKSKIPPED = s.MKSKIPPED
    BY <1>1, SealsFirst
  <2>2. Tied(t, r)
    BY <2>1 DEF Tied
  <2> QED
    BY <2>1, <2>2
<1>2. CASE Fresh(s, r) \/ Leads(s, r) \/ Leads(r, s)
  <2>1. /\ (Fresh(s, r) /\ Fresh(t, r)) \/ Leads(t, r) \/ Leads(r, t)
        /\ Chan(o, t, r) /\ Chan(u, r, t)
        /\ \A g : Reaches(s, r, g) => Reaches(t, r, g) /\ Unequal(g, h)
        /\ \A g : Reaches(r, s, g) => Reaches(r, t, g)
        /\ Reaches(t, r, h)
        /\ Lag(t, r) = Lag(s, r) + 1 /\ Lag(r, t) = Lag(r, s)
        /\ \A d, k : Awaits(t, r, d, k) => Awaits(s, r, d, k) \/ (d = h.dh /\ k = h.n)
        /\ \A d, k : Awaits(r, t, d, k) => Awaits(r, s, d, k)
        /\ \A g : Reaches(s, r, g) /\ ~Holds(In(r.MKSKIPPED), g) => Earlier(g, h)
        /\ t.MKSKIPPED = s.MKSKIPPED
    BY <1>2, SealsOn
  <2>2. Tied(t, r)
    BY <2>1 DEF Tied
  <2> QED
    BY <2>1, <2>2
<1> QED
  BY <1>1, <1>2 DEF Tied

\* What no page can have missed while few frames are sealed at all.
Few == MaxSealed <= MAX_SKIP + 1 /\ MaxSealed <= MAX_SKIPPED_KEYS + 1
Roomy(s, r, all) == /\ Lag(s, r) <= all
                    /\ Len(r.MKSKIPPED) = 0 \/ Len(r.MKSKIPPED) + Lag(s, r) + 1 <= all

LEMMA FewHasRoom ==
  ASSUME NEW s, RatchetOk(s), NEW r, RatchetOk(r), NEW o, Chan(o, s, r), Few,
         NEW all \in 0..MaxSealed, Roomy(s, r, all),
         NEW h, Reaches(s, r, h), ~Holds(In(r.MKSKIPPED), h)
  PROVE  RoomFor(r, h)
<1>1. PICK ns \in Nat : ns = s.Ns
  BY LagFacts
<1>2. PICK pn \in Nat : pn = s.PN
  BY LagFacts
<1>3. PICK nr \in Nat : nr = r.Nr
  BY LagFacts
<1>4. PICK n \in Nat : n = h.n
  BY DEF Reaches, SlotOk
<1>5. PICK m \in Nat : m = Len(r.MKSKIPPED)
  BY LagFacts
<1>6. PICK l \in Nat : l = Lag(s, r)
  BY LagFacts
<1>7. PICK x : x = Missing(r, h)
  OBVIOUS
<1>8. x \in Int /\ x + 1 <= l
  <2>1. CASE Present(s, r, h)
    <3>1. h.dh = r.DHr /\ h.n < Reached(s, r)
      BY <2>1 DEF Present
    <3>2. x = n - nr
      BY <1>3, <1>4, <1>7, <3>1 DEF Missing
    <3>3. CASE r.DHr = s.DHs
      <4>1. l = ns - nr /\ n < ns
        BY <1>1, <1>3, <1>4, <1>6, <3>1, <3>3 DEF Lag, Reached
      <4> QED
        BY <3>2, <4>1
    <3>4. CASE r.DHr # s.DHs
      <4>1. l = pn - nr + ns /\ n < pn
        BY <1>1, <1>2, <1>3, <1>4, <1>6, <3>1, <3>4 DEF Lag, Reached
      <4> QED
        BY <3>2, <4>1
    <3> QED
      BY <3>3, <3>4
  <2>2. CASE Coming(s, r, h)
    <3>1. h.dh = s.DHs /\ h.dh # r.DHr /\ h.n < s.Ns /\ h.pn = s.PN
      BY <2>2 DEF Coming
    <3>2. x = pn - nr + n
      BY <1>2, <1>3, <1>4, <1>7, <3>1 DEF Missing
    <3>3. l = pn - nr + ns /\ n < ns
      BY <1>1, <1>2, <1>3, <1>4, <1>6, <3>1 DEF Lag
    <3> QED
      BY <3>2, <3>3
  <2> QED
    BY <2>1, <2>2 DEF Reaches
<1>9. l <= all /\ (m = 0 \/ m + l + 1 <= all)
  BY <1>5, <1>6 DEF Roomy
<1>10. MaxSealed \in Nat /\ all \in Nat /\ all <= MAX_SKIP + 1 /\ all <= MAX_SKIPPED_KEYS + 1
  BY Bounds, SkipBounds DEF Few
<1>11. x <= MAX_SKIP /\ m + x <= MAX_SKIPPED_KEYS
  BY <1>8, <1>9, <1>10, SkipBounds
<1> QED
  BY <1>5, <1>7, <1>11 DEF RoomFor

LEMMA StillRoomy ==
  ASSUME NEW s, RatchetOk(s), NEW r, RatchetOk(r), NEW o, NEW u, Chan(o, s, r),
         NEW all \in Nat, Roomy(s, r, all), NEW h, NEW t, Unlocks(o, u, s, r, t, h)
  PROVE  Roomy(s, t, all)
<1>1. PICK m \in Nat : m = Len(r.MKSKIPPED)
  BY LagFacts
<1>2. PICK l \in Nat : l = Lag(s, r)
  BY LagFacts
<1>3. PICK x \in Int : x = Lag(s, t)
  BY DEF Unlocks
<1>4. PICK y \in Nat : y = Len(t.MKSKIPPED)
  BY DEF Unlocks
<1>5. x <= l /\ y + x + 1 <= m + l
  BY <1>1, <1>2, <1>3, <1>4 DEF Unlocks
<1>6. l <= all /\ (m = 0 \/ m + l + 1 <= all)
  BY <1>1, <1>2 DEF Roomy
<1>7. x <= all /\ (y = 0 \/ y + x + 1 <= all)
  BY <1>5, <1>6
<1> QED
  BY <1>3, <1>4, <1>7 DEF Roomy

(* The order of the frames *)

IsSealed(f) == f.type \in {"text", "file", "init", "edit"}
Plainly == faults = 0 /\ terminals = {}

\* No slot is taken twice; and along one path, with no faults, the frames stand
\* in the order they were sealed in, the edits in the order of their numbers,
\* and what opens a message before what changes it.
Differ(f, g) == IsSealed(f) /\ IsSealed(g) => Unequal(f.slot, g.slot)
Follows(plain, f, g) ==
    /\ Differ(f, g)
    /\ plain => /\ IsSealed(f) /\ IsSealed(g) => Earlier(f.slot, g.slot)
                /\ f.type = "edit" /\ g.type = "edit" => f.arg < g.arg
                /\ Opening(g) /\ f.type \in {"edit", "delete"} => f.nonce # g.nonce
Ordered(plain, s) == \A i, j \in 1..Len(s) : i < j => Follows(plain, s[i], s[j])
Disjointed(s, t) == \A f \in In(s), g \in In(t) : Differ(f, g)

Lines == \A p \in Pages : /\ Ordered(Plainly, relay[p]) /\ Ordered(Plainly, direct[p])
                          /\ Disjointed(relay[p], direct[p])
OneLine == Plainly => \A p \in Pages : IF link THEN relay[p] = <<>> ELSE direct[p] = <<>>

LEMMA DifferBoth == \A f, g : Differ(f, g) => Differ(g, f)
BY DEF Differ, Unequal

LEMMA LessPlain ==
  ASSUME NEW y, NEW z, z => y, NEW s, Ordered(y, s)
  PROVE  Ordered(z, s)
BY DEF Ordered, Follows

LEMMA TakenLine ==
  ASSUME NEW s, IsSeq(s), s # <<>>, Ordered(Plainly, s), NEW t, Disjointed(s, t),
         NEW f, f = Head(s), NEW c, c = Tail(s)
  PROVE  /\ Ordered(Plainly, c) /\ Disjointed(c, t) /\ In(s) = In(c) \cup {f}
         /\ \A g \in In(c) : Follows(Plainly, f, g)
         /\ \A g \in In(t) : Differ(f, g)
<1>1. PICK S : s \in Seq(S)
  BY DEF IsSeq
<1>2. PICK m : m = Len(s)
  OBVIOUS
<1>3. /\ m \in Nat \ {0} /\ Len(c) = m - 1 /\ f = s[1]
      /\ \A i \in 1..(m - 1) : c[i] = s[i + 1] /\ i + 1 \in 1..m
  BY <1>1, <1>2, LenProperties, HeadTailProperties
<1>4. Ordered(Plainly, c)
  <2>1. ASSUME NEW i \in 1..(m - 1), NEW j \in 1..(m - 1), i < j
        PROVE  Follows(Plainly, c[i], c[j])
    <3>1. i + 1 < j + 1 /\ i + 1 \in 1..m /\ j + 1 \in 1..m
      BY <1>3, <2>1
    <3>2. Follows(Plainly, s[i + 1], s[j + 1])
      BY <1>2, <3>1 DEF Ordered
    <3> QED
      BY <1>3, <3>2
  <2> QED
    BY <1>3, <2>1 DEF Ordered
<1>5. In(c) \subseteq In(s) /\ f \in In(s)
  <2>1. 1 \in 1..m
    BY <1>3
  <2> QED
    BY <1>2, <1>3, <2>1 DEF In
<1>6. In(s) \subseteq In(c) \cup {f}
  <2>1. ASSUME NEW i \in 1..m, i # 1
        PROVE  s[i] \in In(c)
    <3>1. i - 1 \in 1..(m - 1) /\ (i - 1) + 1 = i
      BY <1>3, <2>1
    <3>2. c[i - 1] = s[i]
      BY <1>3, <3>1
    <3> QED
      BY <1>3, <3>1, <3>2 DEF In
  <2> QED
    BY <1>2, <1>3, <2>1 DEF In
<1>7. ASSUME NEW g \in In(c)
      PROVE  Follows(Plainly, f, g)
  <2>1. PICK i \in 1..(m - 1) : g = c[i]
    BY <1>3 DEF In
  <2>2. 1 \in 1..m /\ i + 1 \in 1..m /\ 1 < i + 1
    BY <1>3
  <2>3. Follows(Plainly, s[1], s[i + 1])
    BY <1>2, <2>2 DEF Ordered
  <2> QED
    BY <1>3, <2>1, <2>3
<1> QED
  BY <1>4, <1>5, <1>6, <1>7 DEF Disjointed

LEMMA AddedLine ==
  ASSUME NEW s, IsSeq(s), Ordered(Plainly, s), NEW t, Disjointed(s, t), NEW f,
         \A g \in In(s) : Follows(Plainly, g, f), \A g \in In(t) : Differ(f, g),
         NEW c, c = Append(s, f)
  PROVE  Ordered(Plainly, c) /\ Disjointed(c, t) /\ In(c) = In(s) \cup {f}
<1>1. PICK S : s \in Seq(S)
  BY DEF IsSeq
<1>2. s \in Seq(S \cup {f})
  BY <1>1, SeqMonotonic
<1>3. PICK m : m = Len(s)
  OBVIOUS
<1>4. m \in Nat /\ Len(c) = m + 1 /\ c[m + 1] = f /\ \A i \in 1..m : c[i] = s[i]
  BY <1>2, <1>3, LenProperties, AppendProperties
<1>5. In(c) = In(s) \cup {f}
  <2>1. \A i \in 1..(m + 1) : i \in 1..m \/ i = m + 1
    BY <1>4
  <2>2. m + 1 \in 1..(m + 1) /\ \A i \in 1..m : i \in 1..(m + 1)
    BY <1>4
  <2> QED
    BY <1>3, <1>4, <2>1, <2>2 DEF In
<1>6. ASSUME NEW i \in 1..(m + 1), NEW j \in 1..(m + 1), i < j
      PROVE  Follows(Plainly, c[i], c[j])
  <2>1. i \in 1..m /\ c[i] = s[i]
    BY <1>4, <1>6
  <2>2. CASE j \in 1..m
    BY <1>3, <1>4, <1>6, <2>1, <2>2 DEF Ordered
  <2>3. CASE j = m + 1
    BY <1>3, <1>4, <2>1, <2>3 DEF In
  <2> QED
    BY <1>4, <2>2, <2>3
<1>7. Ordered(Plainly, c)
  BY <1>4, <1>6 DEF Ordered
<1> QED
  BY <1>5, <1>7 DEF Disjointed

LEMMA ArrivesLine ==
  ASSUME Ways, Lines, OneLine, Plainly' => Plainly, link' = link,
         NEW p \in Pages, NEW f, Arrives(p, f)
  PROVE  /\ Lines' /\ OneLine'
         /\ Way(p) = Way(p)' \cup {f} /\ \A q \in Pages \ {p} : Way(q)' = Way(q)
         /\ \A g \in Way(p)' : Differ(f, g) /\ (Plainly => Follows(TRUE, f, g))
<1>2. In(<<>>) = {}
  BY NoEntries DEF EmptyStore
<1>3. ASSUME relay[p] # <<>>, f = Head(relay[p]), relay' = [relay EXCEPT ![p] = Tail(@)],
             direct' = direct
      PROVE  /\ Lines' /\ OneLine'
             /\ Way(p) = Way(p)' \cup {f} /\ \A q \in Pages \ {p} : Way(q)' = Way(q)
             /\ \A g \in Way(p)' : Differ(f, g) /\ (Plainly => Follows(TRUE, f, g))
  <2>1. /\ relay'[p] = Tail(relay[p]) /\ \A q \in Pages \ {p} : relay'[q] = relay[q]
    BY <1>3 DEF Ways
  <2>2. /\ Ordered(Plainly, relay'[p]) /\ Disjointed(relay'[p], direct[p])
        /\ In(relay[p]) = In(relay'[p]) \cup {f}
        /\ \A g \in In(relay'[p]) : Follows(Plainly, f, g)
        /\ \A g \in In(direct[p]) : Differ(f, g)
    <3>1. PICK s : s = relay[p]
      OBVIOUS
    <3>2. PICK t : t = direct[p]
      OBVIOUS
    <3>3. PICK c : c = Tail(s)
      OBVIOUS
    <3>4. IsSeq(s) /\ s # <<>> /\ Ordered(Plainly, s) /\ Disjointed(s, t) /\ f = Head(s)
      BY <1>3, <3>1, <3>2 DEF Ways, Lines
    <3>5. /\ Ordered(Plainly, c) /\ Disjointed(c, t) /\ In(s) = In(c) \cup {f}
          /\ \A g \in In(c) : Follows(Plainly, f, g)
          /\ \A g \in In(t) : Differ(f, g)
      <4>1. Ordered(Plainly, c)
        BY <3>3, <3>4, TakenLine
      <4>2. Disjointed(c, t)
        BY <3>3, <3>4, TakenLine
      <4>3. In(s) = In(c) \cup {f}
        BY <3>3, <3>4, TakenLine
      <4>4. \A g \in In(c) : Follows(Plainly, f, g)
        BY <3>3, <3>4, TakenLine
      <4>5. \A g \in In(t) : Differ(f, g)
        BY <3>3, <3>4, TakenLine
      <4> QED
        BY <4>1, <4>2, <4>3, <4>4, <4>5
    <3>6. relay'[p] = c
      BY <2>1, <3>1, <3>3
    <3> QED
      BY <3>1, <3>2, <3>5, <3>6
  <2>3. \A q \in Pages : Ordered(Plainly, relay'[q]) /\ Ordered(Plainly, direct'[q])
                         /\ Disjointed(relay'[q], direct'[q])
    BY <1>3, <2>1, <2>2 DEF Lines
  <2>4. Lines'
    BY <2>3, LessPlain DEF Lines
  <2>5. OneLine'
    BY <1>3, <2>1 DEF OneLine
  <2>6. Way(p) = Way(p)' \cup {f} /\ \A q \in Pages \ {p} : Way(q)' = Way(q)
    BY <1>3, <2>1, <2>2 DEF Way
  <2>7. Plainly => direct[p] = <<>>
    BY <1>3 DEF OneLine
  <2>8. \A g \in Way(p)' : Differ(f, g) /\ (Plainly => Follows(TRUE, f, g))
    BY <1>2, <1>3, <2>2, <2>7 DEF Way, Follows
  <2> QED
    BY <2>4, <2>5, <2>6, <2>8
<1>4. ASSUME direct[p] # <<>>, f = Head(direct[p]), direct' = [direct EXCEPT ![p] = Tail(@)],
             relay' = relay
      PROVE  /\ Lines' /\ OneLine'
             /\ Way(p) = Way(p)' \cup {f} /\ \A q \in Pages \ {p} : Way(q)' = Way(q)
             /\ \A g \in Way(p)' : Differ(f, g) /\ (Plainly => Follows(TRUE, f, g))
  <2>1. /\ direct'[p] = Tail(direct[p]) /\ \A q \in Pages \ {p} : direct'[q] = direct[q]
    BY <1>4 DEF Ways
  <2>2. Disjointed(direct[p], relay[p])
    BY DifferBoth DEF Lines, Disjointed
  <2>3. /\ Ordered(Plainly, direct'[p]) /\ Disjointed(direct'[p], relay[p])
        /\ In(direct[p]) = In(direct'[p]) \cup {f}
        /\ \A g \in In(direct'[p]) : Follows(Plainly, f, g)
        /\ \A g \in In(relay[p]) : Differ(f, g)
    <3>1. PICK s : s = direct[p]
      OBVIOUS
    <3>2. PICK t : t = relay[p]
      OBVIOUS
    <3>3. PICK c : c = Tail(s)
      OBVIOUS
    <3>4. IsSeq(s) /\ s # <<>> /\ Ordered(Plainly, s) /\ Disjointed(s, t) /\ f = Head(s)
      BY <1>4, <2>2, <3>1, <3>2 DEF Ways, Lines
    <3>5. /\ Ordered(Plainly, c) /\ Disjointed(c, t) /\ In(s) = In(c) \cup {f}
          /\ \A g \in In(c) : Follows(Plainly, f, g)
          /\ \A g \in In(t) : Differ(f, g)
      <4>1. Ordered(Plainly, c)
        BY <3>3, <3>4, TakenLine
      <4>2. Disjointed(c, t)
        BY <3>3, <3>4, TakenLine
      <4>3. In(s) = In(c) \cup {f}
        BY <3>3, <3>4, TakenLine
      <4>4. \A g \in In(c) : Follows(Plainly, f, g)
        BY <3>3, <3>4, TakenLine
      <4>5. \A g \in In(t) : Differ(f, g)
        BY <3>3, <3>4, TakenLine
      <4> QED
        BY <4>1, <4>2, <4>3, <4>4, <4>5
    <3>6. direct'[p] = c
      BY <2>1, <3>1, <3>3
    <3> QED
      BY <3>1, <3>2, <3>5, <3>6
  <2>4. Disjointed(relay[p], direct'[p])
    BY <2>3, DifferBoth DEF Disjointed
  <2>5. \A q \in Pages : Ordered(Plainly, relay'[q]) /\ Ordered(Plainly, direct'[q])
                         /\ Disjointed(relay'[q], direct'[q])
    BY <1>4, <2>1, <2>3, <2>4 DEF Lines
  <2>6. Lines'
    BY <2>5, LessPlain DEF Lines
  <2>7. OneLine'
    BY <1>4, <2>1 DEF OneLine
  <2>8. Way(p) = Way(p)' \cup {f} /\ \A q \in Pages \ {p} : Way(q)' = Way(q)
    BY <1>4, <2>1, <2>3 DEF Way
  <2>9. Plainly => relay[p] = <<>>
    BY <1>4 DEF OneLine
  <2>10. \A g \in Way(p)' : Differ(f, g) /\ (Plainly => Follows(TRUE, f, g))
    BY <1>2, <1>4, <2>3, <2>9 DEF Way, Follows
  <2> QED
    BY <2>6, <2>7, <2>8, <2>10
<1> QED
  BY <1>3, <1>4 DEF Arrives

LEMMA DispatchLine ==
  ASSUME Ways, Lines, OneLine, Plainly' => Plainly, link' = link,
         NEW p \in Pages, NEW f, dispatch(p, f) \/ dispatchDirect(p, f),
         \A g \in Way(Other(p)) : Follows(Plainly, g, f)
  PROVE  /\ Lines' /\ OneLine'
         /\ \A q \in Pages : Way(q)' = IF q = Other(p) THEN Way(q) \cup {f} ELSE Way(q)
<1>1. PICK r \in Pages : r = Other(p)
  BY OtherPage
<1>2. ASSUME relay' = [relay EXCEPT ![r] = Append(@, f)], direct' = direct, ~link
      PROVE  /\ Lines' /\ OneLine'
             /\ \A q \in Pages : Way(q)' = IF q = r THEN Way(q) \cup {f} ELSE Way(q)
  <2>1. /\ relay'[r] = Append(relay[r], f) /\ \A q \in Pages \ {r} : relay'[q] = relay[q]
    BY <1>2 DEF Ways
  <2>2. /\ \A g \in In(relay[r]) : Follows(Plainly, g, f)
        /\ \A g \in In(direct[r]) : Differ(f, g)
    BY <1>1, DifferBoth DEF Way, Follows
  <2>3. /\ Ordered(Plainly, relay'[r]) /\ Disjointed(relay'[r], direct[r])
        /\ In(relay'[r]) = In(relay[r]) \cup {f}
    <3>1. PICK s : s = relay[r]
      OBVIOUS
    <3>2. PICK t : t = direct[r]
      OBVIOUS
    <3>3. PICK c : c = Append(s, f)
      OBVIOUS
    <3>4. /\ IsSeq(s) /\ Ordered(Plainly, s) /\ Disjointed(s, t)
          /\ \A g \in In(s) : Follows(Plainly, g, f)
          /\ \A g \in In(t) : Differ(f, g)
      BY <2>2, <3>1, <3>2 DEF Ways, Lines
    <3>5. Ordered(Plainly, c) /\ Disjointed(c, t) /\ In(c) = In(s) \cup {f}
      BY <3>3, <3>4, AddedLine
    <3>6. relay'[r] = c
      BY <2>1, <3>1, <3>3
    <3> QED
      BY <3>1, <3>2, <3>5, <3>6
  <2>4. \A q \in Pages : Ordered(Plainly, relay'[q]) /\ Ordered(Plainly, direct'[q])
                         /\ Disjointed(relay'[q], direct'[q])
    BY <1>2, <2>1, <2>3 DEF Lines
  <2>5. Lines'
    BY <2>4, LessPlain DEF Lines
  <2>6. OneLine'
    BY <1>2 DEF OneLine
  <2>7. \A q \in Pages : Way(q)' = IF q = r THEN Way(q) \cup {f} ELSE Way(q)
    BY <1>2, <2>1, <2>3 DEF Way
  <2> QED
    BY <2>5, <2>6, <2>7
<1>3. ASSUME direct' = [direct EXCEPT ![r] = Append(@, f)], relay' = relay, link
      PROVE  /\ Lines' /\ OneLine'
             /\ \A q \in Pages : Way(q)' = IF q = r THEN Way(q) \cup {f} ELSE Way(q)
  <2>1. /\ direct'[r] = Append(direct[r], f) /\ \A q \in Pages \ {r} : direct'[q] = direct[q]
    BY <1>3 DEF Ways
  <2>2. /\ \A g \in In(direct[r]) : Follows(Plainly, g, f)
        /\ \A g \in In(relay[r]) : Differ(f, g)
    BY <1>1, DifferBoth DEF Way, Follows
  <2>3. Disjointed(direct[r], relay[r])
    BY DifferBoth DEF Lines, Disjointed
  <2>4. /\ Ordered(Plainly, direct'[r]) /\ Disjointed(direct'[r], relay[r])
        /\ In(direct'[r]) = In(direct[r]) \cup {f}
    <3>1. PICK s : s = direct[r]
      OBVIOUS
    <3>2. PICK t : t = relay[r]
      OBVIOUS
    <3>3. PICK c : c = Append(s, f)
      OBVIOUS
    <3>4. /\ IsSeq(s) /\ Ordered(Plainly, s) /\ Disjointed(s, t)
          /\ \A g \in In(s) : Follows(Plainly, g, f)
          /\ \A g \in In(t) : Differ(f, g)
      BY <2>2, <2>3, <3>1, <3>2 DEF Ways, Lines
    <3>5. Ordered(Plainly, c) /\ Disjointed(c, t) /\ In(c) = In(s) \cup {f}
      BY <3>3, <3>4, AddedLine
    <3>6. direct'[r] = c
      BY <2>1, <3>1, <3>3
    <3> QED
      BY <3>1, <3>2, <3>5, <3>6
  <2>5. Disjointed(relay[r], direct'[r])
    BY <2>4, DifferBoth DEF Disjointed
  <2>6. \A q \in Pages : Ordered(Plainly, relay'[q]) /\ Ordered(Plainly, direct'[q])
                         /\ Disjointed(relay'[q], direct'[q])
    BY <1>3, <2>1, <2>4, <2>5 DEF Lines
  <2>7. Lines'
    BY <2>6, LessPlain DEF Lines
  <2>8. OneLine'
    BY <1>3 DEF OneLine
  <2>9. \A q \in Pages : Way(q)' = IF q = r THEN Way(q) \cup {f} ELSE Way(q)
    BY <1>3, <2>1, <2>4 DEF Way
  <2> QED
    BY <2>7, <2>8, <2>9
<1> QED
  BY <1>1, <1>2, <1>3 DEF dispatch, dispatchDirect, allConnected

(* What the page at the end of a way can open *)

\* All that is on the way from the end s of page o to the end r can be opened.
Linked(o, s, r, W) == /\ Tied(s, r) /\ Chan(o, s, r)
                      /\ \A f \in W : IsSealed(f) => Reaches(s, r, f.slot)

\* Nothing is lost: no key is kept, and what r has not come to is on the way.
Expected(s, r, W) ==
    /\ Len(r.MKSKIPPED) = 0
    /\ \A d, k : Awaits(s, r, d, k) =>
          \E f \in W : IsSealed(f) /\ f.slot.dh = d /\ f.slot.n = k

LEMMA NoneKept ==
  ASSUME NEW r, Len(r.MKSKIPPED) = 0, NEW h
  PROVE  ~Holds(In(r.MKSKIPPED), h)
BY DEF Holds, In

LEMMA TiedBoth == \A s, r : Tied(s, r) => Tied(r, s)
BY DEF Tied

LEMMA SealLinks ==
  ASSUME NEW s, RatchetOk(s), NEW r, RatchetOk(r), NEW o, NEW u, NEW W, NEW V,
         Linked(o, s, r, W), Linked(u, r, s, V),
         NEW t, t = Advanced(s), NEW f, IsSealed(f), f.slot = Slot(s), NEW all \in Nat
  PROVE  /\ Linked(o, t, r, W \cup {f}) /\ Linked(u, r, t, V)
         /\ Roomy(s, r, all) => Roomy(t, r, all + 1)
         /\ Roomy(r, s, all) => Roomy(r, t, all + 1)
         /\ Expected(s, r, W) => Expected(t, r, W \cup {f})
         /\ Expected(r, s, V) => Expected(r, t, V)
         /\ \A g \in W : Differ(g, f)
         /\ Expected(s, r, W) => \A g \in W : IsSealed(g) => Earlier(g.slot, f.slot)
<1>1. PICK h : h = Slot(s)
  OBVIOUS
<1>2. f.slot = h
  BY <1>1
<1>3. /\ Tied(t, r) /\ Chan(o, t, r) /\ Chan(u, r, t)
      /\ \A g : Reaches(s, r, g) => Reaches(t, r, g) /\ Unequal(g, h)
      /\ \A g : Reaches(r, s, g) => Reaches(r, t, g)
      /\ Reaches(t, r, h)
      /\ Lag(t, r) = Lag(s, r) + 1 /\ Lag(r, t) = Lag(r, s)
      /\ \A d, k : Awaits(t, r, d, k) => Awaits(s, r, d, k) \/ (d = h.dh /\ k = h.n)
      /\ \A d, k : Awaits(r, t, d, k) => Awaits(r, s, d, k)
      /\ \A g : Reaches(s, r, g) /\ ~Holds(In(r.MKSKIPPED), g) => Earlier(g, h)
      /\ t.MKSKIPPED = s.MKSKIPPED
  BY <1>1, Seals DEF Linked
<1>4. Linked(o, t, r, W \cup {f})
  <2>1. \A g \in W \cup {f} : IsSealed(g) => Reaches(t, r, g.slot)
    BY <1>2, <1>3 DEF Linked
  <2> QED
    BY <1>3, <2>1 DEF Linked
<1>5. Linked(u, r, t, V)
  BY <1>3, TiedBoth DEF Linked
<1>6. ASSUME Roomy(s, r, all)
      PROVE  Roomy(t, r, all + 1)
  <2>1. PICK l \in Nat : l = Lag(s, r)
    BY LagFacts DEF Linked
  <2>2. PICK m \in Nat : m = Len(r.MKSKIPPED)
    BY LagFacts DEF Linked
  <2>3. Lag(t, r) = l + 1
    BY <1>3, <2>1
  <2>4. l <= all /\ (m = 0 \/ m + l + 1 <= all)
    BY <1>6, <2>1, <2>2 DEF Roomy
  <2>5. l + 1 <= all + 1 /\ (m = 0 \/ m + (l + 1) + 1 <= all + 1)
    BY <2>4
  <2> QED
    BY <2>2, <2>3, <2>5 DEF Roomy
<1>7. ASSUME Roomy(r, s, all)
      PROVE  Roomy(r, t, all + 1)
  <2>1. PICK l \in Nat : l = Lag(r, s)
    BY LagFacts DEF Linked
  <2>2. PICK m \in Nat : m = Len(s.MKSKIPPED)
    BY LagFacts DEF Linked
  <2>3. Lag(r, t) = l /\ Len(t.MKSKIPPED) = m
    BY <1>3, <2>1, <2>2
  <2>4. l <= all /\ (m = 0 \/ m + l + 1 <= all)
    BY <1>7, <2>1, <2>2 DEF Roomy
  <2>5. l <= all + 1 /\ (m = 0 \/ m + l + 1 <= all + 1)
    BY <2>4
  <2> QED
    BY <2>3, <2>5 DEF Roomy
<1>8. ASSUME Expected(s, r, W)
      PROVE  Expected(t, r, W \cup {f})
  BY <1>2, <1>3, <1>8 DEF Expected
<1>9. Expected(r, s, V) => Expected(r, t, V)
  BY <1>3 DEF Expected
<1>10. \A g \in W : Differ(g, f)
  BY <1>2, <1>3 DEF Linked, Differ
<1>11. ASSUME Expected(s, r, W), NEW g \in W, IsSealed(g)
       PROVE  Earlier(g.slot, f.slot)
  <2>1. ~Holds(In(r.MKSKIPPED), g.slot)
    BY <1>11, NoneKept DEF Expected
  <2> QED
    BY <1>2, <1>3, <1>11, <2>1 DEF Linked
<1> QED
  BY <1>4, <1>5, <1>6, <1>7, <1>8, <1>9, <1>10, <1>11

\* The first of the frames on one path finds no gap before it.
LEMMA NoGapFirst ==
  ASSUME NEW s, RatchetOk(s), NEW r, RatchetOk(r), NEW o, NEW W, NEW X,
         Linked(o, s, r, W), Expected(s, r, W), NEW f \in W, IsSealed(f), W \subseteq X \cup {f},
         \A g \in X : Follows(TRUE, f, g)
  PROVE  Missing(r, f.slot) = 0 /\ ~Holds(In(r.MKSKIPPED), f.slot)
<1>1. PICK h : h = f.slot
  OBVIOUS
<1>2. ~Holds(In(r.MKSKIPPED), h)
  BY NoneKept DEF Expected
<1>3. SlotOk(h) /\ (Present(s, r, h) \/ Coming(s, r, h))
  BY <1>1, <1>2 DEF Linked, Reaches
<1>4. /\ r.Nr \in Nat /\ s.PN \in Nat /\ s.Ns \in Nat /\ h.n \in Nat /\ h.pn \in Nat
      /\ r.DHr[2] \in Nat /\ s.DHs[2] \in Nat /\ (r.DHr # s.DHs => r.DHr[2] < s.DHs[2])
  BY <1>3, LagFacts DEF SlotOk, Linked
<1>5. ASSUME NEW d, NEW k, Awaits(s, r, d, k), d # h.dh \/ k # h.n
      PROVE  h.dh[2] < d[2] \/ (h.dh = d /\ h.n < k)
  <2>1. PICK g \in W : IsSealed(g) /\ g.slot.dh = d /\ g.slot.n = k
    BY <1>5 DEF Expected
  <2>2. g \in X
    BY <1>1, <1>5, <2>1
  <2>3. Earlier(h, g.slot)
    BY <1>1, <2>1, <2>2 DEF Follows
  <2> QED
    BY <2>1, <2>3 DEF Earlier
<1>6. CASE Present(s, r, h)
  <2>1. h.dh = r.DHr /\ r.Nr <= h.n /\ h.n < Reached(s, r)
    BY <1>6 DEF Present
  <2>2. r.Nr < Reached(s, r)
    BY <1>4, <2>1 DEF Reached
  <2>3. Awaits(s, r, r.DHr, r.Nr)
    BY <1>4, <2>2 DEF Awaits
  <2>4. h.n = r.Nr
    BY <1>4, <1>5, <2>1, <2>3
  <2> QED
    BY <1>1, <1>2, <1>4, <2>1, <2>4 DEF Missing
<1>7. CASE Coming(s, r, h)
  <2>1. h.dh = s.DHs /\ r.DHr # s.DHs /\ h.n < s.Ns /\ h.pn = s.PN
    BY <1>7 DEF Coming
  <2>2. Awaits(s, r, h.dh, 0)
    BY <1>4, <2>1 DEF Awaits
  <2>3. h.n = 0
    BY <1>4, <1>5, <2>1, <2>2
  <2>4. h.pn = r.Nr
    <3>1. r.Nr <= s.PN
      BY <2>1 DEF Linked, Chan, Reached
    <3>2. ASSUME r.Nr < s.PN
          PROVE  FALSE
      <4>1. Awaits(s, r, r.DHr, r.Nr)
        BY <1>4, <2>1, <3>2 DEF Awaits, Reached
      <4> QED
        BY <1>4, <1>5, <2>1, <4>1
    <3> QED
      BY <1>4, <2>1, <3>1, <3>2
  <2> QED
    BY <1>1, <1>2, <1>4, <2>1, <2>3, <2>4 DEF Missing
<1> QED
  BY <1>3, <1>6, <1>7

\* What opening the frame f, which leaves X of W, does to the channel.
Opened(o, u, s, r, W, V, f, X, all, d) ==
    /\ d.ok
    /\ Linked(o, s, d.s, X) /\ Linked(u, d.s, s, V)
    /\ Roomy(s, r, all) => Roomy(s, d.s, all)
    /\ Roomy(r, s, all) => Roomy(d.s, s, all)
    /\ Expected(s, r, W) /\ (\A g \in X : Follows(TRUE, f, g)) => Expected(s, d.s, X)
    /\ Expected(r, s, V) => Expected(d.s, s, V)

LEMMA OpenLinks ==
  ASSUME NEW s, RatchetOk(s), NEW r, RatchetOk(r), NEW o, NEW u, NEW W, NEW V,
         Linked(o, s, r, W), Linked(u, r, s, V), NEW f \in W, IsSealed(f),
         NEW X, X \subseteq W, W \subseteq X \cup {f}, \A g \in X : Differ(f, g),
         NEW all \in 0..MaxSealed, NEW d, d = decrypt(r, f.slot),
         \/ Few /\ Roomy(s, r, all)
         \/ Expected(s, r, W) /\ \A g \in X : Follows(TRUE, f, g)
  PROVE  Opened(o, u, s, r, W, V, f, X, all, d)
<1>1. PICK h : h = f.slot
  OBVIOUS
<1>2. PICK t : t = d.s
  OBVIOUS
<1>3. /\ Reaches(s, r, h) /\ Chan(o, s, r) /\ Chan(u, r, s) /\ Tied(s, r) /\ d = decrypt(r, h)
  BY <1>1 DEF Linked
<1>4. Holds(In(r.MKSKIPPED), h) \/ RoomFor(r, h)
  <2>1. CASE Few /\ Roomy(s, r, all)
    BY <1>3, <2>1, FewHasRoom
  <2>2. CASE Expected(s, r, W) /\ \A g \in X : Follows(TRUE, f, g)
    <3>1. Missing(r, f.slot) = 0
      BY <2>2, NoGapFirst
    <3>2. Len(r.MKSKIPPED) = 0
      BY <2>2 DEF Expected
    <3> QED
      BY <1>1, <3>1, <3>2, SkipBounds DEF RoomFor
  <2> QED
    BY <2>1, <2>2
<1>5. /\ d.ok /\ Unlocks(o, u, s, r, t, h)
      /\ Holds(In(r.MKSKIPPED), h) \/ Len(t.MKSKIPPED) <= Len(r.MKSKIPPED) + Missing(r, h)
  BY <1>2, <1>3, <1>4, Openable
<1>6. Linked(o, s, t, X)
  <2>1. Tied(s, t)
    BY <1>5 DEF Unlocks, Tied
  <2>2. \A g \in X : IsSealed(g) => Reaches(s, t, g.slot)
    BY <1>1, <1>5 DEF Linked, Differ, Unequal, Unlocks
  <2>3. Chan(o, s, t)
    BY <1>5 DEF Unlocks
  <2> QED
    BY <2>1, <2>2, <2>3 DEF Linked
<1>7. Linked(u, t, s, V)
  <2>1. Tied(t, s)
    BY <1>5 DEF Unlocks, Tied
  <2> QED
    BY <1>5, <2>1 DEF Linked, Unlocks
<1>8. Roomy(s, r, all) => Roomy(s, t, all)
  <2>1. all \in Nat
    BY Bounds
  <2> QED
    BY <1>3, <1>5, <2>1, StillRoomy
<1>9. Roomy(r, s, all) => Roomy(t, s, all)
  BY <1>5 DEF Unlocks, Roomy
<1>10. ASSUME Expected(s, r, W), \A g \in X : Follows(TRUE, f, g)
       PROVE  Expected(s, t, X)
  <2>1. Missing(r, h) = 0 /\ ~Holds(In(r.MKSKIPPED), h) /\ Len(r.MKSKIPPED) = 0
    <3>1. Missing(r, f.slot) = 0 /\ ~Holds(In(r.MKSKIPPED), f.slot)
      BY <1>10, NoGapFirst
    <3>2. Len(r.MKSKIPPED) = 0
      BY <1>10 DEF Expected
    <3> QED
      BY <1>1, <3>1, <3>2
  <2>2. Len(t.MKSKIPPED) = 0
    BY <1>5, <2>1 DEF Unlocks
  <2>3. ASSUME NEW a, NEW k, Awaits(s, t, a, k)
        PROVE  \E g \in X : IsSealed(g) /\ g.slot.dh = a /\ g.slot.n = k
    <3>1. Awaits(s, r, a, k) /\ (a # h.dh \/ k # h.n)
      BY <1>5, <2>3 DEF Unlocks
    <3>2. PICK g \in W : IsSealed(g) /\ g.slot.dh = a /\ g.slot.n = k
      BY <1>10, <3>1 DEF Expected
    <3>3. g \in X
      BY <1>1, <3>1, <3>2
    <3> QED
      BY <3>2, <3>3
  <2> QED
    BY <2>2, <2>3 DEF Expected
<1>11. ASSUME Expected(r, s, V)
       PROVE  Expected(t, s, V)
  BY <1>5, <1>11 DEF Expected, Unlocks
<1> QED
  BY <1>2, <1>5, <1>6, <1>7, <1>8, <1>9, <1>10, <1>11 DEF Opened

(* The two pages *)

Joined ==
    /\ Lines /\ OneLine
    /\ \A p \in Pages :
         /\ Linked(Other(p), rat[Other(p)], rat[p], Way(p))
         /\ Few => Roomy(rat[Other(p)], rat[p], sealed)
         /\ Plainly => Expected(rat[Other(p)], rat[p], Way(p))

NumberOk(f, all) == f.nonce \in 0..all /\ (f.type = "edit" => f.arg \in 0..all)

InStep ==
    /\ faults \in Nat
    /\ \A p \in Pages : \A f \in Way(p) : (~IsSealed(f) => f.slot = NoSlot) /\ NumberOk(f, sealed)
    /\ Few \/ Plainly => Joined

\* Both directions of the channel, seen from the page p.
Both(p, s, r, W, V, all) ==
    /\ Linked(p, s, r, W) /\ Linked(Other(p), r, s, V)
    /\ Few => Roomy(s, r, all) /\ Roomy(r, s, all)

LEMMA JoinedIs ==
  ASSUME Joined, NEW p \in Pages
  PROVE  /\ Both(p, rat[p], rat[Other(p)], Way(Other(p)), Way(p), sealed)
         /\ Plainly => /\ Expected(rat[p], rat[Other(p)], Way(Other(p)))
                       /\ Expected(rat[Other(p)], rat[p], Way(p))
<1>1. Other(p) \in Pages /\ Other(Other(p)) = p
  BY OtherPage
<1> QED
  BY <1>1 DEF Joined, Both

LEMMA JoinedSo ==
  ASSUME NEW p \in Pages, Lines', OneLine',
         Both(p, rat'[p], rat'[Other(p)], Way(Other(p))', Way(p)', sealed'),
         Plainly' => /\ Expected(rat'[p], rat'[Other(p)], Way(Other(p))')
                     /\ Expected(rat'[Other(p)], rat'[p], Way(p)')
  PROVE  Joined'
<1>1. PICK o \in Pages : o = Other(p)
  BY OtherPage
<1>2. Other(o) = p /\ \A q \in Pages : q = p \/ q = o
  BY <1>1, OtherPage DEF Pages, Other
<1>3. /\ Linked(Other(p), rat'[Other(p)], rat'[p], Way(p)')
      /\ Few => Roomy(rat'[Other(p)], rat'[p], sealed')
      /\ Plainly' => Expected(rat'[Other(p)], rat'[p], Way(p)')
  BY DEF Both
<1>4. /\ Linked(Other(o), rat'[Other(o)], rat'[o], Way(o)')
      /\ Few => Roomy(rat'[Other(o)], rat'[o], sealed')
      /\ Plainly' => Expected(rat'[Other(o)], rat'[o], Way(o)')
  BY <1>1, <1>2 DEF Both
<1>5. \A q \in Pages :
        /\ Linked(Other(q), rat'[Other(q)], rat'[q], Way(q)')
        /\ Few => Roomy(rat'[Other(q)], rat'[q], sealed')
        /\ Plainly' => Expected(rat'[Other(q)], rat'[q], Way(q)')
  BY <1>2, <1>3, <1>4
<1> QED
  BY <1>5 DEF Joined

LEMMA InStepStarts == Init => InStep
<1> SUFFICES ASSUME Init
             PROVE  InStep
  OBVIOUS
<1>1. \A p \in Pages : relay[p] = <<>> /\ direct[p] = <<>>
  BY DEF Init
<1>2. In(<<>>) = {} /\ Len(<<>>) = 0
  BY NoEntries DEF EmptyStore
<1>3. \A p \in Pages : Way(p) = {}
  BY <1>1, <1>2 DEF Way
<1>4. Lines /\ OneLine
  BY <1>1, <1>2 DEF Lines, OneLine, Ordered, Disjointed
<1>5. PICK a : a = rat[Alice]
  OBVIOUS
<1>6. PICK b : b = rat[Bob]
  OBVIOUS
<1>7. PICK ra : ra = kdfRK(Null, sharedKey(KeyPair(Alice, 0), KeyPair(Bob, 0)))
  OBVIOUS
<1>8. PICK rb : rb = kdfRK(Null, sharedKey(KeyPair(Bob, 0), KeyPair(Alice, 0)))
  OBVIOUS
<1>9. ra = rb
  BY <1>7, <1>8 DEF sharedKey
<1>10. a = [RK |-> ra, CKs |-> ra, CKr |-> Null, DHs |-> KeyPair(Alice, 0),
            DHr |-> KeyPair(Bob, 0), Ns |-> 0, Nr |-> 0, PN |-> 0, MKSKIPPED |-> <<>>]
  BY <1>5, <1>7 DEF Init, Pages, initAlice, Null
<1>11. b = [RK |-> rb, CKs |-> Null, CKr |-> rb, DHs |-> KeyPair(Bob, 0),
            DHr |-> KeyPair(Alice, 0), Ns |-> 0, Nr |-> 0, PN |-> 0, MKSKIPPED |-> <<>>]
  <2>1. PICK x : x = initAlice(Bob, Alice)
    OBVIOUS
  <2>2. x = [RK |-> rb, CKs |-> rb, CKr |-> Null, DHs |-> KeyPair(Bob, 0),
             DHr |-> KeyPair(Alice, 0), Ns |-> 0, Nr |-> 0, PN |-> 0, MKSKIPPED |-> <<>>]
    BY <1>8, <2>1 DEF initAlice, Null
  <2>3. b = [x EXCEPT !.CKs = Null, !.CKr = rb]
    BY <1>6, <1>8, <2>1, PagesDiffer DEF Init, Pages, initBob, Null
  <2> QED
    BY <2>2, <2>3
<1>12. ra # Null
  <2>1. PICK dh : dh = sharedKey(KeyPair(Alice, 0), KeyPair(Bob, 0))
    OBVIOUS
  <2>2. IsSeq(Null) /\ Len(Null) = 0
    <3>1. Null \in Seq({}) /\ Len(Null) = 0
      BY DEF Null
    <3> QED
      BY <3>1 DEF IsSeq
  <2>3. Len(ra) = 1
    BY <1>7, <2>1, <2>2, Derives
  <2> QED
    BY <2>2, <2>3
<1>13. Fresh(a, b)
  BY <1>9, <1>10, <1>11, <1>12 DEF Fresh
<1>14. Tied(a, b) /\ Tied(b, a)
  BY <1>13 DEF Tied
<1>15. /\ KeyPair(Alice, 0) = <<Alice, 0>> /\ KeyPair(Bob, 0) = <<Bob, 0>>
       /\ Alice # Bob
  BY PagesDiffer DEF KeyPair
<1>16. ASSUME NEW o, NEW s, NEW r, s.DHs = <<o, 0>>, r.DHr = <<o, 0>>, s.Ns = 0, r.Nr = 0,
              r.MKSKIPPED = <<>>
       PROVE  Chan(o, s, r) /\ Lag(s, r) = 0 /\ \A d, k : ~Awaits(s, r, d, k)
  <2>1. OneKey({}) /\ Below({}, r.DHr, r.Nr)
    BY DEF OneKey, Below
  <2>2. Reached(s, r) = 0 /\ Lag(s, r) = 0
    BY <1>16 DEF Reached, Lag
  <2>3. s.DHs[2] = 0 /\ r.DHr[2] = 0
    BY <1>16
  <2>4. Chan(o, s, r)
    <3>1. s.DHs = <<o, s.DHs[2]>> /\ r.DHr = <<o, r.DHr[2]>>
      BY <1>16, <2>3
    <3>2. s.DHs[2] \in Nat /\ r.DHr[2] \in Nat /\ r.DHr[2] <= s.DHs[2]
      BY <2>3
    <3>3. r.Nr <= Reached(s, r)
      BY <1>16, <2>2
    <3>4. In(r.MKSKIPPED) = {}
      BY <1>2, <1>16
    <3> QED
      BY <2>1, <3>1, <3>2, <3>3, <3>4 DEF Chan
  <2>5. \A d, k : ~Awaits(s, r, d, k)
    BY <1>16, <2>2 DEF Awaits
  <2> QED
    BY <2>2, <2>4, <2>5
<1>17. Chan(Alice, a, b) /\ Lag(a, b) = 0 /\ \A d, k : ~Awaits(a, b, d, k)
  BY <1>10, <1>11, <1>15, <1>16
<1>18. Chan(Bob, b, a) /\ Lag(b, a) = 0 /\ \A d, k : ~Awaits(b, a, d, k)
  BY <1>10, <1>11, <1>15, <1>16
<1>19. Len(a.MKSKIPPED) = 0 /\ Len(b.MKSKIPPED) = 0 /\ sealed = 0 /\ faults = 0
  BY <1>2, <1>10, <1>11 DEF Init
<1>20. Linked(Alice, a, b, {}) /\ Linked(Bob, b, a, {})
  BY <1>14, <1>17, <1>18 DEF Linked
<1>21. Roomy(a, b, sealed) /\ Roomy(b, a, sealed)
  BY <1>17, <1>18, <1>19 DEF Roomy
<1>22. Expected(a, b, {}) /\ Expected(b, a, {})
  BY <1>17, <1>18, <1>19 DEF Expected
<1>23. Other(Alice) = Bob /\ Other(Bob) = Alice /\ \A p \in Pages : p = Alice \/ p = Bob
  BY PagesDiffer DEF Other, Pages
<1>24. ASSUME NEW p \in Pages
       PROVE  /\ Linked(Other(p), rat[Other(p)], rat[p], Way(p))
              /\ Roomy(rat[Other(p)], rat[p], sealed)
              /\ Expected(rat[Other(p)], rat[p], Way(p))
  BY <1>3, <1>5, <1>6, <1>20, <1>21, <1>22, <1>23
<1>25. Joined
  BY <1>4, <1>24 DEF Joined
<1> QED
  BY <1>3, <1>19, <1>25 DEF InStep

\* A page seals a frame and sends it.
LEMMA SealInStep ==
  ASSUME Ways, Secrecy, InStep, sealed \in 0..MaxSealed, NEW p \in Pages, NEW f, IsSealed(f),
         f.slot = Slot(rat[p]), Seal(p), dispatch(p, f) \/ dispatchDirect(p, f),
         link' = link, faults' = faults, terminals' = terminals,
         f.nonce \in 0..sealed', f.type = "edit" => f.arg = sealed',
         Opening(f) => f.nonce = sealed'
  PROVE  InStep'
<1>1. PICK o \in Pages : o = Other(p) /\ p # o
  BY OtherPage
<1>2. PICK all \in Nat : all = sealed /\ sealed' = all + 1
  BY Bounds DEF Seal
<1>3. PICK s : s = rat[p]
  OBVIOUS
<1>4. PICK r : r = rat[o]
  OBVIOUS
<1>5. PICK t : t = Advanced(s)
  OBVIOUS
<1>6. RatchetOk(s) /\ RatchetOk(r)
  BY <1>3, <1>4 DEF Secrecy
<1>7. rat'[p] = t /\ rat'[o] = r
  BY <1>1, <1>3, <1>4, <1>5 DEF Seal, Secrecy
<1>8. \A q \in Pages : Way(q)' \subseteq Way(q) \cup {f}
  BY CarriesWay
<1>9. \A q \in Pages : \A g \in Way(q)' : (~IsSealed(g) => g.slot = NoSlot) /\ NumberOk(g, sealed')
  <2>1. NumberOk(f, sealed')
    BY <1>2 DEF NumberOk
  <2>2. \A q \in Pages : \A g \in Way(q) : (~IsSealed(g) => g.slot = NoSlot) /\ NumberOk(g, all)
    BY <1>2 DEF InStep
  <2>3. ASSUME NEW g, NumberOk(g, all)
        PROVE  NumberOk(g, sealed')
    BY <1>2, <2>3 DEF NumberOk
  <2> QED
    BY <1>8, <2>1, <2>2, <2>3
<1>10. ASSUME Few \/ Plainly'
       PROVE  Joined'
  <2>1. (Plainly' <=> Plainly) /\ Joined
    BY <1>10 DEF Plainly, InStep
  <2>2. PICK W : W = Way(o)
    OBVIOUS
  <2>3. PICK V : V = Way(p)
    OBVIOUS
  <2>4. /\ Linked(p, s, r, W) /\ Linked(o, r, s, V)
        /\ Few => Roomy(s, r, all) /\ Roomy(r, s, all)
        /\ Plainly => Expected(s, r, W) /\ Expected(r, s, V)
    BY <1>1, <1>2, <1>3, <1>4, <2>1, <2>2, <2>3, JoinedIs DEF Both
  <2>5. f.slot = Slot(s)
    BY <1>3
  <2>6. /\ Linked(p, t, r, W \cup {f}) /\ Linked(o, r, t, V)
        /\ Roomy(s, r, all) => Roomy(t, r, all + 1)
        /\ Roomy(r, s, all) => Roomy(r, t, all + 1)
        /\ Expected(s, r, W) => Expected(t, r, W \cup {f})
        /\ Expected(r, s, V) => Expected(r, t, V)
        /\ \A g \in W : Differ(g, f)
        /\ Expected(s, r, W) => \A g \in W : IsSealed(g) => Earlier(g.slot, f.slot)
    BY <1>5, <1>6, <2>4, <2>5, SealLinks
  <2>7. \A g \in W : Follows(Plainly, g, f)
    <3>1. \A g \in W : NumberOk(g, all)
      BY <1>2, <2>2 DEF InStep
    <3>2. \A g \in W : /\ g.type = "edit" /\ f.type = "edit" => g.arg < f.arg
                       /\ Opening(f) => f.nonce # g.nonce
      BY <1>2, <3>1 DEF NumberOk
    <3> QED
      BY <2>4, <2>6, <3>2 DEF Follows
  <2>8. /\ Lines' /\ OneLine'
        /\ \A q \in Pages : Way(q)' = IF q = Other(p) THEN Way(q) \cup {f} ELSE Way(q)
    BY <1>1, <2>1, <2>2, <2>7, DispatchLine DEF Joined
  <2>9. Way(o)' = W \cup {f} /\ Way(p)' = V
    BY <1>1, <2>2, <2>3, <2>8
  <2>10. Both(p, rat'[p], rat'[Other(p)], Way(Other(p))', Way(p)', sealed')
    BY <1>1, <1>2, <1>7, <2>4, <2>6, <2>9 DEF Both
  <2>11. Plainly' => /\ Expected(rat'[p], rat'[Other(p)], Way(Other(p))')
                     /\ Expected(rat'[Other(p)], rat'[p], Way(p)')
    BY <1>1, <1>7, <2>1, <2>4, <2>6, <2>9
  <2> QED
    BY <2>8, <2>10, <2>11, JoinedSo
<1> QED
  BY <1>9, <1>10 DEF InStep

\* No page opens anything, and no sealed frame is added; none is lost, or the
\* conversation is no longer plain.
LEMMA StillJoined ==
  ASSUME Joined, rat' = rat, sealed' = sealed, Plainly' => Plainly, Lines', OneLine',
         \A q \in Pages : \A g \in Way(q)' : g \in Way(q) \/ ~IsSealed(g),
         Plainly' => \A q \in Pages : \A g \in Way(q) : IsSealed(g) => g \in Way(q)'
  PROVE  Joined'
<1>1. ASSUME NEW p \in Pages
      PROVE  /\ Linked(Other(p), rat'[Other(p)], rat'[p], Way(p)')
             /\ Few => Roomy(rat'[Other(p)], rat'[p], sealed')
             /\ Plainly' => Expected(rat'[Other(p)], rat'[p], Way(p)')
  <2>1. PICK s : s = rat[Other(p)]
    OBVIOUS
  <2>2. PICK r : r = rat[p]
    OBVIOUS
  <2>3. PICK W : W = Way(p)
    OBVIOUS
  <2>4. PICK X : X = Way(p)'
    OBVIOUS
  <2>5. /\ Linked(Other(p), s, r, W) /\ (Few => Roomy(s, r, sealed))
        /\ Plainly => Expected(s, r, W)
    BY <2>1, <2>2, <2>3 DEF Joined
  <2>6. /\ \A g \in X : g \in W \/ ~IsSealed(g)
        /\ Plainly' => \A g \in W : IsSealed(g) => g \in X
    BY <2>3, <2>4
  <2>7. Linked(Other(p), s, r, X)
    BY <2>5, <2>6 DEF Linked
  <2>8. Plainly' => Expected(s, r, X)
    BY <2>5, <2>6 DEF Expected
  <2>9. rat'[Other(p)] = s /\ rat'[p] = r
    BY <2>1, <2>2
  <2> QED
    BY <2>4, <2>5, <2>7, <2>8, <2>9
<1> QED
  BY <1>1 DEF Joined

LEMMA StillInStep ==
  ASSUME InStep, rat' = rat, relay' = relay, direct' = direct, link' = link,
         sealed' = sealed, faults' = faults, terminals' = terminals
  PROVE  InStep'
<1>1. \A q \in Pages : Way(q)' = Way(q)
  BY DEF Way
<1>2. Plainly' <=> Plainly
  BY DEF Plainly
<1>3. ASSUME Joined
      PROVE  Joined'
  <2>1. Lines'
    BY <1>2, <1>3, LessPlain DEF Joined, Lines
  <2>2. OneLine'
    BY <1>2, <1>3 DEF Joined, OneLine
  <2> QED
    BY <1>1, <1>2, <1>3, <2>1, <2>2, StillJoined
<1> QED
  BY <1>1, <1>2, <1>3 DEF InStep

\* A page sends a frame that is not sealed: a deletion or a chunk.
LEMMA PlainInStep ==
  ASSUME Ways, InStep, NEW p \in Pages, NEW f, ~IsSealed(f), f.slot = NoSlot,
         f.nonce \in 0..sealed, dispatch(p, f) \/ dispatchDirect(p, f),
         rat' = rat, link' = link, sealed' = sealed, faults' = faults, terminals' = terminals
  PROVE  InStep'
<1>1. Plainly' <=> Plainly
  BY DEF Plainly
<1>2. \A q \in Pages : Way(q)' \subseteq Way(q) \cup {f}
  BY CarriesWay
<1>3. NumberOk(f, sealed)
  BY DEF NumberOk, IsSealed
<1>4. ASSUME Joined
      PROVE  Joined'
  <2>1. \A g \in Way(Other(p)) : Follows(Plainly, g, f)
    BY DEF Follows, Differ, IsSealed, Opening
  <2>2. /\ Lines' /\ OneLine'
        /\ \A q \in Pages : Way(q)' = IF q = Other(p) THEN Way(q) \cup {f} ELSE Way(q)
    BY <1>1, <1>4, <2>1, DispatchLine DEF Joined
  <2>3. \A q \in Pages : \A g \in Way(q)' : g \in Way(q) \/ ~IsSealed(g)
    BY <1>2
  <2>4. \A q \in Pages : \A g \in Way(q) : g \in Way(q)'
    BY <2>2
  <2> QED
    BY <1>1, <1>4, <2>2, <2>3, <2>4, StillJoined
<1> QED
  BY <1>1, <1>2, <1>3, <1>4 DEF InStep

\* A frame that arrives is not opened: it is not sealed, or a terminal drops it.
LEMMA DropInStep ==
  ASSUME Ways, InStep, NEW p \in Pages, NEW f, Arrives(p, f), Plainly => ~IsSealed(f),
         rat' = rat, link' = link, sealed' = sealed, faults' = faults, terminals' = terminals
  PROVE  InStep'
<1>1. Plainly' <=> Plainly
  BY DEF Plainly
<1>2. \A q \in Pages : Way(q)' \subseteq Way(q)
  BY ArrivesWay
<1>3. ASSUME Joined
      PROVE  Joined'
  <2>1. /\ Lines' /\ OneLine'
        /\ Way(p) = Way(p)' \cup {f} /\ \A q \in Pages \ {p} : Way(q)' = Way(q)
    BY <1>1, <1>3, ArrivesLine DEF Joined
  <2>2. Plainly' => \A q \in Pages : \A g \in Way(q) : IsSealed(g) => g \in Way(q)'
    BY <1>1, <2>1
  <2> QED
    BY <1>1, <1>2, <1>3, <2>1, <2>2, StillJoined
<1> QED
  BY <1>1, <1>2, <1>3 DEF InStep

LEMMA FaultInStep ==
  ASSUME Ways, InStep, LinkOpens \/ LinkDies \/ \E p \in Pages : RelayLoses(p),
         terminals' = terminals
  PROVE  InStep'
<1>1. /\ rat' = rat /\ sealed' = sealed /\ faults' = faults + 1 /\ faults' \in Nat /\ ~Plainly'
      /\ \A q \in Pages : Way(q)' \subseteq Way(q)
  <2>1. /\ rat' = rat /\ sealed' = sealed /\ faults' = faults + 1
    BY DEF LinkOpens, LinkDies, RelayLoses, Fault
  <2>2. faults' \in Nat /\ ~Plainly'
    BY <2>1 DEF InStep, Plainly
  <2>3. ASSUME LinkOpens
        PROVE  \A q \in Pages : Way(q)' \subseteq Way(q)
    BY <2>3 DEF LinkOpens, queues, Way
  <2> QED
    BY <2>1, <2>2, <2>3, LossWay
<1>2. ASSUME Joined
      PROVE  Lines'
  <2>1. CASE LinkOpens
    <3>1. relay' = relay /\ direct' = direct
      BY <2>1 DEF LinkOpens, queues
    <3> QED
      BY <1>1, <1>2, <3>1, LessPlain DEF Joined, Lines
  <2>2. CASE LinkDies
    <3>1. relay' = relay /\ \A q \in Pages : direct'[q] = <<>>
      BY <2>2 DEF LinkDies
    <3>2. In(<<>>) = {} /\ Len(<<>>) = 0
      BY NoEntries DEF EmptyStore
    <3>3. \A q \in Pages : Ordered(Plainly', relay[q])
      BY <1>1, <1>2, LessPlain DEF Joined, Lines
    <3>4. \A q \in Pages : Ordered(Plainly', <<>>)
      BY <3>2 DEF Ordered
    <3>5. \A q \in Pages : Disjointed(relay[q], <<>>)
      BY <3>2 DEF Disjointed
    <3> QED
      BY <3>1, <3>3, <3>4, <3>5 DEF Lines
  <2>3. ASSUME NEW p \in Pages, RelayLoses(p)
        PROVE  Lines'
    <3>1. Arrives(p, Head(relay[p])) /\ link' = link
      BY <2>3 DEF RelayLoses, Arrives
    <3> QED
      BY <1>1, <1>2, <3>1, ArrivesLine DEF Joined
  <2> QED
    BY <2>1, <2>2, <2>3
<1>3. Joined => Joined'
  <2>1. OneLine'
    BY <1>1 DEF OneLine
  <2> QED
    BY <1>1, <1>2, <2>1, StillJoined
<1> QED
  BY <1>1, <1>3 DEF InStep

\* A page opens a frame.
LEMMA ReadInStep ==
  ASSUME Ways, Secrecy, InStep, sealed \in 0..MaxSealed, NEW p \in Pages, NEW f, IsSealed(f),
         Arrives(p, f), decryptFrom(p, f),
         link' = link, sealed' = sealed, faults' = faults, terminals' = terminals
  PROVE  InStep' /\ (Few \/ Plainly => Readable(p, f))
<1>1. PICK o \in Pages : o = Other(p) /\ p # o
  BY OtherPage
<1>2. Other(o) = p
  BY <1>1, OtherPage
<1>3. PICK s : s = rat[o]
  OBVIOUS
<1>4. PICK r : r = rat[p]
  OBVIOUS
<1>5. PICK d : d = decrypt(r, f.slot)
  OBVIOUS
<1>6. RatchetOk(s) /\ RatchetOk(r)
  BY <1>3, <1>4 DEF Secrecy
<1>7. rat'[p] = d.s /\ rat'[o] = s
  BY <1>1, <1>3, <1>4, <1>5 DEF decryptFrom, Secrecy
<1>12. PICK all \in 0..MaxSealed : all = sealed
  OBVIOUS
<1>8. Plainly' <=> Plainly
  BY DEF Plainly
<1>9. \A q \in Pages : Way(q)' \subseteq Way(q)
  BY ArrivesWay
<1>10. ASSUME Few \/ Plainly
       PROVE  Joined' /\ d.ok
  <2>1. Joined
    BY <1>10 DEF InStep
  <2>2. PICK W : W = Way(p)
    OBVIOUS
  <2>3. PICK V : V = Way(o)
    OBVIOUS
  <2>4. PICK X : X = Way(p)'
    OBVIOUS
  <2>5. /\ Lines' /\ OneLine' /\ W = X \cup {f} /\ Way(o)' = V
        /\ \A g \in X : Differ(f, g) /\ (Plainly => Follows(TRUE, f, g))
    BY <1>1, <1>8, <2>1, <2>2, <2>3, <2>4, ArrivesLine DEF Joined
  <2>6. /\ Linked(o, s, r, W) /\ Linked(p, r, s, V)
        /\ Few => Roomy(s, r, all) /\ Roomy(r, s, all)
        /\ Plainly => Expected(s, r, W) /\ Expected(r, s, V)
    BY <1>1, <1>3, <1>4, <1>12, <2>1, <2>2, <2>3, JoinedIs DEF Both
  <2>7. \/ Few /\ Roomy(s, r, all)
        \/ Expected(s, r, W) /\ \A g \in X : Follows(TRUE, f, g)
    BY <1>10, <2>5, <2>6
  <2>8. f \in W /\ X \subseteq W /\ W \subseteq X \cup {f} /\ \A g \in X : Differ(f, g)
    BY <2>5
  <2>9. Opened(o, p, s, r, W, V, f, X, all, d)
    BY <1>5, <1>6, <2>6, <2>7, <2>8, OpenLinks
  <2>10. Both(p, rat'[p], rat'[Other(p)], Way(Other(p))', Way(p)', sealed')
    BY <1>1, <1>7, <1>12, <2>4, <2>5, <2>6, <2>9 DEF Both, Opened
  <2>11. Plainly' => /\ Expected(rat'[p], rat'[Other(p)], Way(Other(p))')
                     /\ Expected(rat'[Other(p)], rat'[p], Way(p)')
    BY <1>1, <1>7, <1>8, <2>4, <2>5, <2>6, <2>9 DEF Opened
  <2> QED
    BY <2>5, <2>9, <2>10, <2>11, JoinedSo DEF Opened
<1>11. Few \/ Plainly => Readable(p, f)
  BY <1>4, <1>5, <1>10 DEF Readable
<1> QED
  BY <1>8, <1>9, <1>10, <1>11 DEF InStep

\* A message that is the page's own was sealed.
LEMMA OwnNumber ==
  ASSUME TalkInv, NEW p \in Pages, NEW n \in Nonces, messages[p][n].own
  PROVE  n \in 0..sealed
<1>1. Kept(p, n) /\ ~Absent.own /\ sealed \in 0..MaxSealed
  BY MessageType DEF TalkInv, TalkType
<1>2. n <= sealed
  BY <1>1 DEF Kept
<1> QED
  BY <1>1, <1>2, Bounds DEF Nonces

LEMMA UserInStep ==
  ASSUME TalkInv, Secrecy, InStep, NEW p \in Pages, User(p) \/ sendChat(p), terminals' = terminals
  PROVE  InStep'
<1> USE DEF TalkInv, TalkType
<1>1. ASSUME Seal(p)
      PROVE  sealed' \in 0..sealed'
  BY <1>1, Bounds DEF Seal
<1>2. ASSUME NEW kind \in {"text", "file"}, Sends(p, kind)
      PROVE  InStep'
  <2>1. PICK f : f = Frame(kind, sealed', 0, Slot(rat[p]))
    OBVIOUS
  <2>2. /\ f.slot = Slot(rat[p]) /\ f.type = kind /\ f.nonce = sealed' /\ Seal(p) /\ dispatch(p, f)
        /\ link' = link /\ faults' = faults
    BY <1>2, <2>1 DEF Sends, Frame
  <2>3. IsSealed(f) /\ f.type # "edit"
    BY <2>2 DEF IsSealed
  <2> QED
    BY <1>1, <2>2, <2>3, SealInStep
<1>3. CASE sendFileStream(p)
  <2>1. PICK f : f = Frame("init", sealed', 0, Slot(rat[p]))
    OBVIOUS
  <2>2. /\ f.slot = Slot(rat[p]) /\ f.type = "init" /\ f.nonce = sealed' /\ Seal(p)
        /\ dispatchDirect(p, f) /\ link' = link /\ faults' = faults
    BY <1>3, <2>1 DEF sendFileStream, Frame
  <2>3. IsSealed(f) /\ f.type # "edit"
    BY <2>2 DEF IsSealed
  <2> QED
    BY <1>1, <2>2, <2>3, SealInStep
<1>4. ASSUME NEW n \in Nonces, editMessage(p, n)
      PROVE  InStep'
  <2>1. PICK f : f = Frame("edit", n, sealed', Slot(rat[p]))
    OBVIOUS
  <2>2. /\ f.slot = Slot(rat[p]) /\ f.type = "edit" /\ f.nonce = n /\ f.arg = sealed' /\ Seal(p)
        /\ dispatch(p, f) /\ link' = link /\ faults' = faults
    BY <1>4, <2>1 DEF editMessage, Frame
  <2>3. IsSealed(f) /\ ~Opening(f)
    BY <2>2 DEF IsSealed, Opening
  <2>4. n \in 0..sealed'
    <3>1. n \in 0..sealed
      BY <1>4, OwnNumber DEF editMessage
    <3> QED
      BY <2>2, <3>1, Bounds DEF Seal
  <2> QED
    BY <1>1, <2>2, <2>3, <2>4, SealInStep
<1>5. ASSUME NEW n \in Nonces, deleteMessage(p, n)
      PROVE  InStep'
  <2>1. PICK f : f = Plain("delete", n)
    OBVIOUS
  <2>2. /\ f.slot = NoSlot /\ f.type = "delete" /\ f.nonce = n /\ dispatch(p, f) /\ rat' = rat
        /\ link' = link /\ faults' = faults /\ sealed' = sealed
    BY <1>5, <2>1 DEF deleteMessage, Plain, Frame
  <2>3. n \in 0..sealed
    BY <1>5, OwnNumber DEF deleteMessage
  <2>4. ~IsSealed(f)
    BY <2>2 DEF IsSealed
  <2> QED
    BY <2>2, <2>3, <2>4, PlainInStep
<1>6. ASSUME NEW n \in Nonces, markAsRead(p, n)
      PROVE  InStep'
  BY <1>6, StillInStep DEF markAsRead
<1> QED
  BY <1>2, <1>3, <1>4, <1>5, <1>6 DEF User, sendChat, sendMessage, sendFile

LEMMA PageInStep ==
  ASSUME TalkInv, Secrecy, InStep, NEW p \in Pages, terminals' = terminals,
         \/ Page(p) \/ StreamStalls(p)
         \/ p \in terminals /\ (TerminalReads(p) \/ TerminalSkipsReceipt(p))
  PROVE  InStep'
<1> USE DEF TalkInv, TalkType
<1>1. CASE ReceivesText(p) \/ ReceivesEdit(p) \/ ReceivesInit(p)
  <2>1. PICK f : /\ Arrives(p, f) /\ decryptFrom(p, f) /\ IsSealed(f)
                 /\ link' = link /\ faults' = faults /\ sealed' = sealed
    <3>1. CASE ReceivesText(p)
      BY <3>1 DEF ReceivesText, IsSealed
    <3>2. CASE ReceivesEdit(p)
      BY <3>2 DEF ReceivesEdit, IsSealed
    <3>3. CASE ReceivesInit(p)
      BY <3>3 DEF ReceivesInit, decodeFileStreamInit, IsSealed
    <3> QED
      BY <1>1, <3>1, <3>2, <3>3
  <2> QED
    BY <2>1, ReadInStep
<1>2. CASE ReceivesDelete(p) \/ ReceivesChunk(p)
  <2>1. PICK f : /\ Arrives(p, f) /\ ~IsSealed(f) /\ rat' = rat
                 /\ link' = link /\ faults' = faults /\ sealed' = sealed
    <3>1. CASE ReceivesDelete(p)
      BY <3>1 DEF ReceivesDelete, IsSealed
    <3>2. CASE ReceivesChunk(p)
      BY <3>2 DEF ReceivesChunk, frameFileId, IsSealed
    <3> QED
      BY <1>2, <3>1, <3>2
  <2> QED
    BY <2>1, DropInStep
<1>3. CASE p \in terminals /\ TerminalReads(p)
  <2>1. PICK f : /\ Arrives(p, f)
                 /\ (f.type = "text" /\ decryptFrom(p, f)) \/ rat' = rat
                 /\ link' = link /\ faults' = faults /\ sealed' = sealed
    BY <1>3 DEF TerminalReads
  <2>2. ~Plainly
    BY <1>3 DEF Plainly
  <2>3. CASE f.type = "text" /\ decryptFrom(p, f)
    <3>1. IsSealed(f)
      BY <2>3 DEF IsSealed
    <3> QED
      BY <2>1, <2>3, <3>1, ReadInStep
  <2>4. CASE rat' = rat
    BY <2>1, <2>2, <2>4, DropInStep
  <2> QED
    BY <2>1, <2>3, <2>4
<1>4. CASE SendsChunk(p)
  <2>1. PICK f : f = frames(sending[p])
    OBVIOUS
  <2>2. /\ f.slot = NoSlot /\ f.type = "chunk" /\ f.nonce = sending[p].nonce
        /\ dispatchDirect(p, f) /\ rat' = rat
        /\ link' = link /\ faults' = faults /\ sealed' = sealed /\ sending[p] # NoStream
    BY <1>4, <2>1 DEF SendsChunk, frames, Frame
  <2>3. f.nonce \in 0..sealed
    BY <2>2, OwnNumber
  <2>4. ~IsSealed(f)
    BY <2>2 DEF IsSealed
  <2> QED
    BY <2>2, <2>3, <2>4, PlainInStep
<1>5. CASE ReceivesReceipt(p) \/ StreamInterrupted(p) \/ StreamStalls(p) \/ TerminalSkipsReceipt(p)
  <2>1. /\ rat' = rat /\ relay' = relay /\ direct' = direct /\ link' = link
        /\ sealed' = sealed /\ faults' = faults
    BY <1>5 DEF ReceivesReceipt, StreamInterrupted, StreamStalls, TerminalSkipsReceipt, queues
  <2> QED
    BY <2>1, StillInStep
<1> QED
  BY <1>1, <1>2, <1>3, <1>4, <1>5 DEF Page

LEMMA InStepStep ==
  ASSUME TalkInv, Secrecy, InStep, [Next]_vars
  PROVE  InStep'
<1>1. CASE UNCHANGED vars
  BY <1>1, StillInStep DEF vars, queues
<1>2. CASE Next
  <2>1. terminals' = terminals /\ terminals \subseteq Pages
    BY <1>2 DEF Next, TalkInv, TalkType
  <2>2. CASE \E p \in Pages \ terminals : User(p) \/ Page(p) \/ StreamStalls(p)
    BY <2>1, <2>2, UserInStep, PageInStep
  <2>3. CASE \E p \in terminals : Terminal(p)
    BY <2>1, <2>3, UserInStep, PageInStep DEF Terminal
  <2>4. CASE LinkOpens \/ LinkDies \/ \E p \in Pages : RelayLoses(p)
    BY <2>1, <2>4, FaultInStep DEF TalkInv
  <2> QED
    BY <1>2, <2>2, <2>3, <2>4 DEF Next
<1> QED
  BY <1>1, <1>2

LEMMA StaysInStep == Spec => []InStep
<1>1. TalkInv /\ Secrecy /\ InStep /\ [Next]_vars => InStep'
  BY InStepStep
<1> QED
  BY <1>1, InStepStarts, TalkIsSound, SecretHolds, PTL DEF Spec

LEMMA WayHas ==
  ASSUME Ways, NEW p \in Pages
  PROVE  OnTheWay(p) = {f \in Way(p) : f.slot # NoSlot}
<1>1. PICK R : R = relay[p]
  OBVIOUS
<1>2. PICK D : D = direct[p]
  OBVIOUS
<1>3. DOMAIN R = 1..Len(R) /\ DOMAIN D = 1..Len(D)
  BY <1>1, <1>2, LenProperties DEF Ways, IsSeq
<1>4. UNION {{s[i] : i \in DOMAIN s} : s \in {R, D}} = {R[i] : i \in DOMAIN R} \cup {D[i] : i \in DOMAIN D}
  OBVIOUS
<1> QED
  BY <1>1, <1>2, <1>3, <1>4 DEF OnTheWay, Way, In

\* NoneStranded: while few frames are sealed at all, each one that is on its way
\* can be opened, whatever the two paths reorder and lose (skipMessageKeys, the
\* ratchet step of a responder that speaks first, decrypt): its key
\* is kept, or it is further on in the chain the page reads, or of the chain after
\* it, and no gap and no store of kept keys outgrows what was sealed.
THEOREM NoFrameStranded == Spec => []NoneStranded
<1>1. TalkInv /\ Secrecy /\ InStep => NoneStranded
  <2> SUFFICES ASSUME TalkInv, Secrecy, InStep, Few, NEW p \in Pages, NEW f \in OnTheWay(p)
               PROVE  Readable(p, f)
    BY DEF NoneStranded, Few
  <2>1. PICK s : s = rat[Other(p)]
    OBVIOUS
  <2>2. PICK r : r = rat[p]
    OBVIOUS
  <2>3. PICK all \in 0..MaxSealed : all = sealed
    BY DEF TalkInv, TalkType
  <2>4. f \in Way(p) /\ IsSealed(f)
    BY WayHas DEF TalkInv, InStep
  <2>5. PICK o \in Pages : o = Other(p) /\ Other(o) = p
    BY OtherPage
  <2>6. Both(p, r, s, Way(o), Way(p), all)
    BY <2>1, <2>2, <2>3, <2>5, JoinedIs DEF InStep
  <2>7. /\ Linked(o, s, r, Way(p)) /\ Linked(p, r, s, Way(o)) /\ Roomy(s, r, all)
    BY <2>5, <2>6 DEF Both
  <2>8. PICK h : h = f.slot
    OBVIOUS
  <2>9. /\ Reaches(s, r, h) /\ Tied(s, r) /\ Chan(o, s, r) /\ Chan(p, r, s)
        /\ RatchetOk(s) /\ RatchetOk(r)
    BY <2>1, <2>2, <2>4, <2>5, <2>7, <2>8 DEF Linked, Secrecy
  <2>10. Holds(In(r.MKSKIPPED), h) \/ RoomFor(r, h)
    BY <2>7, <2>9, FewHasRoom
  <2>11. PICK d : d = decrypt(r, h)
    OBVIOUS
  <2>12. d.ok /\ Unlocks(o, p, s, r, d.s, h)
    BY <2>9, <2>10, <2>11, Openable
  <2> QED
    BY <2>2, <2>8, <2>11, <2>12 DEF Readable
<1> QED
  BY <1>1, StaysInStep, TalkIsSound, SecretHolds, PTL

(* What the two pages show of a message *)

Changing(f) == f.type \in {"edit", "delete"}
About(W, n) == {f \in W : f.nonce = n /\ (Opening(f) \/ Changing(f))}

\* Of the author's message m the other page shows o, and will show m when it has
\* read the frames X; all is the number of frames sealed.
Catches(m, o, X, all) ==
    /\ o.kind = "none" => \E f \in X : Opening(f)
    /\ \A f \in X : /\ f.type = "edit" => m.kind = "text"
                    /\ f.type = "delete" => m.deleted
    /\ m.text <= all
    /\ o.deleted => o.text = 0
    /\ m.deleted => m.text = 0 /\ (o.deleted \/ \E f \in X : f.type = "delete")
    /\ ~m.deleted => /\ ~o.deleted /\ o.text <= m.text
                     /\ o.text = m.text \/ \E f \in X : f.type = "edit" /\ f.arg = m.text
                     /\ \A f \in X : f.type = "edit" => o.text < f.arg /\ f.arg <= m.text
Synced(m, o, X, all) == IF m.own THEN Catches(m, o, X, all) ELSE \A f \in X : ~Changing(f)

InTouch == Plainly => \A p \in Pages, n \in Nonces :
    Synced(messages[Other(p)][n], messages[p][n], About(Way(p), n), sealed)

\* What the numbers of the edits are.
EditNumbers(X, all) == \A f \in X : f.type = "edit" => f.arg \in 0..all

Alike(m, w) == /\ m.kind = w.kind /\ (m.own <=> w.own) /\ m.text = w.text
               /\ (m.deleted <=> w.deleted)

LEMMA SyncedStill ==
  ASSUME NEW m, NEW o \in Message, NEW w \in Message, NEW v \in Message, NEW X, NEW all \in Nat,
         NEW top \in Nat, Alike(m, w), Alike(o, v), all <= top, Synced(w, v, X, all)
  PROVE  Synced(m, o, X, top)
BY DEF Synced, Catches, Alike, Message

LEMMA SyncedTheirs ==
  ASSUME NEW m, ~m.own, NEW o, NEW w, ~w.own, NEW v, NEW X, NEW all, NEW top, Synced(w, v, X, all)
  PROVE  Synced(m, o, X, top)
BY DEF Synced

\* The author opens, edits, deletes a message.
LEMMA SyncedOpens ==
  ASSUME NEW m, m.own, m.text = 0, ~m.deleted, NEW o, o.text = 0, ~o.deleted,
         NEW X, \A g \in X : ~Changing(g), NEW f, Opening(f), NEW all \in Nat
  PROVE  Synced(m, o, X \cup {f}, all)
<1>1. \A g \in X \cup {f} : g.type # "edit" /\ g.type # "delete"
  BY DEF Opening, Changing
<1> QED
  BY <1>1 DEF Synced, Catches

LEMMA SyncedEdits ==
  ASSUME NEW w \in Message, w.own, w.kind = "text", NEW o \in Message, NEW all \in Nat, NEW X,
         EditNumbers(X, all), Synced(w, o, X, all),
         NEW top \in Nat, top = all + 1, NEW f, f.type = "edit", f.arg = top,
         NEW m, m.own, m.kind = w.kind, m.deleted <=> w.deleted,
         m.text = IF w.deleted THEN w.text ELSE top
  PROVE  Synced(m, o, X \cup {f}, top)
<1>1. Catches(w, o, X, all)
  BY DEF Synced
<1>2. ~Opening(f)
  BY DEF Opening
<1>3. o.text \in Nat /\ w.text \in Nat
  BY Bounds DEF Message
<1>4. CASE w.deleted
  BY <1>1, <1>2, <1>3, <1>4 DEF Catches, Synced
<1>5. CASE ~w.deleted
  <2>1. /\ ~o.deleted /\ o.text < top /\ o.text <= w.text /\ w.text <= all
        /\ m.text = top /\ ~m.deleted
    BY <1>1, <1>3, <1>5 DEF Catches
  <2>2. \A g \in X : g.type = "edit" => o.text < g.arg /\ g.arg <= top
    BY <1>1, <1>3, <1>5 DEF Catches, EditNumbers
  <2>3. \A g \in X : g.type # "delete"
    BY <1>1, <1>5 DEF Catches
  <2>4. PICK Z : Z = X \cup {f}
    OBVIOUS
  <2>5. o.kind = "none" => \E g \in Z : Opening(g)
    BY <1>1, <2>4 DEF Catches
  <2>6. \A g \in Z :
           /\ g.type = "edit" => m.kind = "text" /\ o.text < g.arg /\ g.arg <= m.text
           /\ g.type # "delete"
    BY <2>1, <2>2, <2>3, <2>4
  <2>7. \E g \in Z : g.type = "edit" /\ g.arg = m.text
    BY <2>1, <2>4
  <2>8. o.text <= m.text /\ m.text <= top
    BY <1>3, <2>1
  <2>9. Catches(m, o, Z, top)
    BY <2>1, <2>5, <2>6, <2>7, <2>8 DEF Catches
  <2> QED
    BY <2>4, <2>9 DEF Synced
<1> QED
  BY <1>4, <1>5

LEMMA SyncedDeletes ==
  ASSUME NEW w \in Message, w.own, ~w.deleted, NEW o \in Message, NEW all \in Nat, NEW X,
         Synced(w, o, X, all), NEW f, f.type = "delete",
         NEW m, m.own, m.kind = w.kind, m.deleted, m.text = 0
  PROVE  Synced(m, o, X \cup {f}, all)
<1>1. Catches(w, o, X, all)
  BY DEF Synced
<1>2. ~Opening(f)
  BY DEF Opening
<1> QED
  BY <1>1, <1>2 DEF Catches, Synced

\* The other page reads what opens, edits or deletes a message.
LEMMA SyncedRead ==
  ASSUME NEW m \in Message, m.own, NEW o \in Message, NEW all \in Nat, NEW X, NEW Y,
         Synced(m, o, X, all), EditNumbers(X, all),
         NEW f \in X, Y \subseteq X, X \subseteq Y \cup {f},
         \A g \in Y : Follows(TRUE, f, g), \A g \in Y : f.nonce = g.nonce,
         NEW v \in Message, v.kind # "none",
         \/ Opening(f) /\ v.text = o.text /\ (v.deleted <=> o.deleted)
         \/ f.type = "edit" /\ ~o.deleted /\ v.text = f.arg /\ ~v.deleted
         \/ f.type = "edit" /\ o.deleted /\ v.text = o.text /\ v.deleted
         \/ f.type = "delete" /\ v.text = 0 /\ v.deleted
  PROVE  Synced(m, v, Y, all)
<1>1. Catches(m, o, X, all) /\ m.text \in Nat /\ o.text \in Nat
  BY Bounds DEF Synced, Message
<1>2. \A g \in Y : f.type = "edit" /\ g.type = "edit" => f.arg < g.arg
  BY DEF Follows
<1>3. \A g \in Y : g.type = "edit" => g.arg \in Nat
  BY DEF EditNumbers
<1>4. CASE Opening(f) /\ v.text = o.text /\ (v.deleted <=> o.deleted)
  <2>1. f.type # "edit" /\ f.type # "delete"
    BY <1>4 DEF Opening
  <2> QED
    BY <1>1, <1>4, <2>1 DEF Catches, Synced
<1>5. CASE f.type = "edit" /\ ~o.deleted /\ v.text = f.arg /\ ~v.deleted
  <2>1. CASE m.deleted
    BY <1>1, <1>5, <2>1 DEF Catches, Synced
  <2>2. CASE ~m.deleted
    <3>1. o.text < f.arg /\ f.arg <= m.text /\ f.arg \in Nat
      BY <1>1, <1>5, <2>2 DEF Catches, EditNumbers
    <3>2. PICK g \in X : g.type = "edit" /\ g.arg = m.text
      BY <1>1, <2>2, <3>1 DEF Catches
    <3>3. v.text = m.text \/ g \in Y
      BY <1>5, <3>2
    <3>4. \A h \in Y : h.type = "edit" => v.text < h.arg /\ h.arg <= m.text
      BY <1>1, <1>2, <1>5, <2>2 DEF Catches
    <3> QED
      BY <1>1, <1>5, <2>2, <3>1, <3>2, <3>3, <3>4 DEF Catches, Synced
  <2> QED
    BY <2>1, <2>2
<1>6. CASE f.type = "edit" /\ o.deleted /\ v.text = o.text /\ v.deleted
  BY <1>1, <1>6 DEF Catches, Synced
<1>7. CASE f.type = "delete" /\ v.text = 0 /\ v.deleted
  BY <1>1, <1>7 DEF Catches, Synced
<1> QED
  BY <1>4, <1>5, <1>6, <1>7

\* What changes a message finds it there.
LEMMA SyncedFinds ==
  ASSUME NEW m, NEW o, NEW all, NEW X, NEW Y,
         Synced(m, o, X, all), NEW f \in X, X \subseteq Y \cup {f}, Changing(f),
         \A g \in Y : Follows(TRUE, f, g), \A g \in Y : f.nonce = g.nonce
  PROVE  m.own /\ o.kind # "none" /\ (f.type = "edit" => m.kind = "text")
<1>1. m.own /\ Catches(m, o, X, all)
  BY DEF Synced
<1>2. ~Opening(f)
  BY DEF Opening, Changing
<1>3. \A g \in Y : ~Opening(g)
  BY DEF Follows, Changing
<1> QED
  BY <1>1, <1>2, <1>3 DEF Catches

Puts(p, n, m) == messages' = [messages EXCEPT ![p][n] = m]

LEMMA PutOne ==
  ASSUME TalkInv, NEW p \in Pages, NEW n \in Nonces, NEW m, Puts(p, n, m)
  PROVE  /\ messages'[p][n] = m
         /\ \A q \in Pages, k \in Nonces : q # p \/ k # n => messages'[q][k] = messages[q][k]
<1>1. messages \in [Pages -> [Nonces -> Message]]
  BY DEF TalkInv, TalkType
<1>2. PICK row \in [Nonces -> Message] : row = messages[p]
  BY <1>1
<1>3. messages' = [messages EXCEPT ![p] = [row EXCEPT ![n] = m]]
  BY <1>2 DEF Puts
<1>4. messages'[p] = [row EXCEPT ![n] = m] /\ \A q \in Pages \ {p} : messages'[q] = messages[q]
  BY <1>1, <1>3
<1> QED
  BY <1>2, <1>4

LEMMA AlikeSelf == \A m : Alike(m, m)
BY DEF Alike

LEMMA AboutOthers ==
  ASSUME NEW W, NEW V, NEW f, W \cup {f} = V \cup {f}, NEW k, f.nonce # k
  PROVE  About(W, k) = About(V, k)
BY DEF About

\* The two pages show the same of whatever no step touches.
LEMMA SlotStill ==
  ASSUME TalkInv, NEW q \in Pages, NEW k \in Nonces,
         Synced(messages[Other(q)][k], messages[q][k], About(Way(q), k), sealed),
         messages' \in [Pages -> [Nonces -> Message]], sealed' \in sealed..MaxSealed,
         Alike(messages'[Other(q)][k], messages[Other(q)][k]),
         Alike(messages'[q][k], messages[q][k]), About(Way(q)', k) = About(Way(q), k)
  PROVE  Synced(messages'[Other(q)][k], messages'[q][k], About(Way(q)', k), sealed')
<1>1. /\ messages \in [Pages -> [Nonces -> Message]] /\ Other(q) \in Pages
      /\ sealed \in Nat /\ sealed' \in Nat /\ sealed <= sealed'
  BY OtherPage, Bounds DEF TalkInv, TalkType
<1>2. PICK m : m = messages'[Other(q)][k]
  OBVIOUS
<1>3. PICK o \in Message : o = messages'[q][k]
  OBVIOUS
<1>4. PICK w \in Message : w = messages[Other(q)][k]
  BY <1>1
<1>5. PICK v \in Message : v = messages[q][k]
  BY <1>1
<1>6. PICK X : X = About(Way(q), k)
  OBVIOUS
<1>7. PICK all \in Nat : all = sealed
  BY <1>1
<1>8. PICK top \in Nat : top = sealed' /\ all <= top
  BY <1>1, <1>7
<1>9. Alike(m, w) /\ Alike(o, v) /\ Synced(w, v, X, all)
  BY <1>2, <1>3, <1>4, <1>5, <1>6, <1>7
<1>10. Synced(m, o, X, top)
  BY <1>8, <1>9, SyncedStill
<1> QED
  BY <1>2, <1>3, <1>6, <1>8, <1>10

\* A step that changes nothing that is compared.
LEMMA StillInTouch ==
  ASSUME TalkInv, InTouch, Plainly' => Plainly,
         messages' \in [Pages -> [Nonces -> Message]], sealed' \in sealed..MaxSealed,
         \A q \in Pages, k \in Nonces :
            Alike(messages'[q][k], messages[q][k]) /\ About(Way(q)', k) = About(Way(q), k)
  PROVE  InTouch'
<1>1. ASSUME Plainly', NEW q \in Pages, NEW k \in Nonces
      PROVE  Synced(messages'[Other(q)][k], messages'[q][k], About(Way(q)', k), sealed')
  <2>1. Synced(messages[Other(q)][k], messages[q][k], About(Way(q), k), sealed)
    BY <1>1 DEF InTouch
  <2>2. Other(q) \in Pages
    BY OtherPage
  <2> QED
    BY <2>1, <2>2, SlotStill
<1> QED
  BY <1>1 DEF InTouch

\* The author p changes its message n and sends the frame f about it.
LEMMA AuthorInTouch ==
  ASSUME TalkInv, TalkInv', InTouch, Plainly' => Plainly, sealed' \in sealed..MaxSealed,
         NEW p \in Pages, NEW n \in Nonces, NEW m, m.own,
         Puts(p, n, m),
         NEW f, f.nonce = n, Opening(f) \/ Changing(f),
         \A q \in Pages : Way(q)' = IF q = Other(p) THEN Way(q) \cup {f} ELSE Way(q),
         Plainly => Synced(m, messages[Other(p)][n], About(Way(Other(p)), n) \cup {f}, sealed')
  PROVE  InTouch'
<1>1. PICK o \in Pages : o = Other(p) /\ o # p /\ Other(o) = p /\ Pages = {p, o}
  BY OtherPage DEF Pages, Other
<1>2. /\ messages'[p][n] = m
      /\ \A q \in Pages, k \in Nonces : q # p \/ k # n => messages'[q][k] = messages[q][k]
  BY PutOne
<1>3. messages' \in [Pages -> [Nonces -> Message]] /\ Kept(p, n)'
  BY DEF TalkInv, TalkType
<1>4. Way(o)' = Way(o) \cup {f} /\ Way(p)' = Way(p)
  BY <1>1
<1>5. ASSUME Plainly'
      PROVE  Synced(messages'[p][n], messages'[o][n], About(Way(o)', n), sealed')
  <2>1. About(Way(o)', n) = About(Way(o), n) \cup {f}
    BY <1>4 DEF About
  <2> QED
    BY <1>1, <1>2, <1>5, <2>1
<1>6. ASSUME Plainly'
      PROVE  Synced(messages'[o][n], messages'[p][n], About(Way(p)', n), sealed')
  <2>1. Synced(messages[o][n], messages[p][n], About(Way(p), n), sealed)
    BY <1>1, <1>6 DEF InTouch
  <2>2. messages'[o][n] = messages[o][n] /\ ~messages'[o][n].own
    BY <1>1, <1>2, <1>3 DEF Kept
  <2>3. ~messages[o][n].own
    BY <2>2
  <2>4. PICK X : X = About(Way(p), n) /\ X = About(Way(p)', n)
    BY <1>4
  <2>5. PICK w : w = messages[o][n] /\ w = messages'[o][n] /\ ~w.own
    BY <2>2
  <2>6. \A g \in X : ~Changing(g)
    BY <2>1, <2>4, <2>5 DEF Synced
  <2> QED
    BY <2>4, <2>5, <2>6 DEF Synced
<1>7. ASSUME Plainly', NEW q \in Pages, NEW k \in Nonces, k # n
      PROVE  Synced(messages'[Other(q)][k], messages'[q][k], About(Way(q)', k), sealed')
  <2>1. Synced(messages[Other(q)][k], messages[q][k], About(Way(q), k), sealed)
    BY <1>7 DEF InTouch
  <2>2. Other(q) \in Pages
    BY OtherPage
  <2>3. /\ Alike(messages'[Other(q)][k], messages[Other(q)][k])
        /\ Alike(messages'[q][k], messages[q][k])
    BY <1>2, <1>7, <2>2, AlikeSelf
  <2>4. Way(q)' \cup {f} = Way(q) \cup {f}
    BY <1>1, <1>4
  <2>5. About(Way(q)', k) = About(Way(q), k)
    BY <1>7, <2>4, AboutOthers
  <2> QED
    BY <1>3, <2>1, <2>3, <2>5, SlotStill
<1>8. ASSUME Plainly', NEW q \in Pages, NEW k \in Nonces
      PROVE  Synced(messages'[Other(q)][k], messages'[q][k], About(Way(q)', k), sealed')
  <2>1. CASE k # n
    BY <1>7, <1>8, <2>1
  <2>2. CASE k = n /\ q = o
    BY <1>1, <1>5, <1>8, <2>2
  <2>3. CASE k = n /\ q = p
    BY <1>1, <1>6, <1>8, <2>3
  <2> QED
    BY <1>1, <2>1, <2>2, <2>3
<1> QED
  BY <1>8 DEF InTouch

\* The page p reads the frame f about the other's message n, and shows v of it.
LEMMA ReaderInTouch ==
  ASSUME TalkInv, TalkInv', InTouch, Plainly' => Plainly, sealed' = sealed,
         NEW p \in Pages, NEW n \in Nonces, NEW v, ~v.own, ~messages[p][n].own,
         Puts(p, n, v),
         NEW f, f.nonce = n, Way(p) = Way(p)' \cup {f},
         \A q \in Pages \ {p} : Way(q)' = Way(q),
         Plainly => Synced(messages[Other(p)][n], v, About(Way(p)', n), sealed)
  PROVE  InTouch'
<1>1. PICK o \in Pages : o = Other(p) /\ o # p /\ Other(o) = p /\ Pages = {p, o}
  BY OtherPage DEF Pages, Other
<1>2. /\ messages'[p][n] = v
      /\ \A q \in Pages, k \in Nonces : q # p \/ k # n => messages'[q][k] = messages[q][k]
  BY PutOne
<1>3. messages' \in [Pages -> [Nonces -> Message]] /\ sealed' \in sealed..MaxSealed
  BY Bounds DEF TalkInv, TalkType
<1>4. Way(o)' = Way(o) /\ Way(p) \cup {f} = Way(p)' \cup {f}
  BY <1>1
<1>5. ASSUME Plainly'
      PROVE  Synced(messages'[o][n], messages'[p][n], About(Way(p)', n), sealed')
  BY <1>1, <1>2, <1>5
<1>6. ASSUME Plainly'
      PROVE  Synced(messages'[p][n], messages'[o][n], About(Way(o)', n), sealed')
  <2>1. Synced(messages[p][n], messages[o][n], About(Way(o), n), sealed)
    BY <1>1, <1>6 DEF InTouch
  <2>2. PICK X : X = About(Way(o), n) /\ X = About(Way(o)', n)
    BY <1>4
  <2>3. \A g \in X : ~Changing(g)
    BY <2>1, <2>2 DEF Synced
  <2>4. PICK w : w = messages'[p][n] /\ ~w.own
    BY <1>2
  <2> QED
    BY <2>2, <2>3, <2>4 DEF Synced
<1>7. ASSUME Plainly', NEW q \in Pages, NEW k \in Nonces, k # n
      PROVE  Synced(messages'[Other(q)][k], messages'[q][k], About(Way(q)', k), sealed')
  <2>1. Synced(messages[Other(q)][k], messages[q][k], About(Way(q), k), sealed)
    BY <1>7 DEF InTouch
  <2>2. Other(q) \in Pages
    BY OtherPage
  <2>3. /\ Alike(messages'[Other(q)][k], messages[Other(q)][k])
        /\ Alike(messages'[q][k], messages[q][k])
    BY <1>2, <1>7, <2>2, AlikeSelf
  <2>4. Way(q)' \cup {f} = Way(q) \cup {f}
    BY <1>1, <1>4
  <2>5. About(Way(q)', k) = About(Way(q), k)
    BY <1>7, <2>4, AboutOthers
  <2> QED
    BY <1>3, <2>1, <2>3, <2>5, SlotStill
<1>8. ASSUME Plainly', NEW q \in Pages, NEW k \in Nonces
      PROVE  Synced(messages'[Other(q)][k], messages'[q][k], About(Way(q)', k), sealed')
  <2>1. CASE k # n
    BY <1>7, <1>8, <2>1
  <2>2. CASE k = n /\ q = o
    BY <1>1, <1>6, <1>8, <2>2
  <2>3. CASE k = n /\ q = p
    BY <1>1, <1>5, <1>8, <2>3
  <2> QED
    BY <1>1, <2>1, <2>2, <2>3
<1> QED
  BY <1>8 DEF InTouch

LEMMA AppendIn ==
  ASSUME NEW s, IsSeq(s), NEW f, NEW c, c = Append(s, f)
  PROVE  In(c) = In(s) \cup {f}
<1>1. PICK S : s \in Seq(S)
  BY DEF IsSeq
<1>2. s \in Seq(S \cup {f})
  BY <1>1, SeqMonotonic
<1>3. PICK m : m = Len(s)
  OBVIOUS
<1>4. m \in Nat /\ Len(c) = m + 1 /\ c[m + 1] = f /\ \A i \in 1..m : c[i] = s[i]
  BY <1>2, <1>3, LenProperties, AppendProperties
<1>5. \A i \in 1..(m + 1) : i \in 1..m \/ i = m + 1
  BY <1>4
<1>6. m + 1 \in 1..(m + 1) /\ \A i \in 1..m : i \in 1..(m + 1)
  BY <1>4
<1> QED
  BY <1>3, <1>4, <1>5, <1>6 DEF In

LEMMA DispatchAll ==
  ASSUME Ways, NEW p \in Pages, NEW f, dispatch(p, f) \/ dispatchDirect(p, f)
  PROVE  \A q \in Pages : Way(q)' = IF q = Other(p) THEN Way(q) \cup {f} ELSE Way(q)
<1>1. PICK r \in Pages : r = Other(p)
  BY OtherPage
<1>2. ASSUME relay' = [relay EXCEPT ![r] = Append(@, f)], direct' = direct
      PROVE  \A q \in Pages : Way(q)' = IF q = r THEN Way(q) \cup {f} ELSE Way(q)
  <2>1. relay'[r] = Append(relay[r], f) /\ \A q \in Pages \ {r} : relay'[q] = relay[q]
    BY <1>2 DEF Ways
  <2>2. In(relay'[r]) = In(relay[r]) \cup {f}
    BY <2>1, AppendIn DEF Ways
  <2> QED
    BY <1>2, <2>1, <2>2 DEF Way
<1>3. ASSUME direct' = [direct EXCEPT ![r] = Append(@, f)], relay' = relay
      PROVE  \A q \in Pages : Way(q)' = IF q = r THEN Way(q) \cup {f} ELSE Way(q)
  <2>1. direct'[r] = Append(direct[r], f) /\ \A q \in Pages \ {r} : direct'[q] = direct[q]
    BY <1>3 DEF Ways
  <2>2. In(direct'[r]) = In(direct[r]) \cup {f}
    BY <2>1, AppendIn DEF Ways
  <2> QED
    BY <1>3, <2>1, <2>2 DEF Way
<1> QED
  BY <1>1, <1>2, <1>3 DEF dispatch, dispatchDirect

LEMMA Unfaulted ==
  ASSUME faults' = faults, terminals' = terminals
  PROVE  Plainly' => Plainly
BY DEF Plainly

LEMMA EditsNumbered ==
  ASSUME InStep, NEW p \in Pages, NEW n
  PROVE  EditNumbers(About(Way(p), n), sealed)
BY DEF InStep, NumberOk, About, EditNumbers

\* A page opens a message of its own.
LEMMA OpensInTouch ==
  ASSUME TalkInv, TalkInv', InTouch, NEW p \in Pages, NEW k \in {"text", "file"},
         sealed < MaxSealed, sealed' = sealed + 1, faults' = faults, terminals' = terminals,
         messages' = [messages EXCEPT ![p][sealed'] = Shown(k, TRUE, TRUE)],
         NEW f, Opening(f), f.nonce = sealed', dispatch(p, f) \/ dispatchDirect(p, f)
  PROVE  InTouch'
<1>1. PICK n \in Nonces : n = sealed' /\ n = sealed + 1
  BY Bounds DEF TalkInv, TalkType, Nonces
<1>2. PICK o \in Pages : o = Other(p) /\ Other(o) = p
  BY OtherPage
<1>3. sealed \in Nat /\ sealed' \in sealed..MaxSealed /\ n \in Nat /\ ~(n <= sealed)
  BY <1>1, Bounds DEF TalkInv, TalkType
<1>4. PICK m : m = Shown(k, TRUE, TRUE)
  OBVIOUS
<1>5. m.own /\ m.text = 0 /\ ~m.deleted
  BY <1>4 DEF Shown, Absent
<1>6. Puts(p, n, m)
  BY <1>1, <1>4 DEF Puts
<1>7. messages[p][n] = Absent /\ messages[o][n] = Absent
  <2>1. Kept(p, n) /\ Kept(o, n)
    BY DEF TalkInv
  <2> QED
    BY <1>3, <2>1 DEF Kept
<1>8. Plainly' => Plainly
  BY Unfaulted
<1>9. \A q \in Pages : Way(q)' = IF q = Other(p) THEN Way(q) \cup {f} ELSE Way(q)
  BY DispatchAll DEF TalkInv
<1>10. ASSUME Plainly
       PROVE  Synced(m, messages[o][n], About(Way(o), n) \cup {f}, sealed')
  <2>1. PICK X : X = About(Way(o), n)
    OBVIOUS
  <2>2. Synced(messages[p][n], messages[o][n], X, sealed)
    BY <1>2, <1>10, <2>1 DEF InTouch
  <2>3. ~messages[p][n].own
    BY <1>7 DEF Absent
  <2>4. \A g \in X : ~Changing(g)
    BY <2>2, <2>3 DEF Synced
  <2>5. PICK v : v = messages[o][n] /\ v.text = 0 /\ ~v.deleted
    BY <1>7 DEF Absent
  <2>6. PICK top \in Nat : top = sealed'
    BY <1>1, <1>3
  <2>7. Synced(m, v, X \cup {f}, top)
    BY <1>5, <2>4, <2>5, SyncedOpens
  <2> QED
    BY <2>1, <2>5, <2>6, <2>7
<1>11. f.nonce = n /\ (Opening(f) \/ Changing(f))
  BY <1>1
<1>12. Plainly => Synced(m, messages[Other(p)][n], About(Way(Other(p)), n) \cup {f}, sealed')
  BY <1>2, <1>10
<1> QED
  BY ONLY TalkInv, TalkInv', InTouch, p \in Pages, n \in Nonces, <1>3, <1>5, <1>6, <1>8, <1>9,
          <1>11, <1>12, AuthorInTouch

LEMMA EditInTouch ==
  ASSUME TalkInv, TalkInv', InStep, InTouch, NEW p \in Pages, NEW n \in Nonces,
         editMessage(p, n), terminals' = terminals
  PROVE  InTouch'
<1>1. PICK w \in Message : w = messages[p][n] /\ w.own /\ w.kind = "text"
  BY OwnIsThere DEF editMessage
<1>2. PICK all \in Nat : all = sealed /\ EditNumbers(About(Way(Other(p)), n), all)
  BY EditsNumbered, OtherPage, Bounds DEF TalkInv, TalkType
<1>3. PICK top \in Nat : top = sealed' /\ top = all + 1
  BY <1>2 DEF editMessage, Seal
<1>4. sealed' \in sealed..MaxSealed
  BY <1>2, <1>3, Bounds DEF TalkInv, TalkType
<1>5. PICK x : x = IF w.deleted THEN w.text ELSE top
  OBVIOUS
<1>6. PICK m : m = [w EXCEPT !.text = x]
  OBVIOUS
<1>7. m.own /\ m.kind = w.kind /\ (m.deleted <=> w.deleted) /\ m.text = x
  BY <1>1, <1>6 DEF Message
<1>8. Puts(p, n, m)
  <2>1. messages' = [messages EXCEPT ![p][n].text = IF messages[p][n].deleted THEN @ ELSE sealed']
    BY DEF editMessage
  <2> QED
    BY <1>1, <1>3, <1>5, <1>6, <2>1 DEF Puts
<1>9. PICK f : f = Frame("edit", n, sealed', Slot(rat[p]))
  OBVIOUS
<1>10. f.type = "edit" /\ f.nonce = n /\ f.arg = top /\ dispatch(p, f)
  <2>1. dispatch(p, f)
    BY <1>9 DEF editMessage
  <2>2. f = Frame("edit", n, top, Slot(rat[p]))
    BY <1>3, <1>9
  <2>3. f.type = "edit" /\ f.nonce = n /\ f.arg = top
    BY ONLY <2>2, FrameFields
  <2> QED
    BY <2>1, <2>3
<1>11. Plainly' => Plainly
  BY Unfaulted DEF editMessage
<1>12. \A q \in Pages : Way(q)' = IF q = Other(p) THEN Way(q) \cup {f} ELSE Way(q)
  BY <1>10, DispatchAll DEF TalkInv
<1>13. ASSUME Plainly
       PROVE  Synced(m, messages[Other(p)][n], About(Way(Other(p)), n) \cup {f}, sealed')
  <2>1. PICK X : X = About(Way(Other(p)), n)
    OBVIOUS
  <2>2. PICK o \in Message : o = messages[Other(p)][n]
    BY OtherPage, OwnIsThere
  <2>3. Synced(w, o, X, all)
    BY <1>1, <1>2, <1>13, <2>1, <2>2, OtherPage DEF InTouch
  <2>4. EditNumbers(X, all) /\ m.text = IF w.deleted THEN w.text ELSE top
    BY <1>2, <1>5, <1>7, <2>1
  <2>5. Synced(m, o, X \cup {f}, top)
    BY ONLY <1>1, <1>2, <1>3, <1>7, <1>10, <2>2, <2>3, <2>4, SyncedEdits
  <2> QED
    BY <1>3, <2>1, <2>2, <2>5
<1>14. f.nonce = n /\ (Opening(f) \/ Changing(f))
  BY <1>10 DEF Changing
<1> QED
  BY ONLY TalkInv, TalkInv', InTouch, p \in Pages, n \in Nonces, <1>4, <1>7, <1>8, <1>11, <1>12,
          <1>13, <1>14, AuthorInTouch

LEMMA DeleteInTouch ==
  ASSUME TalkInv, TalkInv', InTouch, NEW p \in Pages, NEW n \in Nonces,
         deleteMessage(p, n), terminals' = terminals
  PROVE  InTouch'
<1>1. PICK w \in Message : w = messages[p][n] /\ w.own /\ ~w.deleted
  BY OwnIsThere DEF deleteMessage
<1>2. PICK all \in Nat : all = sealed /\ all = sealed'
  BY Bounds DEF TalkInv, TalkType, deleteMessage
<1>3. sealed' \in sealed..MaxSealed
  BY <1>2, Bounds DEF TalkInv, TalkType
<1>4. PICK m : m = [w EXCEPT !.deleted = TRUE, !.text = 0]
  OBVIOUS
<1>5. m.own /\ m.kind = w.kind /\ m.deleted /\ m.text = 0
  BY <1>1, <1>4 DEF Message
<1>6. Puts(p, n, m)
  <2>1. messages' = [messages EXCEPT ![p][n].deleted = TRUE, ![p][n].text = 0]
    BY DEF deleteMessage
  <2>2. messages \in [Pages -> [Nonces -> Message]]
    BY DEF TalkInv, TalkType
  <2> QED
    BY <1>1, <1>4, <2>1, <2>2 DEF Puts
<1>7. PICK f : f = Plain("delete", n)
  OBVIOUS
<1>8. f.type = "delete" /\ f.nonce = n /\ dispatch(p, f)
  BY <1>7, FrameFields DEF deleteMessage, Plain
<1>9. Plainly' => Plainly
  BY Unfaulted DEF deleteMessage
<1>10. \A q \in Pages : Way(q)' = IF q = Other(p) THEN Way(q) \cup {f} ELSE Way(q)
  BY <1>8, DispatchAll DEF TalkInv
<1>11. ASSUME Plainly
       PROVE  Synced(m, messages[Other(p)][n], About(Way(Other(p)), n) \cup {f}, sealed')
  <2>1. PICK X : X = About(Way(Other(p)), n)
    OBVIOUS
  <2>2. PICK o \in Message : o = messages[Other(p)][n]
    BY OtherPage, OwnIsThere
  <2>3. Synced(w, o, X, all)
    BY <1>1, <1>2, <1>11, <2>1, <2>2, OtherPage DEF InTouch
  <2>4. Synced(m, o, X \cup {f}, all)
    BY ONLY <1>1, <1>2, <1>5, <1>8, <2>2, <2>3, SyncedDeletes
  <2> QED
    BY <1>2, <2>1, <2>2, <2>4
<1>12. f.nonce = n /\ (Opening(f) \/ Changing(f))
  BY <1>8 DEF Changing
<1> QED
  BY ONLY TalkInv, TalkInv', InTouch, p \in Pages, n \in Nonces, <1>3, <1>5, <1>6, <1>9, <1>10,
          <1>11, <1>12, AuthorInTouch

\* What is said about a message behind the frame that is read.
Behind(f, X, Y) == /\ f \in X /\ Y \subseteq X /\ X \subseteq Y \cup {f}
                   /\ \A g \in Y : Follows(TRUE, f, g) /\ f.nonce = g.nonce

LEMMA ReadWay ==
  ASSUME TalkInv, InStep, Plainly, faults' = faults, terminals' = terminals, link' = link,
         NEW p \in Pages, NEW f, Arrives(p, f)
  PROVE  /\ Way(p) = Way(p)' \cup {f} /\ \A q \in Pages \ {p} : Way(q)' = Way(q)
         /\ \A g \in Way(p)' : Follows(TRUE, f, g)
<1>1. Plainly' => Plainly
  BY Unfaulted
<1>2. Ways /\ Lines /\ OneLine
  BY DEF TalkInv, InStep, Joined
<1>3. Way(p) = Way(p)' \cup {f} /\ \A q \in Pages \ {p} : Way(q)' = Way(q)
  BY <1>1, <1>2, ArrivesLine
<1>4. \A g \in Way(p)' : Follows(TRUE, f, g)
  BY <1>1, <1>2, ArrivesLine
<1> QED
  BY <1>3, <1>4

LEMMA ReadAbout ==
  ASSUME TalkInv, InStep, Plainly, faults' = faults, terminals' = terminals, link' = link,
         NEW p \in Pages, NEW f, Arrives(p, f), Opening(f) \/ Changing(f)
  PROVE  Behind(f, About(Way(p), f.nonce), About(Way(p)', f.nonce))
<1>1. Way(p) = Way(p)' \cup {f}
  BY ReadWay
<1>2. \A g \in Way(p)' : Follows(TRUE, f, g)
  BY ReadWay
<1> QED
  BY <1>1, <1>2 DEF About, Behind

\* A page reads what opens, edits or deletes a message of the other.
LEMMA ReadInTouch ==
  ASSUME TalkInv, TalkInv', InStep, InTouch, Plainly, faults' = faults, terminals' = terminals,
         link' = link, sealed' = sealed, NEW p \in Pages, NEW f, Arrives(p, f),
         Opening(f) \/ Changing(f), NEW n \in Nonces, n = f.nonce,
         NEW o \in Message, o = messages[p][n], ~o.own, messages[Other(p)][n].own,
         NEW v \in Message, ~v.own, v.kind # "none", Puts(p, n, v),
         \/ Opening(f) /\ v.text = o.text /\ (v.deleted <=> o.deleted)
         \/ f.type = "edit" /\ ~o.deleted /\ v.text = f.arg /\ ~v.deleted
         \/ f.type = "edit" /\ o.deleted /\ v.text = o.text /\ v.deleted
         \/ f.type = "delete" /\ v.text = 0 /\ v.deleted
  PROVE  InTouch'
<1>1. PICK X : X = About(Way(p), n)
  OBVIOUS
<1>2. PICK Y : Y = About(Way(p)', n)
  OBVIOUS
<1>3. /\ f \in X /\ Y \subseteq X /\ X \subseteq Y \cup {f}
      /\ \A g \in Y : Follows(TRUE, f, g) /\ f.nonce = g.nonce
      /\ Way(p) = Way(p)' \cup {f} /\ \A q \in Pages \ {p} : Way(q)' = Way(q)
  <2>1. Behind(f, X, Y)
    BY <1>1, <1>2, ReadAbout
  <2> QED
    BY <2>1, ReadWay DEF Behind
<1>4. PICK m \in Message : m = messages[Other(p)][n] /\ m.own
  BY OtherPage, OwnIsThere
<1>5. PICK all \in Nat : all = sealed /\ EditNumbers(X, all)
  BY <1>1, EditsNumbered, Bounds DEF TalkInv, TalkType
<1>6. Synced(m, o, X, all)
  BY <1>1, <1>4, <1>5 DEF InTouch
<1>7. Synced(m, v, Y, all)
  BY ONLY <1>3, <1>4, <1>5, <1>6, o \in Message, v \in Message, v.kind # "none",
         \/ Opening(f) /\ v.text = o.text /\ (v.deleted <=> o.deleted)
         \/ f.type = "edit" /\ ~o.deleted /\ v.text = f.arg /\ ~v.deleted
         \/ f.type = "edit" /\ o.deleted /\ v.text = o.text /\ v.deleted
         \/ f.type = "delete" /\ v.text = 0 /\ v.deleted,
         SyncedRead
<1>8. Plainly => Synced(messages[Other(p)][n], v, About(Way(p)', n), sealed)
  BY <1>2, <1>4, <1>5, <1>7
<1>9. ~v.own /\ Puts(p, n, v) /\ sealed' = sealed /\ f.nonce = n /\ ~messages[p][n].own
  OBVIOUS
<1>10. Plainly' => Plainly
  BY Unfaulted
<1> QED
  BY ONLY TalkInv, TalkInv', InTouch, p \in Pages, n \in Nonces, <1>3, <1>8, <1>9, <1>10,
          ReaderInTouch

LEMMA OpenedInTouch ==
  ASSUME TalkInv, TalkInv', InStep, InTouch, Plainly, faults' = faults, terminals' = terminals,
         link' = link, sealed' = sealed, NEW p \in Pages, NEW f, Arrives(p, f), Opening(f),
         NEW k \in {"text", "file"}, NEW w \in BOOLEAN,
         messages' = [messages EXCEPT ![p][f.nonce] = Shown(k, FALSE, w)]
  PROVE  InTouch'
<1>1. f \in Way(p)
  BY ArrivesWay DEF TalkInv
<1>2. PICK n \in Nonces : /\ n = f.nonce /\ messages[p][n] = Absent /\ messages[Other(p)][n].own
  BY <1>1, OpenedOnce
<1>3. PICK o \in Message : o = messages[p][n] /\ ~o.own /\ o.text = 0 /\ ~o.deleted
  BY <1>2, MessageType DEF Absent
<1>4. PICK v : v = Shown(k, FALSE, w)
  OBVIOUS
<1>5. v \in Message /\ ~v.own /\ v.kind # "none" /\ ~v.deleted
  BY <1>4, ReceivedType
<1>6. v.text = 0
  BY <1>4 DEF Shown, Absent
<1>7. Puts(p, n, v)
  BY <1>2, <1>4 DEF Puts
<1>8. /\ Plainly /\ faults' = faults /\ terminals' = terminals /\ link' = link /\ sealed' = sealed
      /\ Arrives(p, f) /\ (Opening(f) \/ Changing(f)) /\ n = f.nonce /\ messages[Other(p)][n].own
      /\ Opening(f) /\ v.text = o.text /\ (v.deleted <=> o.deleted)
  BY <1>2, <1>3, <1>5, <1>6
<1> QED
  BY ONLY TalkInv, TalkInv', InStep, InTouch, p \in Pages, n \in Nonces, <1>3, <1>5, <1>7, <1>8,
          ReadInTouch

LEMMA ReceivesOpeningInTouch ==
  ASSUME TalkInv, TalkInv', Secrecy, InStep, InTouch, NEW p \in Pages,
         ReceivesText(p) \/ ReceivesInit(p), terminals' = terminals
  PROVE  InTouch'
<1>1. CASE ~Plainly
  BY <1>1, Unfaulted DEF InTouch, ReceivesText, ReceivesInit
<1>2. ASSUME Plainly, ReceivesText(p)
      PROVE  InTouch'
  <2>1. PICK f : /\ f.type \in {"text", "file"} /\ Arrives(p, f) /\ decryptFrom(p, f)
                 /\ Readable(p, f) => messages' = [messages EXCEPT ![p][f.nonce] =
                             IF @.kind = "none" THEN Shown(f.type, FALSE, TRUE) ELSE @]
                 /\ link' = link /\ sealed' = sealed /\ faults' = faults
    BY <1>2 DEF ReceivesText
  <2>2. Opening(f) /\ IsSealed(f)
    BY <2>1 DEF Opening, IsSealed
  <2>3. Readable(p, f)
    BY <1>2, <2>1, <2>2, ReadInStep DEF TalkInv, TalkType
  <2>4. f.nonce \in Nonces /\ messages[p][f.nonce].kind = "none"
    BY <2>1, <2>2, ArrivesWay, OpenedOnce, MessageType DEF TalkInv
  <2>5. messages' = [messages EXCEPT ![p][f.nonce] = Shown(f.type, FALSE, TRUE)]
    BY <2>1, <2>3, <2>4 DEF TalkInv, TalkType
  <2>6. PICK k \in {"text", "file"} : k = f.type
    BY <2>1
  <2>7. PICK w \in BOOLEAN : w = TRUE
    OBVIOUS
  <2>8. messages' = [messages EXCEPT ![p][f.nonce] = Shown(k, FALSE, w)]
    BY <2>5, <2>6, <2>7
  <2> QED
    BY ONLY TalkInv, TalkInv', InStep, InTouch, <1>2, p \in Pages, terminals' = terminals,
            <2>1, <2>2, <2>8, OpenedInTouch
<1>3. ASSUME Plainly, ReceivesInit(p)
      PROVE  InTouch'
  <2>1. PICK f : /\ f.type = "init" /\ Arrives(p, f) /\ decryptFrom(p, f)
                 /\ Readable(p, f) /\ receiver[p][f.nonce] = Closed =>
                       messages' = [messages EXCEPT ![p][f.nonce] =
                             IF @.kind = "none" THEN Shown("file", FALSE, FALSE) ELSE @]
                 /\ link' = link /\ sealed' = sealed /\ faults' = faults
    BY <1>3 DEF ReceivesInit, decodeFileStreamInit
  <2>2. Opening(f) /\ IsSealed(f)
    BY <2>1 DEF Opening, IsSealed
  <2>3. Readable(p, f)
    BY <1>3, <2>1, <2>2, ReadInStep DEF TalkInv, TalkType
  <2>4. /\ f.nonce \in Nonces /\ messages[p][f.nonce].kind = "none"
        /\ receiver[p][f.nonce] = Closed
    BY <2>1, <2>2, ArrivesWay, OpenedOnce, MessageType DEF TalkInv
  <2>5. messages' = [messages EXCEPT ![p][f.nonce] = Shown("file", FALSE, FALSE)]
    BY <2>1, <2>3, <2>4 DEF TalkInv, TalkType
  <2>6. PICK k \in {"text", "file"} : k = "file"
    OBVIOUS
  <2>7. PICK w \in BOOLEAN : w = FALSE
    OBVIOUS
  <2>8. messages' = [messages EXCEPT ![p][f.nonce] = Shown(k, FALSE, w)]
    BY <2>5, <2>6, <2>7
  <2> QED
    BY ONLY TalkInv, TalkInv', InStep, InTouch, <1>3, p \in Pages, terminals' = terminals,
            <2>1, <2>2, <2>8, OpenedInTouch
<1> QED
  BY <1>1, <1>2, <1>3

\* What changes a message finds it there, and it is the other page's.
LEMMA ChangeFinds ==
  ASSUME TalkInv, InStep, InTouch, Plainly, faults' = faults, terminals' = terminals,
         link' = link, NEW p \in Pages, NEW f, Arrives(p, f), Changing(f),
         NEW n \in Nonces, n = f.nonce
  PROVE  /\ messages[Other(p)][n].own /\ ~messages[p][n].own /\ messages[p][n].kind # "none"
         /\ f.type = "edit" => messages[p][n].kind = "text"
<1>1. PICK X : X = About(Way(p), f.nonce)
  OBVIOUS
<1>2. PICK Y : Y = About(Way(p)', f.nonce)
  OBVIOUS
<1>3. /\ f \in X /\ X \subseteq Y \cup {f}
      /\ \A g \in Y : Follows(TRUE, f, g)
      /\ \A g \in Y : f.nonce = g.nonce
  <2>1. Behind(f, X, Y)
    BY <1>1, <1>2, ReadAbout
  <2> QED
    BY <2>1 DEF Behind
<1>4. PICK m : m = messages[Other(p)][n]
  OBVIOUS
<1>5. PICK o : o = messages[p][n]
  OBVIOUS
<1>6. Synced(m, o, X, sealed)
  BY <1>1, <1>4, <1>5 DEF InTouch
<1>7. m.own /\ o.kind # "none" /\ (f.type = "edit" => m.kind = "text")
  BY ONLY <1>3, <1>6, Changing(f), SyncedFinds
<1>8. Kept(p, n) /\ Kept(Other(p), n) /\ Other(p) \in Pages /\ Other(Other(p)) = p
  BY OtherPage DEF TalkInv
<1>9. ~o.own
  BY <1>4, <1>5, <1>7, <1>8 DEF Kept
<1>10. o.kind = m.kind
  BY <1>4, <1>5, <1>7, <1>8, <1>9 DEF Kept
<1> QED
  BY <1>4, <1>5, <1>7, <1>9, <1>10

LEMMA ReceivesEditInTouch ==
  ASSUME TalkInv, TalkInv', Secrecy, InStep, InTouch, NEW p \in Pages, ReceivesEdit(p),
         terminals' = terminals
  PROVE  InTouch'
<1>1. CASE ~Plainly
  BY <1>1, Unfaulted DEF InTouch, ReceivesEdit
<1>2. ASSUME Plainly
      PROVE  InTouch'
  <2>1. PICK f : /\ f.type = "edit" /\ Arrives(p, f) /\ decryptFrom(p, f)
                 /\ Readable(p, f) => messages' = [messages EXCEPT ![p][f.nonce] = edited(@, f)]
                 /\ link' = link /\ sealed' = sealed /\ faults' = faults
    BY DEF ReceivesEdit
  <2>2. Changing(f) /\ IsSealed(f) /\ ~Opening(f)
    BY <2>1 DEF Opening, Changing, IsSealed
  <2>3. Readable(p, f)
    BY <1>2, <2>1, <2>2, ReadInStep DEF TalkInv, TalkType
  <2>4. PICK n \in Nonces : n = f.nonce /\ f.arg \in Nonces
    BY <2>1, ArrivesWay DEF TalkInv, Carried
  <2>5. PICK o \in Message : o = messages[p][n]
    BY OwnIsThere
  <2>6. messages[Other(p)][n].own /\ ~o.own /\ o.kind = "text"
    BY <1>2, <2>1, <2>2, <2>4, <2>5, ChangeFinds
  <2>7. PICK v : v = edited(o, f)
    OBVIOUS
  <2>8. Puts(p, n, v)
    BY <2>1, <2>3, <2>4, <2>5, <2>7 DEF Puts
  <2>9. /\ v \in Message /\ ~v.own /\ v.kind # "none"
        /\ \/ ~o.deleted /\ v.text = f.arg /\ ~v.deleted
           \/ o.deleted /\ v.text = o.text /\ v.deleted
    <3>1. f.arg \in 0..MaxSealed
      BY <2>4, Bounds DEF Nonces
    <3>2. CASE o.deleted
      BY <2>6, <2>7, <3>2 DEF edited
    <3>3. CASE ~o.deleted
      <4>1. v = [o EXCEPT !.text = f.arg]
        BY <2>6, <2>7, <3>3 DEF edited
      <4>2. v.text = f.arg
        BY <4>1 DEF Message
      <4>3. v \in Message /\ v.kind = o.kind /\ (v.own <=> o.own) /\ (v.deleted <=> o.deleted)
        BY <3>1, <4>1, TextPatched
      <4> QED
        BY <2>6, <3>3, <4>2, <4>3
    <3> QED
      BY <3>2, <3>3
  <2>10. /\ Plainly /\ faults' = faults /\ terminals' = terminals /\ link' = link
         /\ sealed' = sealed /\ Arrives(p, f) /\ (Opening(f) \/ Changing(f)) /\ n = f.nonce
         /\ messages[Other(p)][n].own /\ o = messages[p][n] /\ ~o.own
    BY <1>2, <2>1, <2>2, <2>4, <2>5, <2>6
  <2>11. \/ f.type = "edit" /\ ~o.deleted /\ v.text = f.arg /\ ~v.deleted
         \/ f.type = "edit" /\ o.deleted /\ v.text = o.text /\ v.deleted
    BY <2>1, <2>9
  <2> QED
    BY ONLY TalkInv, TalkInv', InStep, InTouch, p \in Pages, n \in Nonces, o \in Message, <2>8,
            <2>9, <2>10, <2>11, ReadInTouch
<1> QED
  BY <1>1, <1>2

LEMMA ReceivesDeleteInTouch ==
  ASSUME TalkInv, TalkInv', InStep, InTouch, NEW p \in Pages, ReceivesDelete(p),
         terminals' = terminals
  PROVE  InTouch'
<1>1. CASE ~Plainly
  BY <1>1, Unfaulted DEF InTouch, ReceivesDelete
<1>2. ASSUME Plainly
      PROVE  InTouch'
  <2>1. PICK f : /\ f.type = "delete" /\ Arrives(p, f)
                 /\ messages' = [messages EXCEPT ![p][f.nonce] = deletes(@)]
                 /\ link' = link /\ sealed' = sealed /\ faults' = faults
    BY DEF ReceivesDelete
  <2>2. Changing(f) /\ ~Opening(f)
    BY <2>1 DEF Opening, Changing
  <2>3. PICK n \in Nonces : n = f.nonce
    BY <2>1, ArrivesWay DEF TalkInv, Carried
  <2>4. PICK o \in Message : o = messages[p][n]
    BY OwnIsThere
  <2>5. messages[Other(p)][n].own /\ ~o.own /\ o.kind # "none"
    BY <1>2, <2>1, <2>2, <2>3, <2>4, ChangeFinds
  <2>6. PICK v : v = deletes(o)
    OBVIOUS
  <2>7. Puts(p, n, v)
    BY <2>1, <2>3, <2>4, <2>6 DEF Puts
  <2>8. v \in Message /\ ~v.own /\ v.kind # "none" /\ v.text = 0 /\ v.deleted
    <3>1. v = [o EXCEPT !.deleted = TRUE, !.text = 0]
      BY <2>5, <2>6 DEF deletes
    <3>2. 0 \in 0..MaxSealed
      BY Bounds
    <3> QED
      BY <2>5, <3>1, <3>2 DEF Message
  <2>9. /\ Plainly /\ faults' = faults /\ terminals' = terminals /\ link' = link
        /\ sealed' = sealed /\ Arrives(p, f) /\ (Opening(f) \/ Changing(f)) /\ n = f.nonce
        /\ messages[Other(p)][n].own /\ o = messages[p][n] /\ ~o.own
    BY <1>2, <2>1, <2>2, <2>3, <2>4, <2>5
  <2>10. f.type = "delete" /\ v.text = 0 /\ v.deleted
    BY <2>1, <2>8
  <2> QED
    BY ONLY TalkInv, TalkInv', InStep, InTouch, p \in Pages, n \in Nonces, o \in Message, <2>7,
            <2>8, <2>9, <2>10, ReadInTouch
<1> QED
  BY <1>1, <1>2

\* One message of a page changes in nothing that is compared, and no frame that
\* is about a message comes or goes.
LEMMA PutAlike ==
  ASSUME TalkInv, NEW p \in Pages, NEW n \in Nonces, NEW m, Puts(p, n, m),
         Alike(m, messages[p][n])
  PROVE  \A q \in Pages, k \in Nonces : Alike(messages'[q][k], messages[q][k])
<1>1. messages'[p][n] = m
  BY PutOne
<1>2. \A q \in Pages, k \in Nonces : q # p \/ k # n => messages'[q][k] = messages[q][k]
  BY PutOne
<1> QED
  BY <1>1, <1>2, AlikeSelf

LEMMA AboutSame ==
  ASSUME \A q \in Pages : \A g : Opening(g) \/ Changing(g) => (g \in Way(q)' <=> g \in Way(q))
  PROVE  \A q \in Pages : \A k : About(Way(q)', k) = About(Way(q), k)
BY DEF About

LEMMA AlikeInTouch ==
  ASSUME TalkInv, TalkInv', InTouch, Plainly' => Plainly, sealed' = sealed,
         \A q \in Pages, k \in Nonces : Alike(messages'[q][k], messages[q][k]),
         Plainly => \A q \in Pages : \A g :
            Opening(g) \/ Changing(g) => (g \in Way(q)' <=> g \in Way(q))
  PROVE  InTouch'
<1>1. CASE ~Plainly
  BY <1>1 DEF InTouch
<1>2. CASE Plainly
  <2>1. messages' \in [Pages -> [Nonces -> Message]] /\ sealed' \in sealed..MaxSealed
    BY Bounds DEF TalkInv, TalkType
  <2>2. \A q \in Pages : \A k : About(Way(q)', k) = About(Way(q), k)
    BY <1>2, AboutSame
  <2>3. \A q \in Pages, k \in Nonces :
           Alike(messages'[q][k], messages[q][k]) /\ About(Way(q)', k) = About(Way(q), k)
    BY <2>2
  <2> QED
    BY ONLY TalkInv, InTouch, Plainly' => Plainly, <2>1, <2>3, StillInTouch
<1> QED
  BY <1>1, <1>2

LEMMA SameWay ==
  ASSUME relay' = relay, direct' = direct
  PROVE  \A q \in Pages : \A g : Opening(g) \/ Changing(g) => (g \in Way(q)' <=> g \in Way(q))
BY DEF Way

\* Receipts, and streams that break off.
LEMMA QuietInTouch ==
  ASSUME TalkInv, TalkInv', InTouch, NEW p \in Pages, terminals' = terminals,
         \/ ReceivesReceipt(p) \/ StreamInterrupted(p) \/ StreamStalls(p)
         \/ \E n \in Nonces : markAsRead(p, n)
  PROVE  InTouch'
<1>1. /\ relay' = relay /\ direct' = direct /\ sealed' = sealed /\ faults' = faults
  BY DEF ReceivesReceipt, StreamInterrupted, StreamStalls, markAsRead, queues
<1>2. messages \in [Pages -> [Nonces -> Message]]
  BY DEF TalkInv, TalkType
<1>3. ASSUME NEW n \in Nonces, NEW m, NEW w \in Message, w = messages[p][n],
             (\E x : m = [w EXCEPT !.status = x]) \/ (\E x : m = [w EXCEPT !.fileError = x]),
             messages' = [messages EXCEPT ![p][n] = m]
      PROVE  \A q \in Pages, k \in Nonces : Alike(messages'[q][k], messages[q][k])
  <2>1. Alike(m, w)
    BY <1>3 DEF Alike, Message
  <2>2. Puts(p, n, m)
    BY <1>3 DEF Puts
  <2>3. Alike(m, messages[p][n])
    BY <1>3, <2>1
  <2> QED
    BY <2>2, <2>3, PutAlike
<1>4. \A q \in Pages, k \in Nonces : Alike(messages'[q][k], messages[q][k])
  <2>1. CASE ReceivesReceipt(p)
    <3>1. PICK f \in receipts[p] :
             messages' = [messages EXCEPT ![p][f.nonce].status =
                                IF f.type = "read" \/ @ = "seen" THEN "seen" ELSE "delivered"]
      BY <2>1 DEF ReceivesReceipt
    <3>2. PICK n \in Nonces : n = f.nonce
      BY DEF TalkInv, Vouched
    <3>3. PICK w \in Message : w = messages[p][n]
      BY OwnIsThere
    <3>4. PICK st : st = IF f.type = "read" \/ w.status = "seen" THEN "seen" ELSE "delivered"
      OBVIOUS
    <3>5. PICK m : m = [w EXCEPT !.status = st]
      OBVIOUS
    <3>6. messages' = [messages EXCEPT ![p][n].status = st]
      BY <1>2, <3>1, <3>2, <3>3, <3>4
    <3>7. messages' = [messages EXCEPT ![p][n] = m]
      BY <1>2, <3>3, <3>5, <3>6
    <3> QED
      BY <1>3, <3>3, <3>5, <3>7
  <2>2. CASE StreamInterrupted(p) \/ StreamStalls(p)
    <3>1. PICK n \in Nonces : messages' = [messages EXCEPT ![p][n].fileError = TRUE]
      BY <2>2 DEF StreamInterrupted, StreamStalls, TalkInv
    <3>2. PICK w \in Message : w = messages[p][n]
      BY OwnIsThere
    <3>3. PICK m : m = [w EXCEPT !.fileError = TRUE]
      OBVIOUS
    <3>4. messages' = [messages EXCEPT ![p][n] = m]
      BY <1>2, <3>1, <3>2, <3>3
    <3> QED
      BY <1>3, <3>2, <3>3, <3>4
  <2>3. CASE \E n \in Nonces : markAsRead(p, n)
    BY <2>3, AlikeSelf DEF markAsRead
  <2> QED
    BY <2>1, <2>2, <2>3
<1>5. (Plainly' => Plainly) /\ sealed' = sealed
  BY <1>1, Unfaulted
<1>6. \A q \in Pages : \A g : Opening(g) \/ Changing(g) => (g \in Way(q)' <=> g \in Way(q))
  BY <1>1, SameWay
<1> QED
  BY ONLY TalkInv, TalkInv', InTouch, <1>4, <1>5, <1>6, AlikeInTouch

\* Three fields of a message change that are not compared.
LEMMA FileAlike ==
  ASSUME TalkInv, NEW p \in Pages, NEW n \in Nonces, NEW e, NEW d, NEW st,
         messages' = [messages EXCEPT ![p][n].fileError = e, ![p][n].whole = d, ![p][n].status = st]
  PROVE  \A q \in Pages, k \in Nonces : Alike(messages'[q][k], messages[q][k])
<1>1. messages \in [Pages -> [Nonces -> Message]]
  BY DEF TalkInv, TalkType
<1>2. PICK w \in Message : w = messages[p][n]
  BY <1>1
<1>3. PICK m1 : m1 = [w EXCEPT !.fileError = e]
  OBVIOUS
<1>4. PICK m2 : m2 = [m1 EXCEPT !.whole = d]
  OBVIOUS
<1>5. PICK m : m = [m2 EXCEPT !.status = st]
  OBVIOUS
<1>6. Alike(m, w)
  BY <1>3, <1>4, <1>5 DEF Alike, Message
<1>7. Puts(p, n, m)
  BY <1>1, <1>2, <1>3, <1>4, <1>5 DEF Puts
<1> QED
  BY <1>2, <1>6, <1>7, PutAlike

\* The frames of a stream.
LEMMA ChunkInTouch ==
  ASSUME TalkInv, TalkInv', InStep, InTouch, NEW p \in Pages, terminals' = terminals,
         SendsChunk(p) \/ ReceivesChunk(p)
  PROVE  InTouch'
<1>1. sealed' = sealed /\ faults' = faults /\ link' = link
  BY DEF SendsChunk, ReceivesChunk
<1>2. (Plainly' => Plainly) /\ sealed' = sealed
  BY <1>1, Unfaulted
<1>3. CASE SendsChunk(p)
  <2>1. PICK f : f = frames(sending[p])
    OBVIOUS
  <2>2. dispatchDirect(p, f) /\ messages' = messages
    BY <1>3, <2>1 DEF SendsChunk
  <2>3. f.type = "chunk"
    BY <2>1, FrameFields DEF frames
  <2>4. ~(Opening(f) \/ Changing(f))
    BY <2>3 DEF Opening, Changing
  <2>5. \A q \in Pages : Way(q)' = IF q = Other(p) THEN Way(q) \cup {f} ELSE Way(q)
    BY <2>2, DispatchAll DEF TalkInv
  <2>6. \A q \in Pages : \A g : Opening(g) \/ Changing(g) => (g \in Way(q)' <=> g \in Way(q))
    BY <2>4, <2>5
  <2>7. \A q \in Pages, k \in Nonces : Alike(messages'[q][k], messages[q][k])
    BY <2>2, AlikeSelf
  <2> QED
    BY ONLY TalkInv, TalkInv', InTouch, <1>2, <2>6, <2>7, AlikeInTouch
<1>4. CASE ReceivesChunk(p)
  <2>1. PICK f : /\ frameFileId(f) # 0 /\ Arrives(p, f)
                 /\ LET id == frameFileId(f)
                        next == acceptFrame(receiver[p][id], f) IN
                    \/ UNCHANGED messages
                    \/ messages' = [messages EXCEPT
                          ![p][id].fileError = @ \/ next = Closed,
                          ![p][id].whole = isDone(next),
                          ![p][id].status = IF isDone(next) THEN "delivered" ELSE @]
    BY <1>4, Zenon DEF ReceivesChunk
  <2>2. f.type = "chunk"
    BY <2>1 DEF frameFileId
  <2>3. ~(Opening(f) \/ Changing(f))
    BY <2>2 DEF Opening, Changing
  <2>4. ASSUME Plainly
        PROVE  \A q \in Pages : \A g : Opening(g) \/ Changing(g) => (g \in Way(q)' <=> g \in Way(q))
    <3>1. Way(p) = Way(p)' \cup {f} /\ \A q \in Pages \ {p} : Way(q)' = Way(q)
      BY <1>1, <2>1, <2>4, ReadWay
    <3> QED
      BY <2>3, <3>1
  <2>5. PICK n \in Nonces : n = frameFileId(f)
    BY <2>1, <2>2, ArrivesWay DEF TalkInv, Carried, frameFileId
  <2>6. PICK next : next = acceptFrame(receiver[p][n], f)
    OBVIOUS
  <2>7. \A q \in Pages, k \in Nonces : Alike(messages'[q][k], messages[q][k])
    <3>1. CASE UNCHANGED messages
      BY <3>1, AlikeSelf
    <3>2. CASE messages' = [messages EXCEPT
                  ![p][n].fileError = @ \/ next = Closed,
                  ![p][n].whole = isDone(next),
                  ![p][n].status = IF isDone(next) THEN "delivered" ELSE @]
      <4>1. messages \in [Pages -> [Nonces -> Message]]
        BY DEF TalkInv, TalkType
      <4>2. PICK w \in Message : w = messages[p][n]
        BY <4>1
      <4>3. PICK e : e = (w.fileError \/ next = Closed)
        OBVIOUS
      <4>4. PICK d : d = isDone(next)
        OBVIOUS
      <4>5. PICK st : st = IF isDone(next) THEN "delivered" ELSE w.status
        OBVIOUS
      <4>6. messages' = [messages EXCEPT ![p][n].fileError = e, ![p][n].whole = d,
                                         ![p][n].status = st]
        BY <3>2, <4>1, <4>2, <4>3, <4>4, <4>5
      <4> QED
        BY <4>6, FileAlike
    <3> QED
      BY <2>1, <2>5, <2>6, <3>1, <3>2
  <2> QED
    BY ONLY TalkInv, TalkInv', InTouch, <1>2, <2>4, <2>7, AlikeInTouch
<1> QED
  BY <1>3, <1>4

LEMMA InTouchStarts == Init => InTouch
<1> SUFFICES ASSUME Init, NEW p \in Pages, NEW n \in Nonces
             PROVE  Synced(messages[Other(p)][n], messages[p][n], About(Way(p), n), sealed)
  BY DEF InTouch
<1>1. Way(p) = {}
  BY NoEntries DEF Init, Way, EmptyStore
<1>2. messages[Other(p)][n] = Absent
  BY OtherPage DEF Init
<1>3. ~messages[Other(p)][n].own
  BY <1>2 DEF Absent
<1> QED
  BY <1>1, <1>3 DEF Synced, About

LEMMA InTouchStep ==
  ASSUME TalkInv, TalkInv', Secrecy, InStep, InTouch, [Next]_vars
  PROVE  InTouch'
<1>1. CASE UNCHANGED vars
  <2>1. /\ relay' = relay /\ direct' = direct /\ messages' = messages /\ sealed' = sealed
        /\ faults' = faults /\ terminals' = terminals
    BY <1>1 DEF vars, queues
  <2>2. \A q \in Pages, k \in Nonces : Alike(messages'[q][k], messages[q][k])
    BY <2>1, AlikeSelf
  <2>3. \A q \in Pages : \A g : Opening(g) \/ Changing(g) => (g \in Way(q)' <=> g \in Way(q))
    BY <2>1, SameWay
  <2>4. (Plainly' => Plainly) /\ sealed' = sealed
    BY <2>1, Unfaulted
  <2> QED
    BY ONLY TalkInv, TalkInv', InTouch, <2>2, <2>3, <2>4, AlikeInTouch
<1>2. CASE Next
  <2>1. terminals' = terminals /\ terminals \subseteq Pages
    BY <1>2 DEF Next, TalkInv, TalkType
  <2>2. ASSUME NEW p \in Pages, User(p)
        PROVE  InTouch'
    <3>1. ASSUME NEW k \in {"text", "file"}, Sends(p, k)
          PROVE  InTouch'
      <4>1. PICK f : f = Frame(k, sealed', 0, Slot(rat[p]))
        OBVIOUS
      <4>2. /\ f.type = k /\ f.nonce = sealed' /\ dispatch(p, f) /\ faults' = faults
            /\ sealed < MaxSealed /\ sealed' = sealed + 1
            /\ messages' = [messages EXCEPT ![p][sealed'] = Shown(k, TRUE, TRUE)]
        BY <3>1, <4>1 DEF Sends, Seal, Frame
      <4>3. Opening(f)
        BY <4>2 DEF Opening
      <4> QED
        BY <2>1, <4>2, <4>3, OpensInTouch
    <3>2. CASE sendFileStream(p)
      <4>1. PICK f : f = Frame("init", sealed', 0, Slot(rat[p]))
        OBVIOUS
      <4>2. PICK k \in {"text", "file"} : k = "file"
        OBVIOUS
      <4>3. /\ f.type = "init" /\ f.nonce = sealed' /\ dispatchDirect(p, f) /\ faults' = faults
            /\ sealed < MaxSealed /\ sealed' = sealed + 1
            /\ messages' = [messages EXCEPT ![p][sealed'] = Shown(k, TRUE, TRUE)]
        BY <3>2, <4>1, <4>2 DEF sendFileStream, Seal, Frame
      <4>4. Opening(f)
        BY <4>3 DEF Opening
      <4> QED
        BY <2>1, <4>3, <4>4, OpensInTouch
    <3>3. ASSUME NEW n \in Nonces, editMessage(p, n) \/ deleteMessage(p, n) \/ markAsRead(p, n)
          PROVE  InTouch'
      BY <2>1, <3>3, EditInTouch, DeleteInTouch, QuietInTouch
    <3> QED
      BY <2>2, <3>1, <3>2, <3>3 DEF User, sendMessage, sendFile
  <2>3. ASSUME NEW p \in Pages, Page(p) \/ StreamStalls(p)
        PROVE  InTouch'
    BY <2>1, <2>3, ReceivesOpeningInTouch, ReceivesEditInTouch, ReceivesDeleteInTouch,
       QuietInTouch, ChunkInTouch DEF Page
  <2>4. CASE \E p \in terminals : Terminal(p)
    BY <2>1, <2>4 DEF InTouch, Plainly
  <2>5. CASE LinkOpens \/ LinkDies \/ \E p \in Pages : RelayLoses(p)
    <3>1. faults' = faults + 1 /\ faults \in Nat
      BY <2>5 DEF LinkOpens, LinkDies, RelayLoses, Fault, InStep
    <3> QED
      BY <3>1 DEF InTouch, Plainly
  <2> QED
    BY <1>2, <2>2, <2>3, <2>4, <2>5 DEF Next
<1> QED
  BY <1>1, <1>2

LEMMA StaysInTouch == Spec => []InTouch
<1>1. TalkInv /\ TalkInv' /\ Secrecy /\ InStep /\ InTouch /\ [Next]_vars => InTouch'
  BY InTouchStep
<1> QED
  BY <1>1, InTouchStarts, TalkIsSound, SecretHolds, StaysInStep, PTL DEF Spec

\* Converges: when nothing was lost, no path changed and neither page is a terminal,
\* two pages that have read everything show the same messages, with the same edit
\* and the same deletions, whoever wrote what in which order (editMessage,
\* deleteMessage and the handlers of the frames they send).
THEOREM PagesConverge == Spec => []Converges
<1>1. TalkInv /\ InTouch => Converges
  <2> SUFFICES ASSUME TalkInv, InTouch, Plainly, Delivered, NEW n \in Nonces
               PROVE  /\ messages[Alice][n].kind = messages[Bob][n].kind
                      /\ messages[Alice][n].text = messages[Bob][n].text
                      /\ messages[Alice][n].deleted = messages[Bob][n].deleted
    BY DEF Converges, Plainly
  <2>1. \A p \in Pages : Way(p) = {}
    BY NoEntries DEF Delivered, Way, EmptyStore
  <2>2. ASSUME NEW p \in Pages, messages[Other(p)][n].own
        PROVE  /\ messages[p][n].kind = messages[Other(p)][n].kind
               /\ messages[p][n].text = messages[Other(p)][n].text
               /\ messages[p][n].deleted <=> messages[Other(p)][n].deleted
    <3>1. PICK m : m = messages[Other(p)][n] /\ m.own
      BY <2>2
    <3>2. PICK o : o = messages[p][n]
      OBVIOUS
    <3>3. PICK X : X = About(Way(p), n) /\ X = {}
      BY <2>1 DEF About
    <3>4. Synced(m, o, X, sealed)
      BY <3>1, <3>2, <3>3 DEF InTouch
    <3>5. Catches(m, o, X, sealed)
      BY <3>1, <3>4 DEF Synced
    <3>6. o.kind # "none" /\ o.text = m.text /\ (o.deleted <=> m.deleted)
      BY <3>3, <3>5 DEF Catches
    <3>7. Kept(p, n) /\ Kept(Other(p), n) /\ Other(p) \in Pages /\ Other(Other(p)) = p
      BY OtherPage DEF TalkInv
    <3>8. ~o.own
      BY <3>1, <3>2, <3>7 DEF Kept
    <3>9. o.kind = m.kind
      BY <3>1, <3>2, <3>6, <3>7, <3>8 DEF Kept
    <3> QED
      BY <3>1, <3>2, <3>6, <3>9
  <2>3. Alice \in Pages /\ Bob \in Pages /\ Other(Alice) = Bob /\ Other(Bob) = Alice
    BY PagesDiffer DEF Pages, Other
  <2>4. PICK a \in Message : a = messages[Alice][n]
    BY <2>3, OwnIsThere
  <2>5. PICK b \in Message : b = messages[Bob][n]
    BY <2>3, OwnIsThere
  <2>6. a.kind = b.kind /\ a.text = b.text /\ (a.deleted <=> b.deleted)
    <3>1. CASE a.own \/ b.own
      BY <2>2, <2>3, <2>4, <2>5, <3>1
    <3>2. CASE ~a.own /\ ~b.own
      <4>1. Kept(Alice, n) /\ Kept(Bob, n)
        BY <2>3 DEF TalkInv
      <4>2. a.kind = "none" /\ b.kind = "none"
        BY <2>3, <2>4, <2>5, <3>2, <4>1 DEF Kept
      <4>3. a = Absent /\ b = Absent
        BY <2>4, <2>5, <4>1, <4>2 DEF Kept
      <4> QED
        BY <4>3
    <3> QED
      BY <3>1, <3>2
  <2>7. a.deleted \in BOOLEAN /\ b.deleted \in BOOLEAN
    BY DEF Message
  <2> QED
    BY <2>4, <2>5, <2>6, <2>7
<1> QED
  BY <1>1, StaysInTouch, TalkIsSound, PTL

\* Over one path nothing is ever missing: however many frames are sealed, the
\* next one to arrive can be opened.
NoneDropped == Plainly => \A p \in Pages : \A f \in Heads(p) : IsSealed(f) => Readable(p, f)

\* The next frame of the one path, and what follows it.
LEMMA HeadFirst ==
  ASSUME Ways, Lines, OneLine, Plainly, NEW p \in Pages, NEW f \in Heads(p)
  PROVE  \E X : Way(p) = X \cup {f} /\ \A g \in X : Follows(TRUE, f, g)
<1>1. PICK s : s \in {relay[p], direct[p]} /\ s # <<>> /\ f = s[1]
  BY DEF Heads
<1>2. IsSeq(s) /\ Ordered(Plainly, s)
  BY <1>1 DEF Ways, Lines
<1>3. PICK S : s \in Seq(S)
  BY <1>2 DEF IsSeq
<1>4. f = Head(s) /\ Len(s) \in Nat \ {0}
  BY <1>1, <1>3, LenProperties
<1>5. PICK c : c = Tail(s)
  OBVIOUS
<1>6. In(<<>>) = {}
  BY NoEntries DEF EmptyStore
<1>7. Way(p) = In(s)
  <2>1. relay[p] = <<>> \/ direct[p] = <<>>
    BY DEF OneLine
  <2> QED
    BY <1>1, <1>6, <2>1 DEF Way
<1>8. PICK t : t = <<>> /\ In(t) = {}
  BY <1>6
<1>9. Disjointed(s, t)
  BY <1>8 DEF Disjointed
<1>10. In(s) = In(c) \cup {f}
  BY <1>1, <1>2, <1>4, <1>5, <1>9, TakenLine
<1>11. \A g \in In(c) : Follows(Plainly, f, g)
  BY <1>1, <1>2, <1>4, <1>5, <1>9, TakenLine
<1>12. \A g \in In(c) : Follows(TRUE, f, g)
  BY <1>11 DEF Follows
<1> QED
  BY <1>7, <1>10, <1>12

\* Without faults, and with no terminal, no sealed frame is dropped where it
\* arrives (decryptFrom, ratchetDecrypt): the page comes to the numbers of each
\* chain one after the other, without a bound on what is sealed or on MAX_SKIP.
THEOREM NoFrameDropped == Spec => []NoneDropped
<1>1. TalkInv /\ Secrecy /\ InStep => NoneDropped
  <2> SUFFICES ASSUME TalkInv, Secrecy, InStep, Plainly, NEW p \in Pages, NEW f \in Heads(p),
                      IsSealed(f)
               PROVE  Readable(p, f)
    BY DEF NoneDropped
  <2>1. Ways /\ Lines /\ OneLine /\ Joined
    BY DEF TalkInv, InStep, Joined
  <2>2. PICK X : Way(p) = X \cup {f} /\ \A g \in X : Follows(TRUE, f, g)
    BY <2>1, HeadFirst
  <2>3. PICK s : s = rat[Other(p)]
    OBVIOUS
  <2>4. PICK r : r = rat[p]
    OBVIOUS
  <2>5. PICK all \in 0..MaxSealed : all = sealed
    BY DEF TalkInv, TalkType
  <2>6. PICK o \in Pages : o = Other(p) /\ Other(o) = p
    BY OtherPage
  <2>7. PICK W : W = Way(p)
    OBVIOUS
  <2>8. PICK V : V = Way(o)
    OBVIOUS
  <2>9. /\ Linked(o, s, r, W) /\ Linked(p, r, s, V) /\ Expected(s, r, W)
        /\ RatchetOk(s) /\ RatchetOk(r)
    BY <2>1, <2>3, <2>4, <2>6, <2>7, <2>8, JoinedIs DEF Both, Secrecy
  <2>10. PICK d : d = decrypt(r, f.slot)
    OBVIOUS
  <2>11. f \in W /\ X \subseteq W /\ W \subseteq X \cup {f} /\ \A g \in X : Differ(f, g)
    BY <2>2, <2>7 DEF Follows
  <2>12. Expected(s, r, W) /\ \A g \in X : Follows(TRUE, f, g)
    BY <2>2, <2>9
  <2>13. Opened(o, p, s, r, W, V, f, X, all, d)
    BY <2>9, <2>10, <2>11, <2>12, OpenLinks
  <2> QED
    BY <2>4, <2>10, <2>13 DEF Readable, Opened
<1> QED
  BY <1>1, StaysInStep, TalkIsSound, SecretHolds, PTL

(* The numbers a conversation comes to *)

\* No end of a channel is ahead of what was sealed, of which there are `all`.
UpTo(s, all) == s.Ns \in 0..all /\ s.Nr \in 0..all
SealedBefore(h, all) == h.n \in Nat /\ h.n < all /\ h.mk = kdfCK(h.mk[1], h.n)
Receipts == {Plain(t, n) : t \in {"ack", "read"}, n \in Nonces}

RatchetsCounted ==
    /\ \A p \in Pages : UpTo(rat[p], sealed)
    /\ \A p \in Pages : \A f \in Way(p) : IsSealed(f) => SealedBefore(f.slot, sealed)

Tallies ==
    /\ link \in BOOLEAN /\ faults \in 0..MaxFaults
    /\ readSent \in [Pages -> SUBSET Nonces]
    /\ \A p \in Pages : receipts[p] \subseteq Receipts
    /\ \A p \in Pages, n \in Nonces : receiver[p][n] \in Closed..(Chunks - 1)

LEMMA SkipCounts ==
  ASSUME NEW s, RatchetOk(s), NEW until \in Nat, NEW dh,
         NEW t, t = skipMessageKeys(s, until, dh)
  PROVE  RatchetOk(t) /\ t.Ns = s.Ns /\ t.Nr \in {s.Nr, until}
<1>1. RatchetOk(t)
  BY SkipKeeps
<1>2. CASE s.CKr = Null \/ s.Nr >= until
  BY <1>1, <1>2 DEF skipMessageKeys
<1>3. CASE ~(s.CKr = Null \/ s.Nr >= until)
  <2>1. PICK q : t = [s EXCEPT !.MKSKIPPED = q, !.Nr = until]
    BY <1>3 DEF skipMessageKeys
  <2>2. t = [RK |-> s.RK, CKs |-> s.CKs, CKr |-> s.CKr, DHs |-> s.DHs, DHr |-> s.DHr,
             Ns |-> s.Ns, Nr |-> until, PN |-> s.PN, MKSKIPPED |-> q]
    BY <2>1 DEF RatchetOk
  <2> QED
    BY <1>1, <2>2
<1> QED
  BY <1>2, <1>3

\* A page reads on to the frame it opens, and not further.
LEMMA DecryptCounts ==
  ASSUME NEW s, RatchetOk(s), NEW all \in Nat, UpTo(s, all),
         NEW h, SlotOk(h), SealedBefore(h, all), NEW d, d = decrypt(s, h)
  PROVE  UpTo(d.s, all)
<1>1. PICK hits : hits = {i \in DOMAIN s.MKSKIPPED :
                             s.MKSKIPPED[i].dh = h.dh /\ s.MKSKIPPED[i].n = h.n}
  OBVIOUS
<1>2. PICK s0 : s0 = skipMessageKeys(s, h.pn, s.DHr)
  OBVIOUS
<1>3. PICK s1 : s1 = IF h.dh # s.DHr THEN dhRatchet(s0, h.dh) ELSE s
  OBVIOUS
<1>4. PICK s2 : s2 = skipMessageKeys(s1, h.n, h.dh)
  OBVIOUS
<1>5. RatchetOk(s0) /\ s0.Ns = s.Ns
  BY <1>2, SkipCounts DEF SlotOk
<1>6. RatchetOk(s1) /\ s1.Ns \in 0..all
  <2>1. CASE h.dh # s.DHr
    <3>1. s1 = dhRatchet(s0, h.dh)
      BY <1>3, <2>1
    <3>2. RatchetOk(s1)
      BY <1>5, <3>1, TurnKeeps
    <3>3. s1.Ns = 0
      BY <1>5, <3>1, TurnFields
    <3> QED
      BY <3>2, <3>3
  <2>2. CASE h.dh = s.DHr
    BY <1>3, <2>2 DEF UpTo
  <2> QED
    BY <2>1, <2>2
<1>7. RatchetOk(s2) /\ s2.Ns \in 0..all
  BY <1>4, <1>6, SkipCounts DEF SlotOk
<1>8. CASE hits # {}
  <2>1. PICK i : i = CHOOSE j \in hits : TRUE
    OBVIOUS
  <2>2. d = IF s.MKSKIPPED[i].mk = h.mk
            THEN [ok |-> TRUE, s |-> [s EXCEPT !.MKSKIPPED = Forget(@, i)]]
            ELSE [ok |-> FALSE, s |-> s]
    BY <1>1, <1>8, <2>1 DEF decrypt
  <2>3. PICK t : t = [s EXCEPT !.MKSKIPPED = Forget(@, i)]
    OBVIOUS
  <2>4. t = [RK |-> s.RK, CKs |-> s.CKs, CKr |-> s.CKr, DHs |-> s.DHs, DHr |-> s.DHr,
             Ns |-> s.Ns, Nr |-> s.Nr, PN |-> s.PN, MKSKIPPED |-> t.MKSKIPPED]
    BY <2>3 DEF RatchetOk
  <2>5. t.Ns = s.Ns /\ t.Nr = s.Nr
    BY <2>4
  <2>6. d.s = t \/ d.s = s
    BY <2>2, <2>3
  <2> QED
    BY <2>5, <2>6 DEF UpTo
<1>9. CASE hits = {}
  <2>1. PICK bad \in BOOLEAN :
           bad <=> \/ (h.dh # s.DHr /\ TooFar(s, h.pn)) \/ TooFar(s1, h.n) \/ s2.CKr = Null
                   \/ kdfCK(s2.CKr, s2.Nr) # h.mk
    OBVIOUS
  <2>2. d = IF bad THEN [ok |-> FALSE, s |-> s] ELSE [ok |-> TRUE, s |-> [s2 EXCEPT !.Nr = @ + 1]]
    BY <1>1, <1>2, <1>3, <1>4, <1>9, <2>1 DEF decrypt
  <2>3. CASE bad
    BY <2>2, <2>3
  <2>4. CASE ~bad
    <3>1. PICK t : t = [s2 EXCEPT !.Nr = @ + 1]
      OBVIOUS
    <3>2. s2.Nr = h.n
      BY <2>1, <2>4 DEF SealedBefore, kdfCK
    <3>3. t = [RK |-> s2.RK, CKs |-> s2.CKs, CKr |-> s2.CKr, DHs |-> s2.DHs, DHr |-> s2.DHr,
               Ns |-> s2.Ns, Nr |-> s2.Nr + 1, PN |-> s2.PN, MKSKIPPED |-> s2.MKSKIPPED]
      BY <1>7, <3>1 DEF RatchetOk
    <3>4. t.Ns \in 0..all /\ t.Nr = h.n + 1
      BY <1>7, <3>2, <3>3
    <3>5. d.s = t
      BY <2>2, <2>4, <3>1
    <3>6. h.n + 1 \in 0..all
      BY DEF SealedBefore
    <3> QED
      BY <3>4, <3>5, <3>6 DEF UpTo
  <2> QED
    BY <2>3, <2>4
<1> QED
  BY <1>8, <1>9

LEMMA SealCounts ==
  ASSUME NEW s, RatchetOk(s), NEW all \in Nat, UpTo(s, all)
  PROVE  UpTo(Advanced(s), all + 1) /\ SealedBefore(Slot(s), all + 1)
<1>1. PICK t : t = Advanced(s)
  OBVIOUS
<1>2. PICK h : h = Slot(s)
  OBVIOUS
<1>3. /\ t.Nr = s.Nr /\ h.mk = kdfCK(t.CKs, h.n)
      /\ s.CKs # Null => t.Ns = s.Ns + 1 /\ h.n = s.Ns
      /\ s.CKs = Null => t.Ns = 1 /\ h.n = 0
  BY <1>1, <1>2, SealFields
<1>4. h.mk = kdfCK(h.mk[1], h.n)
  BY <1>3 DEF kdfCK
<1>5. t.Ns \in 0..(all + 1) /\ t.Nr \in 0..(all + 1) /\ h.n \in Nat /\ h.n < all + 1
  BY <1>3 DEF UpTo
<1> QED
  BY <1>1, <1>2, <1>4, <1>5 DEF UpTo, SealedBefore

LEMMA SealCounted ==
  ASSUME Ways, Secrecy, RatchetsCounted, sealed \in 0..MaxSealed, NEW p \in Pages, NEW f,
         f.slot = Slot(rat[p]), Seal(p), dispatch(p, f) \/ dispatchDirect(p, f)
  PROVE  RatchetsCounted'
<1>1. PICK all \in Nat : all = sealed /\ sealed' = all + 1
  BY Bounds DEF Seal
<1>2. PICK t : t = Advanced(rat[p])
  OBVIOUS
<1>3. \A q \in Pages : rat'[q] = IF q = p THEN t ELSE rat[q]
  BY <1>2 DEF Seal, Secrecy
<1>4. \A q \in Pages : UpTo(rat[q], all)
  BY <1>1 DEF RatchetsCounted
<1>5. UpTo(t, all + 1) /\ SealedBefore(f.slot, all + 1)
  BY <1>2, <1>4, SealCounts DEF Secrecy
<1>6. ASSUME NEW q \in Pages
      PROVE  UpTo(rat'[q], sealed')
  <2>1. \A s : UpTo(s, all) => UpTo(s, all + 1)
    BY DEF UpTo
  <2> QED
    BY <1>1, <1>3, <1>4, <1>5, <2>1
<1>7. ASSUME NEW q \in Pages, NEW g \in Way(q)', IsSealed(g)
      PROVE  SealedBefore(g.slot, sealed')
  <2>1. \A h : SealedBefore(h, all) => SealedBefore(h, all + 1)
    BY DEF SealedBefore
  <2>2. g \in Way(q) \/ g = f
    BY CarriesWay
  <2> QED
    BY <1>1, <1>5, <1>7, <2>1, <2>2 DEF RatchetsCounted
<1> QED
  BY <1>6, <1>7 DEF RatchetsCounted

LEMMA ReadCounted ==
  ASSUME Ways, Secrecy, RatchetsCounted, sealed \in 0..MaxSealed, NEW p \in Pages, NEW f,
         IsSealed(f), Arrives(p, f), decryptFrom(p, f), sealed' = sealed
  PROVE  RatchetsCounted'
<1>1. PICK all \in Nat : all = sealed
  BY Bounds
<1>2. PICK h : h = f.slot
  OBVIOUS
<1>3. PICK d : d = decrypt(rat[p], h)
  OBVIOUS
<1>4. f \in Way(p) /\ \A q \in Pages : Way(q)' \subseteq Way(q)
  BY ArrivesWay
<1>5. SlotOk(h) /\ SealedBefore(h, all)
  BY <1>1, <1>2, <1>4 DEF Secrecy, RatchetsCounted
<1>6. UpTo(d.s, all)
  BY <1>1, <1>3, <1>5, DecryptCounts DEF Secrecy, RatchetsCounted
<1>7. rat' = [rat EXCEPT ![p] = d.s]
  BY <1>2, <1>3 DEF decryptFrom
<1>8. \A q \in Pages : rat'[q] = IF q = p THEN d.s ELSE rat[q]
  BY <1>7 DEF Secrecy
<1> QED
  BY <1>1, <1>4, <1>6, <1>8 DEF RatchetsCounted

LEMMA QuietCounted ==
  ASSUME RatchetsCounted, rat' = rat, sealed' = sealed,
         \A q \in Pages : \A g \in Way(q)' : g \in Way(q) \/ ~IsSealed(g)
  PROVE  RatchetsCounted'
BY DEF RatchetsCounted

LEMMA StillCounted ==
  ASSUME RatchetsCounted, rat' = rat, sealed' = sealed, relay' = relay, direct' = direct
  PROVE  RatchetsCounted'
<1>1. \A q \in Pages : Way(q)' = Way(q)
  BY DEF Way
<1> QED
  BY <1>1, QuietCounted

LEMMA UserCounted ==
  ASSUME TalkInv, Secrecy, RatchetsCounted, NEW p \in Pages, User(p) \/ sendChat(p)
  PROVE  RatchetsCounted'
<1> USE DEF TalkInv, TalkType
<1>1. ASSUME NEW kind, Sends(p, kind)
      PROVE  RatchetsCounted'
  <2>1. PICK f : f = Frame(kind, sealed', 0, Slot(rat[p]))
    OBVIOUS
  <2>2. f.slot = Slot(rat[p]) /\ Seal(p) /\ dispatch(p, f)
    BY <1>1, <2>1 DEF Sends, Frame
  <2> QED
    BY <2>2, SealCounted
<1>2. CASE sendFileStream(p)
  <2>1. PICK f : f = Frame("init", sealed', 0, Slot(rat[p]))
    OBVIOUS
  <2>2. f.slot = Slot(rat[p]) /\ Seal(p) /\ dispatchDirect(p, f)
    BY <1>2, <2>1 DEF sendFileStream, Frame
  <2> QED
    BY <2>2, SealCounted
<1>3. ASSUME NEW n \in Nonces, editMessage(p, n)
      PROVE  RatchetsCounted'
  <2>1. PICK f : f = Frame("edit", n, sealed', Slot(rat[p]))
    OBVIOUS
  <2>2. f.slot = Slot(rat[p]) /\ Seal(p) /\ dispatch(p, f)
    BY <1>3, <2>1 DEF editMessage, Frame
  <2> QED
    BY <2>2, SealCounted
<1>4. ASSUME NEW n \in Nonces, deleteMessage(p, n)
      PROVE  RatchetsCounted'
  <2>1. PICK f : f = Plain("delete", n)
    OBVIOUS
  <2>2. ~IsSealed(f) /\ dispatch(p, f) /\ rat' = rat /\ sealed' = sealed
    BY <1>4, <2>1 DEF deleteMessage, Plain, Frame, IsSealed
  <2>3. \A q \in Pages : \A g \in Way(q)' : g \in Way(q) \/ ~IsSealed(g)
    BY <2>2, CarriesWay
  <2> QED
    BY <2>2, <2>3, QuietCounted
<1>5. ASSUME NEW n \in Nonces, markAsRead(p, n)
      PROVE  RatchetsCounted'
  BY <1>5, StillCounted DEF markAsRead
<1> QED
  BY <1>1, <1>2, <1>3, <1>4, <1>5 DEF User, sendChat, sendMessage, sendFile

LEMMA PageCounted ==
  ASSUME TalkInv, Secrecy, RatchetsCounted, NEW p \in Pages,
         Page(p) \/ StreamStalls(p) \/ TerminalReads(p) \/ TerminalSkipsReceipt(p)
  PROVE  RatchetsCounted'
<1> USE DEF TalkInv, TalkType
<1>1. CASE ReceivesText(p) \/ ReceivesEdit(p) \/ ReceivesInit(p)
  <2>1. PICK f : Arrives(p, f) /\ decryptFrom(p, f) /\ IsSealed(f) /\ sealed' = sealed
    <3>1. CASE ReceivesText(p)
      BY <3>1 DEF ReceivesText, IsSealed
    <3>2. CASE ReceivesEdit(p)
      BY <3>2 DEF ReceivesEdit, IsSealed
    <3>3. CASE ReceivesInit(p)
      BY <3>3 DEF ReceivesInit, decodeFileStreamInit, IsSealed
    <3> QED
      BY <1>1, <3>1, <3>2, <3>3
  <2> QED
    BY <2>1, ReadCounted
<1>2. ASSUME NEW f, Arrives(p, f), rat' = rat, sealed' = sealed
      PROVE  RatchetsCounted'
  BY <1>2, ArrivesWay, QuietCounted
<1>3. CASE ReceivesDelete(p) \/ ReceivesChunk(p)
  <2>1. \E f : Arrives(p, f) /\ rat' = rat /\ sealed' = sealed
    BY <1>3 DEF ReceivesDelete, ReceivesChunk
  <2> QED
    BY <1>2, <2>1
<1>4. CASE TerminalReads(p)
  <2>1. PICK f : /\ Arrives(p, f) /\ sealed' = sealed
                 /\ (f.type = "text" /\ decryptFrom(p, f)) \/ rat' = rat
    BY <1>4 DEF TerminalReads
  <2>2. f.type = "text" => IsSealed(f)
    BY DEF IsSealed
  <2> QED
    BY <1>2, <2>1, <2>2, ReadCounted
<1>5. CASE SendsChunk(p)
  <2>1. PICK f : f = frames(sending[p])
    OBVIOUS
  <2>2. ~IsSealed(f) /\ dispatchDirect(p, f) /\ rat' = rat /\ sealed' = sealed
    BY <1>5, <2>1 DEF SendsChunk, frames, Frame, IsSealed
  <2>3. \A q \in Pages : \A g \in Way(q)' : g \in Way(q) \/ ~IsSealed(g)
    BY <2>2, CarriesWay
  <2> QED
    BY <2>2, <2>3, QuietCounted
<1>6. CASE ReceivesReceipt(p) \/ StreamInterrupted(p) \/ StreamStalls(p) \/ TerminalSkipsReceipt(p)
  <2>1. rat' = rat /\ sealed' = sealed /\ relay' = relay /\ direct' = direct
    BY <1>6 DEF ReceivesReceipt, StreamInterrupted, StreamStalls, TerminalSkipsReceipt, queues
  <2> QED
    BY <2>1, StillCounted
<1> QED
  BY <1>1, <1>3, <1>4, <1>5, <1>6 DEF Page

LEMMA CountedStep ==
  ASSUME TalkInv, Secrecy, RatchetsCounted, [Next]_vars
  PROVE  RatchetsCounted'
<1>1. Ways /\ terminals \subseteq Pages
  BY DEF TalkInv, TalkType
<1>2. CASE UNCHANGED vars
  BY <1>2, StillCounted DEF vars, queues
<1>3. CASE \E p \in Pages \ terminals : User(p) \/ Page(p) \/ StreamStalls(p)
  BY <1>3, UserCounted, PageCounted
<1>4. CASE \E p \in terminals : Terminal(p)
  BY <1>1, <1>4, UserCounted, PageCounted DEF Terminal
<1>5. CASE LinkDies \/ \E p \in Pages : RelayLoses(p)
  <2>1. rat' = rat /\ sealed' = sealed
    BY <1>5 DEF LinkDies, RelayLoses
  <2>2. \A q \in Pages : Way(q)' \subseteq Way(q)
    BY <1>1, <1>5, LossWay
  <2> QED
    BY <2>1, <2>2, QuietCounted
<1>6. CASE LinkOpens
  BY <1>6, StillCounted DEF LinkOpens, queues
<1> QED
  BY <1>2, <1>3, <1>4, <1>5, <1>6 DEF Next

LEMMA CountedStarts == Init => RatchetsCounted /\ Tallies
<1> SUFFICES ASSUME Init
             PROVE  RatchetsCounted /\ Tallies
  OBVIOUS
<1>1. \A p \in Pages : relay[p] = <<>> /\ direct[p] = <<>>
  BY DEF Init
<1>2. \A p \in Pages : Way(p) = {}
  BY <1>1, NoEntries DEF Way, EmptyStore
<1>3. \A p \in Pages : rat[p].Ns = 0 /\ rat[p].Nr = 0
  <2>1. \A own, remote : /\ initAlice(own, remote).Ns = 0 /\ initAlice(own, remote).Nr = 0
                         /\ initBob(own, remote).Ns = 0 /\ initBob(own, remote).Nr = 0
    BY DEF initAlice, initBob
  <2>2. \A p \in Pages : rat[p] = initAlice(Alice, Bob) \/ rat[p] = initBob(Bob, Alice)
    BY DEF Init
  <2> QED
    BY <2>1, <2>2
<1>4. RatchetsCounted
  <2>1. sealed = 0
    BY DEF Init
  <2> QED
    BY <1>2, <1>3, <2>1 DEF RatchetsCounted, UpTo
<1>5. \A p \in Pages, n \in Nonces : receiver[p][n] \in Closed..(Chunks - 1)
  <2>1. Closed \in Closed..(Chunks - 1)
    BY Bounds DEF Closed
  <2>2. \A p \in Pages, n \in Nonces : receiver[p][n] = Closed
    BY DEF Init
  <2> QED
    BY <2>1, <2>2
<1>6. link \in BOOLEAN /\ faults \in 0..MaxFaults /\ readSent \in [Pages -> SUBSET Nonces]
      /\ \A p \in Pages : receipts[p] \subseteq Receipts
  BY Bounds DEF Init
<1> QED
  BY <1>4, <1>5, <1>6 DEF Tallies

\* A fault takes place only below the bound, which counts what was looked at too.
LEMMA FaultsBounded ==
  ASSUME Tallies, Fault
  PROVE  faults' \in 0..MaxFaults
<1>1. IsFiniteSet(Nonces)
  BY Bounds, FS_Interval DEF Nonces
<1>2. \A p \in Pages : Cardinality(readSent[p]) \in Nat
  <2> SUFFICES ASSUME NEW p \in Pages
               PROVE  Cardinality(readSent[p]) \in Nat
    OBVIOUS
  <2>1. readSent[p] \subseteq Nonces
    BY DEF Tallies
  <2>2. IsFiniteSet(readSent[p])
    BY <1>1, <2>1, FS_Subset
  <2> QED
    BY <2>2, FS_CardinalityType
<1>3. PICK a \in Nat : a = Cardinality(readSent[Alice])
  BY <1>2 DEF Pages
<1>4. PICK b \in Nat : b = Cardinality(readSent[Bob])
  BY <1>2 DEF Pages
<1>5. a + b + faults < MaxFaults /\ faults' = faults + 1
  BY <1>3, <1>4 DEF Fault, Looks
<1> QED
  BY <1>3, <1>4, <1>5, Bounds DEF Tallies

\* At most a receipt is added, for a message that there is.
LEMMA TalliesKept ==
  ASSUME TalkInv, Tallies, link' \in BOOLEAN, faults' \in 0..MaxFaults, readSent' = readSent,
         \/ receipts' = receipts
         \/ \E p \in Pages : \E n \in Nonces : \E t \in {"ack", "read"} :
               dispatchJittered(p, Plain(t, n))
         \/ \E p \in Pages : \E f : receipts' = [receipts EXCEPT ![p] = @ \ {f}],
         \A p \in Pages, n \in Nonces : receiver'[p][n] \in Closed..(Chunks - 1)
  PROVE  Tallies'
<1>1. \A q \in Pages : receipts'[q] \subseteq Receipts
  <2>1. CASE receipts' = receipts
    BY <2>1 DEF Tallies
  <2>2. ASSUME NEW p \in Pages, NEW n \in Nonces, NEW t \in {"ack", "read"},
               dispatchJittered(p, Plain(t, n))
        PROVE  \A q \in Pages : receipts'[q] \subseteq Receipts
    <3>1. PICK f \in Receipts : f = Plain(t, n)
      BY DEF Receipts
    <3>2. \A q \in Pages : receipts'[q] \subseteq receipts[q] \cup {f}
      BY <2>2, <3>1 DEF dispatchJittered, TalkInv, TalkType
    <3> QED
      BY <3>1, <3>2 DEF Tallies
  <2>3. ASSUME NEW p \in Pages, NEW f, receipts' = [receipts EXCEPT ![p] = @ \ {f}]
        PROVE  \A q \in Pages : receipts'[q] \subseteq Receipts
    <3>1. \A q \in Pages : receipts'[q] \subseteq receipts[q]
      BY <2>3 DEF TalkInv, TalkType
    <3> QED
      BY <3>1 DEF Tallies
  <2> QED
    BY <2>1, <2>2, <2>3
<1> QED
  BY <1>1 DEF Tallies

LEMMA OneReceiver ==
  ASSUME TalkInv, Tallies, NEW p \in Pages, NEW n \in Nonces,
         NEW r \in Closed..(Chunks - 1), receiver' = [receiver EXCEPT ![p][n] = r]
  PROVE  \A q \in Pages, k \in Nonces : receiver'[q][k] \in Closed..(Chunks - 1)
<1>1. receiver \in [Pages -> [Nonces -> Int]]
  BY DEF TalkInv, TalkType
<1>2. \A q \in Pages, k \in Nonces :
         receiver'[q][k] = IF q = p /\ k = n THEN r ELSE receiver[q][k]
  BY <1>1
<1> QED
  BY <1>2 DEF Tallies

LEMMA UserTallies ==
  ASSUME TalkInv, Tallies, NEW p \in Pages, User(p) \/ sendChat(p)
  PROVE  Tallies'
<1>1. ASSUME link' = link, faults' = faults, readSent' = readSent, receipts' = receipts,
             receiver' = receiver
      PROVE  Tallies'
  BY <1>1 DEF Tallies
<1>2. ASSUME NEW kind, Sends(p, kind)
      PROVE  Tallies'
  BY <1>1, <1>2 DEF Sends, files
<1>3. CASE sendFileStream(p)
  BY <1>1, <1>3 DEF sendFileStream
<1>4. ASSUME NEW n \in Nonces, editMessage(p, n) \/ deleteMessage(p, n)
      PROVE  Tallies'
  BY <1>1, <1>4 DEF editMessage, deleteMessage, files
<1>5. ASSUME NEW n \in Nonces, markAsRead(p, n)
      PROVE  Tallies'
  <2>1. /\ link' = link /\ faults' = faults /\ receiver' = receiver
        /\ readSent' = [readSent EXCEPT ![p] = @ \cup {n}]
        /\ dispatchJittered(p, Plain("read", n))
    BY <1>5 DEF markAsRead, files
  <2>2. readSent' \in [Pages -> SUBSET Nonces]
    BY <2>1 DEF Tallies
  <2>3. PICK f \in Receipts : f = Plain("read", n)
    BY DEF Receipts
  <2>4. \A q \in Pages : receipts'[q] \subseteq receipts[q] \cup {f}
    BY <2>1, <2>3 DEF dispatchJittered, TalkInv, TalkType
  <2>5. \A q \in Pages : receipts'[q] \subseteq Receipts
    BY <2>3, <2>4 DEF Tallies
  <2> QED
    BY <2>1, <2>2, <2>5 DEF Tallies
<1> QED
  BY <1>2, <1>3, <1>4, <1>5 DEF User, sendChat, sendMessage, sendFile

LEMMA PageTallies ==
  ASSUME TalkInv, Tallies, NEW p \in Pages,
         Page(p) \/ StreamStalls(p) \/ TerminalReads(p) \/ TerminalSkipsReceipt(p)
  PROVE  Tallies'
<1>1. Closed \in Closed..(Chunks - 1) /\ FileStreamReceiver \in Closed..(Chunks - 1)
  BY Bounds DEF Closed, FileStreamReceiver
<1>2. ASSUME NEW f, Arrives(p, f)
      PROVE  f.nonce \in Nonces
  BY <1>2, ArrivesWay DEF TalkInv, Carried
<1>3. ASSUME NEW f, f.nonce \in Nonces, link' = link, faults' = faults, readSent' = readSent,
             receiver' = receiver,
             receipts' = receipts \/ dispatchJittered(p, Plain("ack", f.nonce))
      PROVE  Tallies'
  <2>1. link' \in BOOLEAN /\ faults' \in 0..MaxFaults
        /\ \A q \in Pages, n \in Nonces : receiver'[q][n] \in Closed..(Chunks - 1)
    BY <1>3 DEF Tallies
  <2> QED
    BY <1>3, <2>1, TalliesKept
<1>4. CASE ReceivesText(p) \/ TerminalReads(p)
  <2>1. PICK f : /\ Arrives(p, f) /\ link' = link /\ faults' = faults /\ readSent' = readSent
                 /\ receiver' = receiver
                 /\ receipts' = receipts \/ dispatchJittered(p, Plain("ack", f.nonce))
    BY <1>4 DEF ReceivesText, TerminalReads, files
  <2> QED
    BY <1>2, <1>3, <2>1
<1>5. CASE ReceivesEdit(p) \/ ReceivesDelete(p)
  <2>1. PICK f : /\ Arrives(p, f) /\ link' = link /\ faults' = faults /\ readSent' = readSent
                 /\ receiver' = receiver /\ receipts' = receipts
    BY <1>5 DEF ReceivesEdit, ReceivesDelete, files
  <2> QED
    BY <1>2, <1>3, <2>1
<1>6. ASSUME NEW n \in Nonces, NEW r \in Closed..(Chunks - 1),
             receiver' = [receiver EXCEPT ![p][n] = r],
             link' = link, faults' = faults, readSent' = readSent,
             receipts' = receipts \/ dispatchJittered(p, Plain("ack", n))
      PROVE  Tallies'
  <2>1. \A q \in Pages, k \in Nonces : receiver'[q][k] \in Closed..(Chunks - 1)
    BY <1>6, OneReceiver
  <2>2. link' \in BOOLEAN /\ faults' \in 0..MaxFaults
    BY <1>6 DEF Tallies
  <2> QED
    BY <1>6, <2>1, <2>2, TalliesKept
<1>7. CASE ReceivesInit(p)
  <2>1. PICK f : /\ Arrives(p, f) /\ link' = link /\ faults' = faults /\ readSent' = readSent
                 /\ receipts' = receipts
                 /\ \/ receiver' = receiver
                    \/ receiver' = [receiver EXCEPT ![p][f.nonce] = FileStreamReceiver]
    BY <1>7 DEF ReceivesInit
  <2> QED
    BY <1>1, <1>2, <1>3, <1>6, <2>1
<1>8. CASE ReceivesChunk(p)
  <2>1. PICK f : /\ frameFileId(f) # 0 /\ Arrives(p, f)
                 /\ link' = link /\ faults' = faults /\ readSent' = readSent
                 /\ LET id == frameFileId(f)
                        next == acceptFrame(receiver[p][id], f) IN
                    IF receiver[p][id] = Closed THEN receiver' = receiver /\ receipts' = receipts
                    ELSE /\ receiver' = [receiver EXCEPT ![p][id] = settled(next)]
                         /\ IF isDone(next) THEN dispatchJittered(p, Plain("ack", id))
                            ELSE receipts' = receipts
    BY <1>8 DEF ReceivesChunk
  <2>2. frameFileId(f) = f.nonce /\ f.nonce \in Nonces
    BY <1>2, <2>1 DEF frameFileId
  <2>3. PICK x \in Closed..(Chunks - 1) : x = receiver[p][f.nonce]
    BY <2>2 DEF Tallies
  <2>4. PICK next : next = acceptFrame(x, f)
    OBVIOUS
  <2>5. next = x + 1 \/ next = Closed
    BY <2>4 DEF acceptFrame, fail
  <2>6. settled(next) \in Closed..(Chunks - 1)
    <3>1. next \in -1..Chunks
      BY <2>3, <2>5, Bounds DEF Closed
    <3>2. next # Chunks => next \in -1..(Chunks - 1)
      BY <3>1, Bounds
    <3> QED
      BY <1>1, <3>2 DEF settled, isDone, Closed
  <2>7. CASE x = Closed
    BY <1>3, <2>1, <2>2, <2>3, <2>7
  <2>8. CASE x # Closed
    <3>1. /\ receiver' = [receiver EXCEPT ![p][f.nonce] = settled(next)]
          /\ receipts' = receipts \/ dispatchJittered(p, Plain("ack", f.nonce))
      BY <2>1, <2>2, <2>3, <2>4, <2>8
    <3> QED
      BY <1>6, <2>1, <2>2, <2>6, <3>1
  <2> QED
    BY <2>7, <2>8
<1>9. CASE StreamStalls(p)
  <2>1. PICK n \in Nonces : receiver' = [receiver EXCEPT ![p][n] = Closed]
    BY <1>9 DEF StreamStalls
  <2>2. link' = link /\ faults' = faults /\ readSent' = readSent /\ receipts' = receipts
    BY <1>9 DEF StreamStalls, queues
  <2> QED
    BY <1>1, <1>6, <2>1, <2>2
<1>10. CASE ReceivesReceipt(p) \/ TerminalSkipsReceipt(p)
  <2>1. /\ link' = link /\ faults' = faults /\ readSent' = readSent /\ receiver' = receiver
        /\ \E f : receipts' = [receipts EXCEPT ![p] = @ \ {f}]
    BY <1>10 DEF ReceivesReceipt, TerminalSkipsReceipt, files
  <2>2. link' \in BOOLEAN /\ faults' \in 0..MaxFaults
        /\ \A q \in Pages, n \in Nonces : receiver'[q][n] \in Closed..(Chunks - 1)
    BY <2>1 DEF Tallies
  <2> QED
    BY <2>1, <2>2, TalliesKept
<1>11. CASE SendsChunk(p) \/ StreamInterrupted(p)
  <2>1. /\ link' = link /\ faults' = faults /\ readSent' = readSent /\ receiver' = receiver
        /\ receipts' = receipts
    BY <1>11 DEF SendsChunk, StreamInterrupted, queues
  <2> QED
    BY <2>1 DEF Tallies
<1> QED
  BY <1>4, <1>5, <1>7, <1>8, <1>9, <1>10, <1>11 DEF Page

LEMMA TalliesStep ==
  ASSUME TalkInv, Tallies, [Next]_vars
  PROVE  Tallies'
<1>1. terminals \subseteq Pages
  BY DEF TalkInv, TalkType
<1>2. CASE UNCHANGED vars
  BY <1>2 DEF vars, queues, files, Tallies
<1>3. CASE \E p \in Pages \ terminals : User(p) \/ Page(p) \/ StreamStalls(p)
  BY <1>3, UserTallies, PageTallies
<1>4. CASE \E p \in terminals : Terminal(p)
  BY <1>1, <1>4, UserTallies, PageTallies DEF Terminal
<1>5. CASE LinkOpens \/ LinkDies \/ \E p \in Pages : RelayLoses(p)
  <2>1. /\ Fault /\ link' \in BOOLEAN /\ readSent' = readSent /\ receipts' = receipts
        /\ receiver' = receiver
    BY <1>5 DEF LinkOpens, LinkDies, RelayLoses, queues, files, Tallies
  <2> QED
    BY <2>1, FaultsBounded DEF Tallies
<1> QED
  BY <1>2, <1>3, <1>4, <1>5 DEF Next

\* TypeOK: the counters of the ratchet never pass the number of frames sealed, a
\* receiver never a file's chunks (acceptFrame), receipts name messages, for any
\* number of messages, chunks and faults.
THEOREM TalkTypes == Spec => []TypeOK
<1>1. TalkInv /\ Secrecy /\ RatchetsCounted /\ Tallies => TypeOK
  <2> SUFFICES ASSUME TalkInv, Secrecy, RatchetsCounted, Tallies
               PROVE  TypeOK
    OBVIOUS
  <2>1. PICK all \in 0..MaxSealed : all = sealed
    BY DEF TalkInv, TalkType
  <2>2. \A p \in Pages : rat[p].Ns \in 0..MaxSealed /\ rat[p].Nr \in 0..MaxSealed
    BY <2>1, Bounds DEF RatchetsCounted, UpTo
  <2>3. \A p \in Pages : receiver[p] \in [Nonces -> Closed..(Chunks - 1)]
    BY DEF Tallies, TalkInv, TalkType
  <2>4. \A p \in Pages : \A n \in Nonces : messages[p][n].text \in 0..MaxSealed
    BY DEF TalkInv, TalkType, Message
  <2>5. ASSUME NEW p \in Pages
        PROVE  /\ receipts[p] \subseteq {Plain(t, n) : t \in {"ack", "read"}, n \in Nonces}
               /\ readSent[p] \subseteq Nonces
    BY DEF Tallies, Receipts
  <2>6. /\ link \in BOOLEAN /\ terminals \subseteq Pages /\ sealed \in 0..MaxSealed
        /\ faults \in 0..MaxFaults
    BY DEF Tallies, TalkInv, TalkType
  <2> QED
    BY <2>2, <2>3, <2>4, <2>5, <2>6 DEF TypeOK
<1>2. TalkInv /\ Secrecy /\ RatchetsCounted /\ Tallies /\ [Next]_vars =>
        RatchetsCounted' /\ Tallies'
  BY CountedStep, TalliesStep
<1> QED
  BY <1>1, <1>2, CountedStarts, TalkIsSound, SecretHolds, PTL DEF Spec

-----------------------------------------------------------------------------
(* Verification.tla.  That nobody is shown as verified under a key that was *)
(* never compared, for any number of tabs, peers and keys.                  *)

(* The inductive invariant                                                    *)

ShownPrints == Prints \cup {NoPrint}
PinSets == [Keys -> ShownPrints]

VerificationType ==
    /\ storedPins \in PinSets
    /\ pins \in [Vaults -> PinSets]
    /\ live \in [Vaults -> [Contacts -> ShownPrints]]

\* Every pin was confirmed for the vault and the peer it is kept under.
Confirmed(kept, c) ==
    \A v \in Vaults, p \in Contacts :
        kept[contactKey(v, p)] # NoPrint => <<v, p, kept[contactKey(v, p)]>> \in c

\* What matters is that copies travel between the tabs and the storage: the
\* storage and the copy of each tab must be sound on their own.
VerificationInv ==
    /\ VerificationType
    /\ Confirmed(storedPins, compared)
    /\ \A v \in Vaults : Confirmed(pins[v], compared)

-----------------------------------------------------------------------------

LEMMA InitSound == VerificationInit => VerificationInv
<1>1. ASSUME VerificationInit PROVE VerificationType
  BY <1>1 DEF VerificationInit, VerificationType, PinSets, NoPins, ShownPrints
<1>2. ASSUME VerificationInit, NEW v \in Vaults, NEW p \in Contacts
      PROVE  NoPins[contactKey(v, p)] = NoPrint
  BY DEF NoPins, contactKey, Keys
<1>3. ASSUME VerificationInit PROVE Confirmed(NoPins, compared)
  BY <1>2, <1>3 DEF Confirmed
<1>4. ASSUME VerificationInit, NEW v \in Vaults PROVE pins[v] = NoPins
  BY <1>4 DEF VerificationInit
<1> QED BY <1>1, <1>3, <1>4 DEF VerificationInv, VerificationInit

\* A tab reads back what the storage holds.
LEMMA ReloadSound ==
    ASSUME VerificationInv, NEW v \in Vaults, Reload(v)
    PROVE  VerificationInv'
<1>1. VerificationType'
  BY DEF VerificationInv, VerificationType, Reload, PinSets, ShownPrints
<1>2. storedPins' = storedPins /\ compared' = compared BY DEF Reload
<1>3. ASSUME NEW w \in Vaults PROVE pins'[w] \in {pins[w], storedPins}
  BY DEF Reload, VerificationInv, VerificationType
<1> QED BY <1>1, <1>2, <1>3 DEF VerificationInv

\* A change of keys touches no pin.
LEMMA RefreshSound ==
    ASSUME VerificationInv, NEW v \in Vaults, NEW p \in Contacts, refreshCrypto(v, p)
    PROVE  VerificationInv'
<1>1. VerificationType'
  BY DEF VerificationInv, VerificationType, refreshCrypto, ShownPrints
<1> QED BY <1>1 DEF VerificationInv, refreshCrypto

\* Pins that are sound, saved by one tab, leave all copies sound.
LEMMA SaveSound ==
    ASSUME VerificationInv, NEW v \in Vaults, NEW next \in PinSets, setPins(v, next),
           live' = live, compared \subseteq compared', Confirmed(next, compared')
    PROVE  VerificationInv'
<1>1. VerificationType' BY DEF VerificationInv, VerificationType, setPins
<1>2. storedPins' = next BY DEF setPins
<1>3. ASSUME NEW w \in Vaults PROVE Confirmed(pins[w], compared')
  BY DEF VerificationInv, Confirmed
<1>4. ASSUME NEW w \in Vaults PROVE pins'[w] \in {pins[w], next}
  BY DEF setPins, VerificationInv, VerificationType
<1> QED BY <1>1, <1>2, <1>3, <1>4 DEF VerificationInv

LEMMA VerifySound ==
    ASSUME VerificationInv, NEW v \in Vaults, NEW p \in Contacts, verify(v, p)
    PROVE  VerificationInv'
<1> DEFINE next == [pins[v] EXCEPT ![contactKey(v, p)] = live[v][p]]
<1>1. pins[v] \in PinSets /\ live[v][p] \in ShownPrints
  BY DEF VerificationInv, VerificationType
<1>2. contactKey(v, p) \in Keys BY DEF contactKey, Keys
<1>3. next \in PinSets BY <1>1, <1>2 DEF PinSets
<1>4. ASSUME NEW w \in Vaults, NEW q \in Contacts,
             next[contactKey(w, q)] # NoPrint
      PROVE  <<w, q, next[contactKey(w, q)]>> \in compared'
  <2>1. CASE w = v /\ q = p
    BY <1>1, <1>2, <2>1 DEF PinSets, verify
  <2>2. CASE ~(w = v /\ q = p)
    <3>1. contactKey(w, q) # contactKey(v, p) /\ contactKey(w, q) \in Keys
      BY <2>2 DEF contactKey, Keys
    <3>2. next[contactKey(w, q)] = pins[v][contactKey(w, q)]
      BY <1>1, <3>1 DEF PinSets
    <3> QED BY <1>4, <3>2 DEF VerificationInv, Confirmed, verify
  <2> QED BY <2>1, <2>2
<1>5. Confirmed(next, compared') BY <1>4 DEF Confirmed
<1> QED BY <1>3, <1>5, SaveSound DEF verify

LEMMA UnverifySound ==
    ASSUME VerificationInv, NEW v \in Vaults, NEW p \in Contacts, unverify(v, p)
    PROVE  VerificationInv'
<1> DEFINE next == [pins[v] EXCEPT ![contactKey(v, p)] = NoPrint]
<1>1. pins[v] \in PinSets BY DEF VerificationInv, VerificationType
<1>2. next \in PinSets BY <1>1 DEF PinSets, ShownPrints
<1>3. ASSUME NEW w \in Vaults, NEW q \in Contacts,
             next[contactKey(w, q)] # NoPrint
      PROVE  <<w, q, next[contactKey(w, q)]>> \in compared'
  <2>1. contactKey(w, q) \in Keys BY DEF contactKey, Keys
  <2>2. next[contactKey(w, q)] = pins[v][contactKey(w, q)]
    BY <1>1, <1>3, <2>1 DEF PinSets
  <2> QED BY <1>3, <2>2 DEF VerificationInv, Confirmed, unverify
<1>4. Confirmed(next, compared') BY <1>3 DEF Confirmed
<1> QED BY <1>2, <1>4, SaveSound DEF unverify

\* A sound copy verifies only what was compared.
LEMMA SoundIsCompared == VerificationInv => VerifiedWasCompared
<1> SUFFICES ASSUME VerificationInv, NEW v \in Vaults, NEW p \in Contacts,
                    status(v, p) = "verified"
             PROVE  <<v, p, live[v][p]>> \in compared
  BY DEF VerifiedWasCompared
<1>1. pins[v][contactKey(v, p)] = live[v][p] /\ live[v][p] # NoPrint
  BY DEF status, contactStatus
<1> QED BY <1>1 DEF VerificationInv, Confirmed

-----------------------------------------------------------------------------
\* A peer is shown as verified only under a key that the user has confirmed for
\* it in this vault, for any number of tabs, peers, keys and reloads.
THEOREM NeverVerifiedUncompared == VerificationSpec => []VerifiedWasCompared
<1>1. VerificationInit => VerificationInv BY InitSound
<1>2. VerificationInv /\ [VerificationNext]_verification => VerificationInv'
  <2> SUFFICES ASSUME VerificationInv, [VerificationNext]_verification
               PROVE  VerificationInv'
    OBVIOUS
  <2>1. CASE UNCHANGED verification
    BY <2>1 DEF verification, VerificationInv, VerificationType
  <2>2. ASSUME NEW v \in Vaults, Reload(v) PROVE VerificationInv'
    BY <2>2, ReloadSound
  <2>3. ASSUME NEW v \in Vaults, NEW p \in Contacts, refreshCrypto(v, p)
        PROVE  VerificationInv'
    BY <2>3, RefreshSound
  <2>4. ASSUME NEW v \in Vaults, NEW p \in Contacts, verify(v, p)
        PROVE  VerificationInv'
    BY <2>4, VerifySound
  <2>5. ASSUME NEW v \in Vaults, NEW p \in Contacts, unverify(v, p)
        PROVE  VerificationInv'
    BY <2>5, UnverifySound
  <2> QED BY <2>1, <2>2, <2>3, <2>4, <2>5 DEF VerificationNext
<1>3. VerificationInv => VerifiedWasCompared BY SoundIsCompared
<1> QED BY <1>1, <1>2, <1>3, PTL DEF VerificationSpec

-----------------------------------------------------------------------------
(* Identity.tla.  That no tab ever uses a long-term key that the device     *)
(* does not hold, for any number of tabs, passphrases and keys.             *)

(* The inductive invariant                                                    *)

Sealed == [key : Nat, pass : Passphrases \cup {None.pass}]
Errors == {"none", "Wrong passphrase", "Could not create identity"}
JobKinds == {"none", "unlock", "promote", "create"}

Hooks == [exists : BOOLEAN, migratable : BOOLEAN, identity : Nat, busy : BOOLEAN,
          error : Errors]
Jobs == [kind : JobKinds, sealed : Sealed, pass : Passphrases \cup {None.pass}]

IdentityType ==
    /\ blob \in Sealed
    /\ sessionKey \in [Tabs -> Nat]
    /\ hook \in [Tabs -> Hooks]
    /\ job \in [Tabs -> Jobs]
    /\ nextKey \in Nat

\* The key is stored, or has been and was given up by some tab.
Held(key, b, r) == key # 0 => key \in r \cup {b.key}

\* An unlock works on what it read, which other tabs may replace meanwhile: what
\* it read must stay accounted for until its passphrase has been tried.
IdentityInv ==
    /\ IdentityType
    /\ \A t \in Tabs : Held(hook[t].identity, blob, retired)
    /\ \A t \in Tabs : job[t].kind = "unlock" => Held(job[t].sealed.key, blob, retired)

-----------------------------------------------------------------------------
(* Operators                                                                  *)

LEMMA NoneIsSealed == None \in Sealed /\ None.key = 0
BY DEF None, Sealed

\* What was held is held after a replacement.
LEMMA ReplacedHolds ==
    ASSUME NEW secret \in Sealed, NEW key \in Nat, Held(key, blob, retired)
    PROVE  Held(key, secret, Replaced(secret))
BY NoneIsSealed DEF Held, Replaced

LEMMA KeyLoadedType ==
    ASSUME IdentityType, NEW t \in Tabs
    PROVE  Loaded(t) \in Hooks /\ Loaded(t).identity = 0
BY DEF Loaded, Hooks, Errors

LEMMA IdleType == Idle \in Jobs /\ Idle.kind = "none"
BY NoneIsSealed DEF Idle, Jobs, JobKinds

-----------------------------------------------------------------------------
(* The steps                                                                  *)

LEMMA InitHeld == IdentityInit => IdentityInv
<1> SUFFICES ASSUME IdentityInit PROVE IdentityInv OBVIOUS
<1>1. ASSUME NEW t \in Tabs PROVE hook[t].identity = 0 /\ job[t].kind = "none"
  BY IdleType DEF IdentityInit, Loaded
<1>2. IdentityType
  BY NoneIsSealed, IdleType DEF IdentityInit, IdentityType, Loaded, Hooks, Errors
<1> QED BY <1>1, <1>2 DEF IdentityInv, Held

\* Whatever a press starts, the key it will adopt is sealed and, for an unlock,
\* the stored one.
LEMMA StartsHeld ==
    ASSUME IdentityInv, NEW t \in Tabs, NEW kind \in JobKinds, NEW secret \in Sealed,
           NEW pass \in Passphrases, Starts(t, kind, secret, pass), nextKey' \in Nat,
           kind = "unlock" => secret = blob
    PROVE  IdentityInv'
<1>1. IdentityType'
  <2>1. hook \in [Tabs -> Hooks] /\ job \in [Tabs -> Jobs]
    BY DEF IdentityInv, IdentityType
  <2>2. hook' \in [Tabs -> Hooks]
    BY <2>1 DEF Starts, Hooks, Errors
  <2>3. [kind |-> kind, sealed |-> secret, pass |-> pass] \in Jobs
    BY DEF Jobs
  <2>4. job' \in [Tabs -> Jobs]
    BY <2>1, <2>3 DEF Starts
  <2>5. blob' \in Sealed /\ sessionKey' \in [Tabs -> Nat]
    BY DEF IdentityInv, IdentityType, Starts
  <2> QED BY <2>2, <2>4, <2>5 DEF IdentityType
<1>2. blob' = blob /\ retired' = retired BY DEF Starts
<1>3. ASSUME NEW u \in Tabs PROVE hook'[u].identity = hook[u].identity
  BY DEF Starts, IdentityInv, IdentityType, Hooks
<1>4. ASSUME NEW u \in Tabs, job'[u].kind = "unlock"
      PROVE  Held(job'[u].sealed.key, blob, retired)
  BY <1>4 DEF Starts, IdentityInv, IdentityType, Held
<1> QED BY <1>1, <1>2, <1>3, <1>4 DEF IdentityInv

LEMMA PressHeld ==
    ASSUME IdentityInv, NEW t \in Tabs, NEW p \in Passphrases,
           unlock(t, p) \/ promote(t, p) \/ create(t, p)
    PROVE  IdentityInv'
<1>1. blob \in Sealed /\ nextKey \in Nat /\ sessionKey[t] \in Nat
  BY DEF IdentityInv, IdentityType
<1>2. CASE unlock(t, p)
  BY <1>1, <1>2, StartsHeld DEF unlock, JobKinds
<1>3. CASE promote(t, p)
  <2>1. [key |-> sessionKey[t], pass |-> p] \in Sealed BY <1>1 DEF Sealed
  <2> QED BY <1>1, <1>3, <2>1, StartsHeld DEF promote, JobKinds
<1>4. CASE create(t, p)
  <2>1. [key |-> nextKey, pass |-> p] \in Sealed BY <1>1 DEF Sealed
  <2>2. nextKey' \in Nat BY <1>1, <1>4 DEF create
  <2> QED BY <1>4, <2>1, <2>2, StartsHeld DEF create, JobKinds
<1> QED BY <1>2, <1>3, <1>4

\* An answer ends the job of its tab; every key it makes active is held.
LEMMA AnswerHeld ==
    ASSUME IdentityInv, NEW t \in Tabs, job' = [job EXCEPT ![t] = Idle],
           UNCHANGED <<sessionKey, nextKey>>, blob' \in Sealed,
           \A key \in Nat : Held(key, blob, retired) => Held(key, blob', retired'),
           NEW error \in Errors, NEW key \in Nat, Held(key, blob', retired'),
           hook' = adopt(t, key) \/ hook' = failed(t, error)
    PROVE  IdentityInv'
<1>1. IdentityType'
  <2>1. hook \in [Tabs -> Hooks] BY DEF IdentityInv, IdentityType
  <2>2. adopt(t, key) \in [Tabs -> Hooks]
    BY <2>1 DEF adopt, Hooks, Errors
  <2>3. failed(t, error) \in [Tabs -> Hooks]
    BY <2>1 DEF failed, Hooks
  <2>4. job' \in [Tabs -> Jobs] BY IdleType DEF IdentityInv, IdentityType
  <2> QED BY <2>2, <2>3, <2>4 DEF IdentityInv, IdentityType
<1>2. ASSUME NEW u \in Tabs PROVE hook'[u].identity \in {hook[u].identity, key}
  BY DEF adopt, failed, IdentityInv, IdentityType, Hooks
<1>3. ASSUME NEW u \in Tabs, job'[u].kind = "unlock" PROVE job'[u] = job[u]
  BY <1>3, IdleType DEF IdentityInv, IdentityType
<1>4. ASSUME NEW u \in Tabs PROVE hook[u].identity \in Nat /\ job[u].sealed.key \in Nat
  BY DEF IdentityInv, IdentityType, Hooks, Jobs, Sealed
<1>5. ASSUME NEW u \in Tabs PROVE Held(hook'[u].identity, blob', retired')
  BY <1>2, <1>4 DEF IdentityInv
<1>6. ASSUME NEW u \in Tabs, job'[u].kind = "unlock"
      PROVE  Held(job'[u].sealed.key, blob', retired')
  BY <1>3, <1>4, <1>6 DEF IdentityInv
<1> QED BY <1>1, <1>5, <1>6 DEF IdentityInv

LEMMA DoneHeld ==
    ASSUME IdentityInv, NEW t \in Tabs, Done(t)
    PROVE  IdentityInv'
<1>1. blob \in Sealed /\ job[t].sealed \in Sealed /\ job[t].sealed.key \in Nat
  BY DEF IdentityInv, IdentityType, Jobs, Sealed
<1>2. job' = [job EXCEPT ![t] = Idle] /\ UNCHANGED <<sessionKey, nextKey>>
  BY DEF Done
<1>3. CASE Opens(t)
  <2>1. blob' = blob /\ retired' = retired BY <1>3 DEF Opens
  <2>2. Held(job[t].sealed.key, blob', retired')
    BY <1>3, <2>1 DEF Opens, IdentityInv
  <2>3. hook' = adopt(t, job[t].sealed.key) \/ hook' = failed(t, "Wrong passphrase")
    BY <1>3 DEF Opens
  <2>4. "Wrong passphrase" \in Errors BY DEF Errors
  <2> QED BY <1>1, <1>2, <2>1, <2>2, <2>3, <2>4, AnswerHeld
<1>4. CASE Persists(t)
  <2>1. blob' = job[t].sealed /\ retired' = Replaced(job[t].sealed)
    BY <1>4 DEF Persists
  <2>2. \A key \in Nat : Held(key, blob, retired) => Held(key, blob', retired')
    BY <1>1, <2>1, ReplacedHolds
  <2>3. Held(job[t].sealed.key, blob', retired') BY <2>1 DEF Held
  <2>4. hook' = adopt(t, job[t].sealed.key) /\ "none" \in Errors
    BY <1>4 DEF Persists, Errors
  <2> QED BY <1>1, <1>2, <2>1, <2>2, <2>3, <2>4, AnswerHeld
<1>5. CASE StorageFull(t)
  <2>1. blob' = blob /\ retired' = retired BY <1>5 DEF StorageFull
  <2>2. Held(0, blob', retired') BY DEF Held
  <2>3. PICK error \in Errors : hook' = failed(t, error)
    BY <1>5 DEF StorageFull, Errors
  <2> QED BY <1>1, <1>2, <2>1, <2>2, <2>3, AnswerHeld
<1> QED BY <1>3, <1>4, <1>5 DEF Done

\* The key that is forgotten is retired; the other tabs may still use it.
LEMMA ForgetHeld ==
    ASSUME IdentityInv, NEW t \in Tabs, forget(t)
    PROVE  IdentityInv'
<1>1. blob' = None /\ retired' = Replaced(None) /\ job' = job
  BY DEF forget
<1>2. IdentityType'
  <2>1. hook \in [Tabs -> Hooks] BY DEF IdentityInv, IdentityType
  <2>2. PICK h \in Hooks : h = hook[t]
    BY <2>1
  <2>3. PICK m \in BOOLEAN : m = (sessionKey[t] # 0)
    OBVIOUS
  <2>4. PICK w \in Hooks : w = [h EXCEPT !.identity = 0, !.exists = FALSE, !.migratable = m]
    BY DEF Hooks
  <2>5. hook' = [hook EXCEPT ![t] = w]
    BY <2>1, <2>2, <2>3, <2>4 DEF forget
  <2>6. hook' \in [Tabs -> Hooks]
    BY <2>1, <2>4, <2>5
  <2> QED BY <1>1, <2>6, NoneIsSealed DEF IdentityInv, IdentityType, forget
<1>3. \A key \in Nat : Held(key, blob, retired) => Held(key, blob', retired')
  BY <1>1, NoneIsSealed, ReplacedHolds
<1>4. ASSUME NEW u \in Tabs
      PROVE  /\ hook'[u].identity \in {hook[u].identity, 0}
             /\ hook[u].identity \in Nat /\ job[u].sealed.key \in Nat
  BY DEF IdentityInv, IdentityType, Hooks, Jobs, Sealed, forget
<1>5. ASSUME NEW u \in Tabs PROVE Held(hook'[u].identity, blob', retired')
  BY <1>3, <1>4 DEF IdentityInv, Held
<1>6. ASSUME NEW u \in Tabs, job'[u].kind = "unlock"
      PROVE  Held(job'[u].sealed.key, blob', retired')
  BY <1>1, <1>3, <1>4, <1>6 DEF IdentityInv
<1> QED BY <1>2, <1>5, <1>6 DEF IdentityInv

LEMMA ReloadHeld ==
    ASSUME IdentityInv, NEW t \in Tabs, ReloadTab(t)
    PROVE  IdentityInv'
<1>1. IdentityType'
  BY KeyLoadedType, IdleType DEF IdentityInv, IdentityType, ReloadTab
<1>2. blob' = blob /\ retired' = retired BY DEF ReloadTab
<1>3. ASSUME NEW u \in Tabs PROVE hook'[u].identity \in {hook[u].identity, 0}
  BY KeyLoadedType DEF IdentityInv, IdentityType, ReloadTab
<1>4. ASSUME NEW u \in Tabs, job'[u].kind = "unlock" PROVE job'[u] = job[u]
  BY <1>4, IdleType DEF IdentityInv, IdentityType, ReloadTab
<1>5. ASSUME NEW u \in Tabs PROVE Held(hook'[u].identity, blob, retired)
  BY <1>3 DEF IdentityInv, Held
<1> QED BY <1>1, <1>2, <1>4, <1>5 DEF IdentityInv

-----------------------------------------------------------------------------
\* A tab shows a long-term key as active only if it is the stored one or was
\* given up by some tab, for any number of tabs, failed writes and reloads.
THEOREM ActiveKeysDurable == IdentitySpec => []ActiveIsDurable
<1>1. IdentityInit => IdentityInv BY InitHeld
<1>2. IdentityInv /\ [IdentityNext]_identityVars => IdentityInv'
  <2> SUFFICES ASSUME IdentityInv, [IdentityNext]_identityVars PROVE IdentityInv'
    OBVIOUS
  <2>1. CASE UNCHANGED identityVars
    BY <2>1 DEF identityVars, IdentityInv, IdentityType
  <2>2. ASSUME NEW t \in Tabs, Done(t) PROVE IdentityInv' BY <2>2, DoneHeld
  <2>3. ASSUME NEW t \in Tabs, forget(t) PROVE IdentityInv' BY <2>3, ForgetHeld
  <2>4. ASSUME NEW t \in Tabs, ReloadTab(t) PROVE IdentityInv' BY <2>4, ReloadHeld
  <2>5. ASSUME NEW t \in Tabs, NEW p \in Passphrases,
               unlock(t, p) \/ promote(t, p) \/ create(t, p)
        PROVE  IdentityInv'
    BY <2>5, PressHeld
  <2> QED BY <2>1, <2>2, <2>3, <2>4, <2>5 DEF IdentityNext
<1>3. IdentityInv => ActiveIsDurable BY DEF IdentityInv, ActiveIsDurable, Held
<1> QED BY <1>1, <1>2, <1>3, PTL DEF IdentitySpec

-----------------------------------------------------------------------------
(* Recording.tla.  That no microphone stays on, if one prompt is up at a    *)
(* time, and that the count of prompts is right for any number of them.     *)

Camera == IF camera THEN 1 ELSE 0

Prompts == [active : Nat, timer : BOOLEAN]
RecordingRefs == [intent : BOOLEAN, stream : Nat, recorder : Nat]

RecordingType ==
    /\ mounted \in BOOLEAN /\ camera \in BOOLEAN /\ presses \in Nat
    /\ refs \in RecordingRefs
    /\ asked \subseteq [id : 1..presses, stale : BOOLEAN] /\ IsFiniteSet(asked)
    /\ \A a, b \in asked : a.id = b.id => a = b
    /\ prompt \in Prompts

PromptsCounted ==
    /\ prompt.active = Cardinality(asked) + Camera
    /\ prompt.active > 0 => ~prompt.timer

\* A microphone that is on has the room on screen and a recorder that runs or
\* is stopping, and is the one the refs know.
RecorderHasMic ==
    /\ mics # {} => /\ mounted /\ mics = {refs.stream}
                    /\ refs.recorder # 0 \/ stopping # {}
    /\ refs.recorder # 0 => refs.intent /\ stopping = {} /\ \A a \in asked : a.stale
    /\ ~mounted => ~refs.intent /\ refs.recorder = 0 /\ \A a \in asked : a.stale

LEMMA RefsKeepType ==
  ASSUME RecordingType
  PROVE  /\ [refs EXCEPT !.intent = FALSE, !.stream = 0] \in RecordingRefs
         /\ [refs EXCEPT !.intent = FALSE, !.recorder = 0] \in RecordingRefs
         /\ [refs EXCEPT !.stream = 0] \in RecordingRefs
         /\ [refs EXCEPT !.intent = TRUE] \in RecordingRefs
<1>1. refs \in RecordingRefs
  BY DEF RecordingType
<1> QED
  BY <1>1 DEF RecordingRefs

LEMMA PromptEnds ==
  ASSUME RecordingType, PromptsCounted, endMediaPrompt, prompt.active > 0
  PROVE  /\ prompt' \in Prompts
         /\ prompt'.active = prompt.active - 1
         /\ prompt'.active > 0 => ~prompt'.timer
<1>1. prompt.active \in Nat /\ prompt.timer \in BOOLEAN /\ ~prompt.timer
  BY DEF RecordingType, Prompts, PromptsCounted
<1>2. prompt.active # 0 /\ prompt.active - 1 \in Nat
  BY <1>1
<1>3. CASE prompt.active - 1 = 0
  <2>1. prompt' = [active |-> prompt.active - 1, timer |-> TRUE]
    BY <1>2, <1>3 DEF endMediaPrompt
  <2> QED
    BY <1>2, <1>3, <2>1 DEF Prompts
<1>4. CASE prompt.active - 1 # 0
  <2>1. prompt' = [active |-> prompt.active - 1, timer |-> prompt.timer]
    BY <1>2, <1>4 DEF endMediaPrompt
  <2> QED
    BY <1>1, <1>2, <2>1 DEF Prompts
<1> QED
  BY <1>3, <1>4

LEMMA PromptBegins ==
  ASSUME RecordingType, beginMediaPrompt
  PROVE  /\ prompt' \in Prompts
         /\ prompt'.active = prompt.active + 1
         /\ ~prompt'.timer
BY DEF RecordingType, Prompts, beginMediaPrompt

LEMMA PromptsInit == RecordingInit => RecordingType /\ PromptsCounted
<1> SUFFICES ASSUME RecordingInit
             PROVE  RecordingType /\ PromptsCounted
  OBVIOUS
<1>1. /\ IsFiniteSet(asked) /\ Cardinality(asked) = 0 /\ asked = {}
      /\ Camera = 0 /\ prompt = [active |-> 0, timer |-> FALSE]
  BY FS_EmptySet DEF RecordingInit, Camera
<1>2. refs \in RecordingRefs
  BY DEF RecordingInit, NoRefs, RecordingRefs
<1>3. prompt \in Prompts /\ prompt.active = 0
  BY <1>1 DEF Prompts
<1>4. PromptsCounted
  BY <1>1, <1>3 DEF PromptsCounted
<1>5. mounted \in BOOLEAN /\ camera \in BOOLEAN /\ presses \in Nat
  BY DEF RecordingInit
<1> QED
  BY <1>1, <1>2, <1>3, <1>4, <1>5 DEF RecordingType

LEMMA AnsweredRefs ==
  ASSUME RecordingType, NEW a \in asked, Answered(a)
  PROVE  refs' \in RecordingRefs
<1>1. a.id \in Nat
  BY DEF RecordingType
<1>2. CASE Granted(a)
  BY <1>1, <1>2 DEF RecordingType, RecordingRefs, Granted
<1>3. CASE Denied(a)
  <2>1. refs' = refs \/ refs' = [refs EXCEPT !.intent = FALSE, !.stream = 0]
    BY <1>3 DEF Denied
  <2> QED
    BY <2>1, RefsKeepType DEF RecordingType
<1> QED
  BY <1>2, <1>3 DEF Answered

LEMMA MadeStale ==
  ASSUME RecordingType, asked' = {[a EXCEPT !.stale = TRUE] : a \in asked}
  PROVE  /\ asked' \subseteq [id : 1..presses, stale : BOOLEAN] /\ IsFiniteSet(asked')
         /\ \A a, b \in asked' : a.id = b.id => a = b
         /\ Cardinality(asked') = Cardinality(asked)
         /\ \A a \in asked' : a.stale
<1> DEFINE Old(a) == [a EXCEPT !.stale = TRUE]
           f == [a \in asked |-> Old(a)]
<1>1. \A a \in asked : Old(a) \in [id : 1..presses, stale : BOOLEAN]
                       /\ Old(a).id = a.id /\ Old(a).stale = TRUE
  BY DEF RecordingType
<1>2. \A a, b \in asked : Old(a) = Old(b) => a = b
  BY <1>1 DEF RecordingType
<1>3. \A a, b \in asked : Old(a).id = Old(b).id => Old(a) = Old(b)
  BY <1>1 DEF RecordingType
<1>4. \A x \in asked' : \E a \in asked : x = Old(a)
  OBVIOUS
<1> HIDE DEF Old
<1>5. f \in Bijection(asked, asked')
  <2>1. f \in [asked -> asked'] /\ \A a \in asked : f[a] = Old(a)
    BY DEF Old
  <2>2. \A a, b \in asked : f[a] = f[b] => a = b
    BY <1>2, <2>1
  <2>3. \A x \in asked' : \E a \in asked : f[a] = x
    BY <1>4, <2>1
  <2> QED
    BY <2>1, <2>2, <2>3 DEF Bijection, Injection, Surjection, IsInjective
<1>6. IsFiniteSet(asked') /\ Cardinality(asked') = Cardinality(asked)
  BY <1>5, FS_Bijection DEF RecordingType, ExistsBijection
<1> QED
  BY <1>1, <1>3, <1>4, <1>6

LEMMA PromptsStep ==
  ASSUME RecordingType, PromptsCounted, [RecordingNext]_recording
  PROVE  RecordingType' /\ PromptsCounted'
<1>0. Cardinality(asked) \in Nat /\ Camera \in Nat
  BY FS_CardinalityType DEF RecordingType, Camera
<1>1. CASE startRecording
  <2>1. PICK a : a = [id |-> presses + 1, stale |-> FALSE]
    OBVIOUS
  <2>2. /\ asked' = asked \cup {a} /\ presses' = presses + 1 /\ presses \in Nat
        /\ UNCHANGED <<mounted, camera>>
    BY <1>1, <2>1 DEF startRecording, RecordingType
  <2>3. refs' \in RecordingRefs
    BY <1>1 DEF startRecording, RecordingType, RecordingRefs
  <2>4. /\ a \in [id : 1..presses', stale : BOOLEAN] /\ a.id = presses + 1
        /\ \A b \in asked : b.id \in 1..presses
        /\ asked \subseteq [id : 1..presses', stale : BOOLEAN]
    BY <2>1, <2>2 DEF RecordingType
  <2>5. a \notin asked /\ \A b \in asked : b.id # a.id
    BY <2>2, <2>4
  <2>6. Cardinality(asked') = Cardinality(asked) + 1 /\ IsFiniteSet(asked')
    BY <2>2, <2>5, FS_AddElement DEF RecordingType
  <2>7. prompt' \in Prompts /\ prompt'.active = prompt.active + 1 /\ ~prompt'.timer
    BY <1>1, PromptBegins DEF startRecording
  <2>8. \A x, y \in asked' : x.id = y.id => x = y
    BY <2>2, <2>5 DEF RecordingType
  <2>9. RecordingType'
    BY <2>2, <2>3, <2>4, <2>6, <2>7, <2>8 DEF RecordingType
  <2> QED
    BY <1>0, <2>2, <2>6, <2>7, <2>9 DEF PromptsCounted, Camera
<1>2. ASSUME NEW a \in asked, Answered(a)
      PROVE  RecordingType' /\ PromptsCounted'
  <2>1. asked' = asked \ {a} /\ endMediaPrompt /\ UNCHANGED <<mounted, presses, camera>>
    BY <1>2 DEF Answered
  <2>2. IsFiniteSet(asked') /\ Cardinality(asked') = Cardinality(asked) - 1
    BY <2>1, FS_RemoveElement DEF RecordingType
  <2>3. Cardinality(asked) # 0
    BY FS_EmptySet DEF RecordingType
  <2>4. prompt.active > 0
    BY <1>0, <2>3 DEF PromptsCounted
  <2>5. /\ prompt' \in Prompts /\ prompt'.active = prompt.active - 1
        /\ prompt'.active > 0 => ~prompt'.timer
    BY <2>1, <2>4, PromptEnds
  <2>6. RecordingType'
    BY <1>2, <2>1, <2>2, <2>5, AnsweredRefs DEF RecordingType
  <2> QED
    BY <1>0, <2>1, <2>2, <2>5, <2>6 DEF PromptsCounted, Camera
<1>3. CASE CallAsks
  <2>1. prompt' \in Prompts /\ prompt'.active = prompt.active + 1 /\ ~prompt'.timer
    BY <1>3, PromptBegins DEF CallAsks
  <2>2. Camera = 0 /\ camera' = TRUE /\ UNCHANGED <<mounted, refs, asked, presses>>
    BY <1>3 DEF CallAsks, Camera
  <2> QED
    BY <1>0, <2>1, <2>2 DEF RecordingType, PromptsCounted, Camera
<1>4. CASE CallAnswered
  <2>1. Camera = 1 /\ camera' = FALSE /\ UNCHANGED <<mounted, refs, asked, presses>>
    BY <1>4 DEF CallAnswered, Camera
  <2>2. prompt.active > 0
    BY <1>0, <2>1 DEF PromptsCounted
  <2>3. /\ prompt' \in Prompts /\ prompt'.active = prompt.active - 1
        /\ prompt'.active > 0 => ~prompt'.timer
    BY <1>4, <2>2, PromptEnds DEF CallAnswered
  <2>4. Camera' = 0 /\ prompt.active - 1 = Cardinality(asked)
    BY <1>0, <2>1 DEF PromptsCounted, Camera
  <2>5. RecordingType'
    BY <2>1, <2>3 DEF RecordingType
  <2>6. PromptsCounted'
    BY <1>0, <2>1, <2>3, <2>4 DEF PromptsCounted
  <2> QED
    BY <2>5, <2>6
<1>5. CASE GraceEnds
  <2>1. prompt' \in Prompts /\ prompt'.active = prompt.active /\ ~prompt'.timer
    BY <1>5 DEF GraceEnds, RecordingType, Prompts
  <2> QED
    BY <1>5, <2>1 DEF GraceEnds, RecordingType, PromptsCounted, Camera
<1>6. CASE stopRecording \/ \E r \in stopping : onstop(r)
  <2>1. \/ refs' = [refs EXCEPT !.intent = FALSE, !.recorder = 0]
        \/ refs' = [refs EXCEPT !.stream = 0]
    BY <1>6 DEF stopRecording, onstop
  <2>2. refs' \in RecordingRefs /\ UNCHANGED <<mounted, asked, presses, camera, prompt>>
    BY <1>6, <2>1, RefsKeepType DEF stopRecording, onstop
  <2> QED
    BY <2>2 DEF RecordingType, PromptsCounted, Camera
<1>7. CASE Unmount
  <2>1. refs' \in RecordingRefs /\ mounted' \in BOOLEAN /\ UNCHANGED <<presses, camera, prompt>>
    BY <1>7 DEF Unmount, NoRefs, RecordingRefs
  <2>2. /\ asked' \subseteq [id : 1..presses, stale : BOOLEAN] /\ IsFiniteSet(asked')
        /\ \A a, b \in asked' : a.id = b.id => a = b
        /\ Cardinality(asked') = Cardinality(asked)
    BY <1>7, MadeStale DEF Unmount
  <2> QED
    BY <2>1, <2>2 DEF RecordingType, PromptsCounted, Camera
<1>8. CASE Mount \/ UNCHANGED recording
  <2>1. mounted' \in BOOLEAN /\ UNCHANGED <<refs, asked, presses, camera, prompt>>
    BY <1>8 DEF Mount, recording, RecordingType
  <2> QED
    BY <2>1 DEF RecordingType, PromptsCounted, Camera
<1> QED
  BY <1>1, <1>2, <1>3, <1>4, <1>5, <1>6, <1>7, <1>8 DEF RecordingNext

\* The counter that holds back the blackout is the number of prompts that are
\* really up, and its grace timer runs only when there is none (media-prompt),
\* for any number of presses, prompts and departures.
THEOREM PromptsAreCounted == RecordingSpec => [](RecordingType /\ PromptsCounted)
BY PromptsInit, PromptsStep, PTL DEF RecordingSpec

LEMMA OneAnswer ==
  ASSUME MaxPrompts = 1, RecordingType, startRecording
  PROVE  asked = {}
<1>1. Cardinality(asked) \in Nat /\ Cardinality(asked) < 1
  BY FS_CardinalityType DEF RecordingType, startRecording
<1>2. Cardinality(asked) = 0
  BY <1>1
<1> QED
  BY <1>2, FS_EmptySet DEF RecordingType

AtMostOne == \A a, b \in asked : a = b

LEMMA RecorderStep ==
  ASSUME MaxPrompts = 1, RecordingType, AtMostOne, RecorderHasMic, [RecordingNext]_recording
  PROVE  RecorderHasMic' /\ AtMostOne'
<1>1. CASE startRecording
  BY <1>1, OneAnswer DEF startRecording, RecorderHasMic, RecordingType, RecordingRefs, AtMostOne
<1>2. ASSUME NEW a \in asked, Answered(a)
      PROVE  RecorderHasMic' /\ AtMostOne'
  <2>1. asked = {a} /\ asked' = {} /\ UNCHANGED <<mounted, stopping>> /\ a.id # 0 /\ a.id \in Nat
    BY <1>2 DEF Answered, AtMostOne, RecordingType
  <2>2. CASE Granted(a)
    BY <2>1, <2>2 DEF Granted, RecorderHasMic, RecordingType, RecordingRefs, AtMostOne
  <2>3. CASE Denied(a)
    BY <2>1, <2>3 DEF Denied, RecorderHasMic, RecordingType, RecordingRefs, AtMostOne
  <2> QED
    BY <1>2, <2>2, <2>3 DEF Answered
<1>3. CASE CallAsks \/ CallAnswered \/ GraceEnds \/ Mount \/ UNCHANGED recording
  BY <1>3 DEF CallAsks, CallAnswered, GraceEnds, Mount, recording, RecorderHasMic, AtMostOne
<1>4. CASE stopRecording
  BY <1>4 DEF stopRecording, RecorderHasMic, RecordingType, RecordingRefs, AtMostOne
<1>5. ASSUME NEW r \in stopping, onstop(r)
      PROVE  RecorderHasMic' /\ AtMostOne'
  BY <1>5 DEF onstop, RecorderHasMic, RecordingType, RecordingRefs, AtMostOne
<1>6. CASE Unmount
  <2>1. \A a \in asked' : a.stale
    BY <1>6, MadeStale DEF Unmount
  <2>2. mics' = {}
    BY <1>6 DEF Unmount, RecorderHasMic
  <2> QED
    BY <1>6, <2>1, <2>2 DEF Unmount, RecorderHasMic, NoRefs, AtMostOne
<1> QED
  BY <1>1, <1>2, <1>3, <1>4, <1>5, <1>6 DEF RecordingNext

\* No microphone is on behind the user's back, and the blackout is held back only
\* for a prompt or its grace (startRecording, stopRecording, the unmount effect).
\* It needs one prompt at a time: with two, both microphones are switched on and
\* the ref knows only the second (README, "Disagreements").
THEOREM NothingStaysOn ==
  ASSUME MaxPrompts = 1
  PROVE  RecordingSpec => []NothingLeftOn
<1>1. RecordingInit => RecorderHasMic /\ AtMostOne
  BY DEF RecordingInit, RecorderHasMic, AtMostOne, NoRefs
<1>2. RecordingSpec => [](RecorderHasMic /\ AtMostOne)
  BY <1>1, RecorderStep, PromptsAreCounted, PTL DEF RecordingSpec
<1>3. RecordingType /\ PromptsCounted /\ RecorderHasMic => NothingLeftOn
  BY DEF RecorderHasMic, NothingLeftOn, ReleaseNotLost, PromptsCounted, Camera
<1> QED
  BY <1>2, <1>3, PromptsAreCounted, PTL

-----------------------------------------------------------------------------
(* Membership.tla.  That a join proof admits once, for any number of        *)
(* vaults, proofs and copies and any skew of the member's clock, if nonces  *)
(* are kept for long enough.                                                *)

(* The inductive invariant                                                    *)

Joins == [nonce : 1..MaxProofs, sid : Sids, exp : Nat, timestamp : Int]

MembershipType ==
    /\ time \in Nat
    /\ stored \in [Sids -> Nat] /\ wallet \in [Wallets -> [Sids -> Nat]]
    /\ IsFiniteSet(joins) /\ joins \subseteq Joins
    /\ nonces \in Seq([nonce : 1..MaxProofs, at : Nat])
    /\ admitted \in [1..MaxProofs -> 0..2]
    /\ evicted \in BOOLEAN

\* The nonce of a proof is new when the proof is signed, and its own.
Numbered ==
    /\ \A j \in joins : j.nonce <= Cardinality(joins)
    /\ \A i, j \in joins : i.nonce = j.nonce => i = j
    /\ \A n \in 1..MaxProofs : admitted[n] # 0 => n <= Cardinality(joins)

\* An entry of the cache that was made when the proof was accepted.
Entry(j, i) == nonces[i].nonce = j.nonce /\ Within(nonces[i].at, j.timestamp)

\* A proof that has admitted is in the cache, or too old to be accepted again.
Spent(j) == (\E i \in DOMAIN nonces : Entry(j, i)) \/ time - j.timestamp > TOLERANCE

\* The property alone is not inductive: what refuses a second copy is the entry,
\* or, once the entry is pruned, the age of the proof.
MembershipInv ==
    /\ MembershipType
    /\ Numbered
    /\ ~evicted => \A j \in joins : admitted[j.nonce] # 0 => Spent(j)
    /\ ProofAdmitsOnce

-----------------------------------------------------------------------------
(* Steps that leave the relay alone                                           *)

LEMMA ConstantsAreNat ==
    /\ TOLERANCE \in Nat /\ CONN_WINDOW \in Nat /\ CACHE_MAX \in Nat /\ MaxSkew \in Nat
    /\ Ttl \in Nat /\ MaxProofs \in Nat /\ CACHE_MAX > 0
BY MembershipConstants

LEMMA InitOnce == MembershipInit => MembershipInv
<1> SUFFICES ASSUME MembershipInit PROVE MembershipInv OBVIOUS
<1>1. IsFiniteSet({}) /\ Cardinality({}) = 0 BY FS_EmptySet
<1>2. MembershipType
  <2>1. stored \in [Sids -> Nat] /\ wallet \in [Wallets -> [Sids -> Nat]]
    BY DEF MembershipInit
  <2>2. IsFiniteSet(joins) /\ joins \subseteq Joins BY <1>1 DEF MembershipInit
  <2>3. nonces \in Seq([nonce : 1..MaxProofs, at : Nat]) BY DEF MembershipInit
  <2>4. admitted \in [1..MaxProofs -> 0..2] BY DEF MembershipInit
  <2> QED BY <2>1, <2>2, <2>3, <2>4 DEF MembershipInit, MembershipType
<1>3. Numbered BY DEF MembershipInit, Numbered
<1>4. ProofAdmitsOnce BY DEF MembershipInit, ProofAdmitsOnce
<1> QED BY <1>2, <1>3, <1>4 DEF MembershipInv, MembershipInit

LEMMA LoadedType ==
    ASSUME MembershipType
    PROVE  loadTokens \in [Sids -> Nat]
BY DEF MembershipType, loadTokens

\* A wallet is written: the invariant does not look at it.
LEMMA WalletOnce ==
    ASSUME MembershipInv, stored' \in [Sids -> Nat],
           wallet' \in [Wallets -> [Sids -> Nat]],
           UNCHANGED <<time, joins, nonces, admitted, evicted>>
    PROVE  MembershipInv'
<1>1. MembershipType' BY DEF MembershipInv, MembershipType
<1>2. Numbered' BY DEF MembershipInv, Numbered
<1>3. ProofAdmitsOnce' BY DEF MembershipInv, ProofAdmitsOnce
<1>4. ASSUME NEW j \in joins, Spent(j) PROVE Spent(j)'
  BY <1>4 DEF Spent, Entry, Within
<1> QED BY <1>1, <1>2, <1>3, <1>4 DEF MembershipInv

\* Time passes: a proof that is too old stays so.
LEMMA PassesOnce ==
    ASSUME MembershipInv, Passes
    PROVE  MembershipInv'
<1>1. MembershipType' BY DEF MembershipInv, MembershipType, Passes
<1>2. Numbered' BY DEF MembershipInv, Numbered, Passes
<1>3. ProofAdmitsOnce' BY DEF MembershipInv, ProofAdmitsOnce, Passes
<1>4. ASSUME NEW j \in joins, Spent(j) PROVE Spent(j)'
  <2>1. CASE \E i \in DOMAIN nonces : Entry(j, i)
    BY <2>1 DEF Spent, Entry, Within, Passes
  <2>2. CASE time - j.timestamp > TOLERANCE
    <3>1. time \in Nat /\ j.timestamp \in Int
      BY DEF MembershipInv, MembershipType, Joins
    <3> QED BY <2>2, <3>1, ConstantsAreNat DEF Spent, Passes
  <2> QED BY <1>4, <2>1, <2>2 DEF Spent
<1> QED BY <1>1, <1>2, <1>3, <1>4 DEF MembershipInv, Passes

\* A proof is signed: its nonce has admitted nothing.
LEMMA JoinsOnce ==
    ASSUME MembershipInv, NEW v \in Sids, JoinsWith(v)
    PROVE  MembershipInv'
<1> USE ConstantsAreNat
<1>1. PICK s \in -MaxSkew..MaxSkew :
        joins' = joins \cup {createJoinProof(v, loadTokens[v], time + s)}
  BY DEF JoinsWith
<1> DEFINE new == createJoinProof(v, loadTokens[v], time + s)
           c == Cardinality(joins)
<1>2. /\ UNCHANGED <<time, wallet, nonces, admitted, evicted>>
      /\ stored' = loadTokens /\ c < MaxProofs
  BY DEF JoinsWith
<1>3. IsFiniteSet(joins) /\ joins \subseteq Joins /\ time \in Nat
  BY DEF MembershipInv, MembershipType
<1>4. c \in Nat BY <1>3, FS_CardinalityType
<1>5. loadTokens \in [Sids -> Nat] BY LoadedType DEF MembershipInv
<1>6. new.nonce = c + 1 /\ new \in Joins
  BY <1>2, <1>3, <1>4, <1>5 DEF createJoinProof, Joins
<1>7. \A j \in joins : j.nonce <= c BY DEF MembershipInv, Numbered
<1>8. \A j \in joins : j.nonce \in 1..MaxProofs BY <1>3 DEF Joins
<1>9. new \notin joins BY <1>4, <1>6, <1>7
<1> HIDE DEF new
<1>10. IsFiniteSet(joins') /\ Cardinality(joins') = c + 1
  BY <1>1, <1>3, <1>9, FS_AddElement DEF new
<1>11. MembershipType'
  BY <1>1, <1>2, <1>3, <1>5, <1>6, <1>10 DEF MembershipInv, MembershipType, new
<1>12. Numbered'
  <2>1. ASSUME NEW j \in joins' PROVE j \in joins \/ j = new
    BY <1>1 DEF new
  <2>2. ASSUME NEW j \in joins' PROVE j.nonce <= c + 1
    BY <1>4, <1>6, <1>7, <1>8, <2>1
  <2>3. ASSUME NEW i \in joins', NEW j \in joins', i.nonce = j.nonce PROVE i = j
    BY <1>4, <1>6, <1>7, <1>8, <2>1, <2>3 DEF MembershipInv, Numbered
  <2>4. ASSUME NEW n \in 1..MaxProofs, admitted'[n] # 0 PROVE n <= c + 1
    <3>1. n <= c BY <1>2, <2>4 DEF MembershipInv, Numbered
    <3> QED BY <1>4, <3>1
  <2> QED BY <1>10, <2>2, <2>3, <2>4 DEF Numbered
<1>13. ProofAdmitsOnce' BY <1>2 DEF MembershipInv, ProofAdmitsOnce
<1>14. ASSUME NEW j \in joins', admitted'[j.nonce] # 0, ~evicted' PROVE Spent(j)'
  <2>1. CASE j = new
    <3>1. c + 1 \in 1..MaxProofs /\ admitted[c + 1] # 0
      BY <1>2, <1>4, <1>6, <1>14, <2>1
    <3>2. c + 1 <= c BY <3>1 DEF MembershipInv, Numbered
    <3> QED BY <1>4, <3>2
  <2>2. CASE j \in joins
    <3>1. Spent(j) BY <1>2, <1>14, <2>2 DEF MembershipInv
    <3> QED BY <1>2, <3>1 DEF Spent, Entry, Within
  <2> QED BY <1>1, <2>1, <2>2 DEF new
<1> QED BY <1>11, <1>12, <1>13, <1>14 DEF MembershipInv

-----------------------------------------------------------------------------
(* The relay                                                                  *)

\* A sequence without its first k elements has the others, k places earlier.
LEMMA SuffixKeeps ==
    ASSUME NEW S, NEW s \in Seq(S), NEW k \in 0..Len(s)
    PROVE  /\ SubSeq(s, k + 1, Len(s)) \in Seq(S)
           /\ \A i \in DOMAIN s : i > k =>
                 /\ i - k \in DOMAIN SubSeq(s, k + 1, Len(s))
                 /\ SubSeq(s, k + 1, Len(s))[i - k] = s[i]
<1> DEFINE n == Len(s)
           t == SubSeq(s, k + 1, n)
<1>1. n \in Nat /\ k \in Nat /\ k <= n /\ DOMAIN s = 1..n BY LenProperties
<1>2. ASSUME NEW x \in (k + 1)..n PROVE s[x] \in S
  <2>1. x \in 1..Len(s) BY <1>1, <1>2
  <2> QED BY <2>1, ElementOfSeq
<1>3. k + 1 \in Int /\ n \in Int BY <1>1
<1> HIDE DEF n
<1>4. /\ t \in Seq(S) /\ Len(t) = IF k + 1 <= n THEN n - (k + 1) + 1 ELSE 0
      /\ \A i \in 1..(n - (k + 1) + 1) : t[i] = s[k + 1 + i - 1]
  BY <1>2, <1>3, SubSeqProperties
<1> HIDE DEF t
<1>5. DOMAIN t = 1..Len(t) BY <1>4, LenProperties
<1>6. ASSUME NEW i \in DOMAIN s, i > k PROVE i - k \in DOMAIN t /\ t[i - k] = s[i]
  <2>1. i \in Int /\ i - k \in 1..(n - (k + 1) + 1) /\ k + 1 <= n BY <1>1, <1>6
  <2>2. k + 1 + (i - k) - 1 = i BY <1>1, <2>1
  <2>3. i - k \in 1..Len(t) BY <1>1, <1>4, <2>1
  <2>4. t[i - k] = s[k + 1 + (i - k) - 1] BY <1>4, <2>1
  <2> QED BY <1>5, <2>2, <2>3, <2>4
<1> QED BY <1>4, <1>6 DEF n, t

\* What has left the cache by its age is too old to be accepted.
LEMMA KeptLongEnough ==
    ASSUME TOLERANCE <= CONN_WINDOW, NEW now \in Int, NEW at \in Int, NEW signed \in Int,
           signed - at <= TOLERANCE, now - at > CONN_WINDOW * 2
    PROVE  now - signed > TOLERANCE
BY ConstantsAreNat

\* Pruning forgets an entry only when its proof is no longer accepted: it was
\* accepted at most TOLERANCE before its timestamp.
LEMMA PruneOnce ==
    ASSUME TOLERANCE <= CONN_WINDOW, MembershipInv, pruneStaleCounters
    PROVE  MembershipInv'
<1> USE ConstantsAreNat
<1>1. PICK k \in 0..Len(nonces) :
         /\ \A i \in DOMAIN nonces : Stale(nonces[i]) <=> i <= k
         /\ nonces' = SubSeq(nonces, k + 1, Len(nonces))
  BY DEF pruneStaleCounters
<1>2. UNCHANGED <<time, stored, wallet, joins, admitted, evicted>>
  BY DEF pruneStaleCounters
<1>3. /\ nonces \in Seq([nonce : 1..MaxProofs, at : Nat])
      /\ time \in Nat /\ joins \subseteq Joins
  BY DEF MembershipInv, MembershipType
<1>4. nonces' \in Seq([nonce : 1..MaxProofs, at : Nat]) BY <1>1, <1>3, SuffixKeeps
<1>5. MembershipType' BY <1>2, <1>4 DEF MembershipInv, MembershipType
<1>6. Numbered' BY <1>2 DEF MembershipInv, Numbered
<1>7. ProofAdmitsOnce' BY <1>2 DEF MembershipInv, ProofAdmitsOnce
<1>8. ASSUME NEW j \in joins, Spent(j) PROVE Spent(j)'
  <2>1. CASE time - j.timestamp > TOLERANCE BY <1>2, <2>1 DEF Spent
  <2>2. ASSUME NEW i \in DOMAIN nonces, Entry(j, i) PROVE Spent(j)'
    <3>1. nonces[i].at \in Nat /\ j.timestamp \in Int
      <4>1. i \in 1..Len(nonces) BY <1>3, LenProperties
      <4>2. nonces[i] \in [nonce : 1..MaxProofs, at : Nat] BY <1>3, <4>1, ElementOfSeq
      <4> QED BY <1>3, <4>2 DEF Joins
    <3>2. nonces[i].at - j.timestamp <= TOLERANCE /\ j.timestamp - nonces[i].at <= TOLERANCE
      BY <2>2 DEF Entry, Within
    <3>3. CASE i <= k
      <4>1. time - nonces[i].at > CONN_WINDOW * 2 BY <1>1, <3>3 DEF Stale
      <4>2. time - j.timestamp > TOLERANCE
        <5>1. time \in Int /\ nonces[i].at \in Int /\ j.timestamp \in Int
          BY <1>3, <3>1
        <5> QED BY <3>2, <4>1, <5>1, KeptLongEnough, Zenon
      <4> QED BY <1>2, <4>2 DEF Spent
    <3>4. CASE ~(i <= k)
      <4>1. i > k /\ i \in Nat BY <1>3, <3>4
      <4>2. i - k \in DOMAIN nonces' /\ nonces'[i - k] = nonces[i]
        BY <1>1, <1>3, <4>1, SuffixKeeps
      <4>3. nonces'[i - k].nonce = j.nonce /\ Within(nonces'[i - k].at, j.timestamp)
        BY <2>2, <4>2 DEF Entry
      <4> QED BY <4>2, <4>3 DEF Spent, Entry, Within
    <3> QED BY <3>3, <3>4
  <2> QED BY <1>8, <2>1, <2>2 DEF Spent
<1> QED BY <1>2, <1>5, <1>6, <1>7, <1>8 DEF MembershipInv

\* A proof that has admitted is refused while it could still be accepted.
LEMMA AdmitsOnce ==
    ASSUME MembershipInv, NEW j \in joins, HandlesMembership(j)
    PROVE  MembershipInv'
<1> USE ConstantsAreNat
<1>1. UNCHANGED <<time, stored, wallet, joins>> BY DEF HandlesMembership
<1>2. CASE ~(verifyMembership(j) /\ ~Used(j))
  <2>1. UNCHANGED <<time, stored, wallet, joins, nonces, admitted, evicted>>
    BY <1>1, <1>2 DEF HandlesMembership
  <2>2. stored' \in [Sids -> Nat] /\ wallet' \in [Wallets -> [Sids -> Nat]]
    BY <2>1 DEF MembershipInv, MembershipType
  <2> QED BY <2>1, <2>2, WalletOnce
<1>3. CASE verifyMembership(j) /\ ~Used(j)
  <2> DEFINE entry == [nonce |-> j.nonce, at |-> time]
             full == Len(nonces) >= CACHE_MAX
             left == IF full THEN Tail(nonces) ELSE nonces
             E == [nonce : 1..MaxProofs, at : Nat]
  <2>1. /\ nonces' = Append(left, entry)
        /\ evicted' = (evicted \/ full)
        /\ admitted' = [admitted EXCEPT ![j.nonce] = IF admitted[j.nonce] = 0 THEN 1 ELSE 2]
    BY <1>3 DEF HandlesMembership, Remember
  <2>2. /\ nonces \in Seq(E) /\ time \in Nat /\ joins \subseteq Joins
        /\ j.nonce \in 1..MaxProofs /\ j.timestamp \in Int
        /\ admitted \in [1..MaxProofs -> 0..2] /\ evicted \in BOOLEAN
    BY DEF MembershipInv, MembershipType, Joins
  <2>3. entry \in E BY <2>2
  <2>4. left \in Seq(E)
    <3>1. full => nonces # <<>> BY <2>2
    <3> QED BY <2>2, <3>1
  <2>5. nonces' \in Seq(E) BY <2>1, <2>3, <2>4
  <2>6. MembershipType'
    <3>1. admitted' \in [1..MaxProofs -> 0..2] BY <2>1, <2>2
    <3>2. evicted' \in BOOLEAN BY <2>1
    <3> QED BY <1>1, <2>5, <3>1, <3>2 DEF MembershipInv, MembershipType
  <2>7. j.nonce <= Cardinality(joins) BY DEF MembershipInv, Numbered
  <2>8. Numbered'
    <3>1. ASSUME NEW n \in 1..MaxProofs, admitted'[n] # 0 PROVE n <= Cardinality(joins)
      BY <2>1, <2>2, <2>7, <3>1 DEF MembershipInv, Numbered
    <3> QED BY <1>1, <3>1 DEF MembershipInv, Numbered
  <2>9. ~evicted /\ ~full => admitted[j.nonce] = 0
    <3> SUFFICES ASSUME ~evicted, admitted[j.nonce] # 0 PROVE FALSE
      OBVIOUS
    <3>1. Spent(j) BY DEF MembershipInv
    <3>2. ~(time - j.timestamp > TOLERANCE)
      BY <1>3, <2>2 DEF verifyMembership, Within
    <3>3. Used(j) BY <3>1, <3>2 DEF Spent, Entry, Used
    <3> QED BY <1>3, <3>3
  <2>10. ProofAdmitsOnce'
    <3> SUFFICES ASSUME ~evicted', NEW n \in 1..MaxProofs PROVE admitted'[n] <= 1
      BY DEF ProofAdmitsOnce
    <3>1. ~evicted /\ ~full BY <2>1, <2>2
    <3>2. admitted[n] <= 1 BY <3>1 DEF MembershipInv, ProofAdmitsOnce
    <3>3. CASE n = j.nonce BY <2>1, <2>2, <2>9, <3>1, <3>3
    <3>4. CASE n # j.nonce BY <2>1, <2>2, <3>2, <3>4
    <3> QED BY <3>3, <3>4
  <2>11. ASSUME ~evicted', NEW i \in joins, admitted'[i.nonce] # 0 PROVE Spent(i)'
    <3>1. ~evicted /\ ~full BY <2>1, <2>2, <2>11
    <3>2. nonces' = Append(nonces, entry) BY <2>1, <3>1
    <3>3. CASE i = j
      <4>1. /\ Len(nonces) + 1 \in DOMAIN nonces'
            /\ nonces'[Len(nonces) + 1] = entry
        BY <2>2, <2>3, <3>2
      <4>2. Within(time, j.timestamp) BY <1>3 DEF verifyMembership
      <4>3. /\ nonces'[Len(nonces) + 1].nonce = i.nonce
            /\ Within(nonces'[Len(nonces) + 1].at, i.timestamp)
        BY <3>3, <4>1, <4>2
      <4> QED BY <4>1, <4>3 DEF Spent, Entry, Within
    <3>4. CASE i # j
      <4>1. i.nonce # j.nonce BY <3>4 DEF MembershipInv, Numbered
      <4>2. admitted[i.nonce] # 0
        <5>1. i.nonce \in 1..MaxProofs BY <2>2 DEF Joins
        <5> QED BY <2>1, <2>2, <2>11, <4>1, <5>1
      <4>3. Spent(i) BY <3>1, <4>2 DEF MembershipInv
      <4>4. CASE time - i.timestamp > TOLERANCE BY <1>1, <4>4 DEF Spent
      <4>5. ASSUME NEW x \in DOMAIN nonces, Entry(i, x) PROVE Spent(i)'
        <5>1. x \in DOMAIN nonces' /\ nonces'[x] = nonces[x]
          BY <2>2, <2>3, <3>2
        <5>2. nonces'[x].nonce = i.nonce /\ Within(nonces'[x].at, i.timestamp)
          BY <4>5, <5>1 DEF Entry
        <5> QED BY <5>1, <5>2 DEF Spent, Entry, Within
      <4> QED BY <4>3, <4>4, <4>5 DEF Spent
    <3> QED BY <3>3, <3>4
  <2> QED BY <1>1, <2>6, <2>8, <2>10, <2>11 DEF MembershipInv
<1> QED BY <1>2, <1>3

-----------------------------------------------------------------------------
\* A proof lets its member in at most once, unless the cache was full, for every
\* skew, tolerance and number of copies, if a nonce is kept twice as long as a
\* clock may be off.  Both are a minute in the source.
THEOREM ProofsAdmitOnce ==
    TOLERANCE <= CONN_WINDOW => (MembershipSpec => []ProofAdmitsOnce)
<1> SUFFICES ASSUME TOLERANCE <= CONN_WINDOW PROVE MembershipSpec => []ProofAdmitsOnce
  OBVIOUS
<1>1. MembershipInit => MembershipInv BY InitOnce
<1>2. MembershipInv /\ [MembershipNext]_membership => MembershipInv'
  <2> SUFFICES ASSUME MembershipInv, [MembershipNext]_membership PROVE MembershipInv'
    OBVIOUS
  <2>1. CASE UNCHANGED membership
    <3>1. stored' \in [Sids -> Nat] /\ wallet' \in [Wallets -> [Sids -> Nat]]
      BY <2>1 DEF membership, MembershipInv, MembershipType
    <3> QED BY <2>1, <3>1, WalletOnce DEF membership
  <2>2. CASE Passes BY <2>2, PassesOnce
  <2>3. CASE pruneStaleCounters BY <2>3, PruneOnce
  <2>4. ASSUME NEW t \in Wallets, LoadWallet(t) PROVE MembershipInv'
    <3>1. stored' \in [Sids -> Nat] /\ wallet' \in [Wallets -> [Sids -> Nat]]
      BY <2>4, LoadedType DEF MembershipInv, MembershipType, LoadWallet
    <3> QED BY <2>4, <3>1, WalletOnce DEF LoadWallet
  <2>5. ASSUME NEW t \in Wallets, NEW v \in Sids, saveToken(t, v) PROVE MembershipInv'
    <3> DEFINE next == [wallet[t] EXCEPT ![v] = issueMembershipToken]
    <3>1. issueMembershipToken \in Nat
      BY ConstantsAreNat DEF issueMembershipToken, MembershipInv, MembershipType
    <3>2. next \in [Sids -> Nat] BY <3>1 DEF MembershipInv, MembershipType
    <3>3. stored' = next /\ wallet' = [wallet EXCEPT ![t] = next]
      BY <2>5 DEF saveToken, persistTokens
    <3>4. stored' \in [Sids -> Nat] /\ wallet' \in [Wallets -> [Sids -> Nat]]
      BY <3>2, <3>3 DEF MembershipInv, MembershipType
    <3> QED BY <2>5, <3>4, WalletOnce DEF saveToken
  <2>6. ASSUME NEW v \in Sids, JoinsWith(v) PROVE MembershipInv' BY <2>6, JoinsOnce
  <2>7. ASSUME NEW j \in joins, HandlesMembership(j) PROVE MembershipInv'
    BY <2>7, AdmitsOnce
  <2> QED BY <2>1, <2>2, <2>3, <2>4, <2>5, <2>6, <2>7 DEF MembershipNext
<1>3. MembershipInv => ProofAdmitsOnce BY DEF MembershipInv
<1> QED BY <1>1, <1>2, <1>3, PTL DEF MembershipSpec

-----------------------------------------------------------------------------
(* Pacing.tla.  What the paced queue can put into one window of the relay,  *)
(* for every rate.                                                          *)

(* The inductive invariant                                                    *)

\* Types, as far as the argument needs them.
PacerType ==
    /\ lanes \in [Lanes -> Nat]
    /\ tokens \in 0..RATE /\ idle \in 0..RATE
    /\ timer \in BOOLEAN /\ paused \in BOOLEAN /\ joined \in BOOLEAN

WindowType ==
    /\ window \in [age : 0..(RATE + 1), signals : Nat, chats : Nat]
    /\ socket \in [age : 0..(RATE + 1), count : Nat]

\* What has been counted and what could be written at once: a token that is
\* spent moves from one to the other, a tick adds one to both sides.
Budget == window.signals + refilled <= RATE + window.age

PacingInv == PacerType /\ WindowType /\ (window.age <= RATE => Budget) /\ BurstBounded /\ NeverStalls

-----------------------------------------------------------------------------
(* The operators                                                              *)

\* The smaller of two numbers is one of them and exceeds neither.
LEMMA LeastFacts ==
    ASSUME NEW a \in Int, NEW b \in Int
    PROVE  Least(a, b) \in Int /\ Least(a, b) <= a /\ Least(a, b) <= b /\ Least(a, b) \in {a, b}
BY DEF Least

LEMMA LeastNat ==
    ASSUME NEW a \in Nat, NEW b \in Nat
    PROVE  Least(a, b) \in Nat
BY DEF Least

LEMMA BeyondNat ==
    ASSUME NEW a \in Nat, NEW b \in Nat
    PROVE  Beyond(a, b) \in Nat
BY DEF Beyond

LEMMA SizeNat ==
    ASSUME NEW l \in [Lanes -> Nat]
    PROVE  QueueSize(l) \in Nat
BY DEF QueueSize, Lanes

LEMMA AheadNat ==
    ASSUME NEW l \in [Lanes -> Nat], NEW lane \in Lanes
    PROVE  Ahead(l, lane) \in Nat
BY DEF Ahead, Lanes

LEMMA DequeuedType ==
    ASSUME NEW l \in [Lanes -> Nat], NEW n \in Nat
    PROVE  dequeued(l, n) \in [Lanes -> Nat]
<1>1. SUFFICES ASSUME NEW lane \in Lanes
               PROVE  Beyond(l[lane], Beyond(n, Ahead(l, lane))) \in Nat
  BY DEF dequeued
<1>2. Ahead(l, lane) \in Nat /\ l[lane] \in Nat BY AheadNat
<1>3. Beyond(n, Ahead(l, lane)) \in Nat BY <1>2, BeyondNat
<1>4. QED BY <1>2, <1>3, BeyondNat

\* As many dequeues as there are frames leave none.
LEMMA DequeuedAll ==
    ASSUME NEW l \in [Lanes -> Nat]
    PROVE  QueueSize(dequeued(l, QueueSize(l))) = 0
<1>1. /\ "noise" \in Lanes /\ "chat" \in Lanes /\ "mesh" \in Lanes /\ "call" \in Lanes BY DEF Lanes
<1> DEFINE n == QueueSize(l)
<1>2. /\ l["noise"] \in Nat /\ l["chat"] \in Nat /\ l["mesh"] \in Nat /\ l["call"] \in Nat
  BY <1>1
<1>3. n = l["noise"] + l["chat"] + l["mesh"] + l["call"] BY DEF QueueSize
<1>4. dequeued(l, n)["noise"] = 0 BY <1>1, <1>2, <1>3 DEF dequeued, Beyond, Ahead
<1>5. dequeued(l, n)["chat"] = 0 BY <1>1, <1>2, <1>3 DEF dequeued, Beyond, Ahead
<1>6. dequeued(l, n)["mesh"] = 0 BY <1>1, <1>2, <1>3 DEF dequeued, Beyond, Ahead
<1>7. dequeued(l, n)["call"] = 0 BY <1>1, <1>2, <1>3 DEF dequeued, Beyond, Ahead
<1>8. QED BY <1>4, <1>5, <1>6, <1>7 DEF QueueSize
-----------------------------------------------------------------------------
(* Frames that reach the relay                                                *)

LEMMA RefilledType ==
    ASSUME PacerType
    PROVE  refilled \in 0..RATE /\ refilled <= tokens + idle
<1>1. RATE \in Nat /\ tokens \in Nat /\ idle \in Nat BY PacingConstants DEF PacerType
<1>2. QED BY <1>1 DEF refilled, Least

\* Signalling frames covered by the budget b keep the window within its bounds;
\* what is left of the budget can still be written.
LEMMA CountKeeps ==
    ASSUME PacerType, WindowType, window.age <= RATE => Budget, BurstBounded,
           NEW on \in BOOLEAN,
           NEW s \in [age : 0..(RATE + 1), count : Nat],
           NEW n \in Nat, NEW c \in Nat, n <= refilled,
           checkMessageLimit(on, s, n, c)
    PROVE  /\ WindowType' /\ BurstBounded'
           /\ window'.age <= RATE => window'.signals + (refilled - n) <= RATE + window'.age
<1> DEFINE k == Passed(s, n + c)
           add == Least(n, k)
<1>1. RATE \in Nat /\ SOCKET_LIMIT \in Nat BY PacingConstants
<1>2. refilled \in 0..RATE BY RefilledType
<1>3. k \in Nat
  <2>1. (IF Expired(s) THEN 0 ELSE s.count) \in Nat OBVIOUS
  <2>2. Beyond(SOCKET_LIMIT, IF Expired(s) THEN 0 ELSE s.count) \in Nat BY <1>1, <2>1, BeyondNat
  <2>3. n + c \in Nat OBVIOUS
  <2>4. QED BY <2>2, <2>3, LeastNat DEF Passed
<1>4. add \in Nat /\ add <= n BY <1>3, LeastNat, LeastFacts
<1>5. Least(c, k) \in Nat BY <1>3, LeastNat
<1>6. window.age \in 0..(RATE + 1) /\ window.signals \in Nat /\ window.chats \in Nat
  BY DEF WindowType
<1>7. socket' \in [age : 0..(RATE + 1), count : Nat]
  <2>1. CASE ~on \/ n + c = 0 BY <2>1 DEF checkMessageLimit
  <2>2. CASE ~(~on \/ n + c = 0)
    <3>1. socket' = Counted(s, n + c) BY <2>2 DEF checkMessageLimit
    <3>2. (IF Expired(s) THEN FreshSocket ELSE s) \in [age : 0..(RATE + 1), count : Nat]
      BY <1>1 DEF FreshSocket
    <3>3. \A q \in [age : 0..(RATE + 1), count : Nat] :
             [q EXCEPT !.count = Least(@ + (n + c), SOCKET_LIMIT)] \in [age : 0..(RATE + 1), count : Nat]
      <4>1. TAKE q \in [age : 0..(RATE + 1), count : Nat]
      <4>2. q.count + (n + c) \in Nat OBVIOUS
      <4>3. Least(q.count + (n + c), SOCKET_LIMIT) \in Nat BY <1>1, <4>2, LeastNat
      <4>4. QED BY <4>3
    <3>4. QED BY <3>1, <3>2, <3>3 DEF Counted
  <2>3. QED BY <2>1, <2>2
<1>8. CASE window' = window
  <2>1. WindowType' BY <1>7, <1>8 DEF WindowType
  <2>2. BurstBounded' BY <1>8 DEF BurstBounded
  <2>3. window.age <= RATE => window.signals + (refilled - n) <= RATE + window.age
    BY <1>1, <1>2, <1>6 DEF Budget
  <2>4. QED BY <1>8, <2>1, <2>2, <2>3
<1>9. CASE window' = [Current EXCEPT !.signals = @ + add, !.chats = @ + Least(c, k)]
  <2>1. CASE Expired(window)
    <3> DEFINE more == Least(c, k)
    <3>a. Current = [age |-> 0, signals |-> 0, chats |-> 0] BY <2>1 DEF Current, FreshWindow
    <3>b. add \in Nat /\ more \in Nat BY <1>4, <1>5
    <3>c. window' = [Current EXCEPT !.signals = @ + add, !.chats = @ + more] BY <1>9
    <3> HIDE DEF add, k, more
    <3>d. window' = [age |-> 0, signals |-> 0 + add, chats |-> 0 + more] BY <3>a, <3>c
    <3>1. window' = [age |-> 0, signals |-> add, chats |-> more] BY <3>b, <3>d
    <3>2. window'.age = 0 /\ window'.signals = add BY <3>1
    <3>3. WindowType' BY <1>1, <1>7, <3>b, <3>1 DEF WindowType
    <3>4. BurstBounded' BY <1>1, <1>2, <1>4, <3>2 DEF BurstBounded, Least
    <3>5. window'.signals + (refilled - n) <= RATE + window'.age BY <1>1, <1>2, <1>4, <3>2
    <3>6. QED BY <3>3, <3>4, <3>5
  <2>2. CASE ~Expired(window)
    <3> DEFINE more == Least(c, k)
    <3>b. add \in Nat /\ more \in Nat BY <1>4, <1>5
    <3>1. window' = [window EXCEPT !.signals = @ + add, !.chats = @ + more]
      BY <1>9, <2>2 DEF Current
    <3> HIDE DEF add, k, more
    <3>2. /\ window'.age = window.age
          /\ window'.signals = window.signals + add
          /\ window'.chats = window.chats + more
      BY <3>1 DEF WindowType
    <3>c. window.signals + add \in Nat /\ window.chats + more \in Nat BY <1>6, <3>b
    <3>d. window' \in [age : 0..(RATE + 1), signals : Nat, chats : Nat]
      BY <3>1, <3>c DEF WindowType
    <3>3. WindowType' BY <1>7, <3>d DEF WindowType
    <3>4. window.age <= RATE BY <1>1, <1>6, <2>2 DEF Expired
    <3>5. window.signals + refilled <= RATE + window.age BY <3>4 DEF Budget
    <3>6. Least(window.age, RATE) = window.age BY <1>1, <1>6, <3>4 DEF Least
    <3>7. BurstBounded' BY <1>1, <1>2, <1>4, <1>6, <3>2, <3>5, <3>6 DEF BurstBounded
    <3>8. window'.signals + (refilled - n) <= RATE + window'.age BY <1>1, <1>2, <1>4, <1>6, <3>2, <3>5
    <3>9. QED BY <3>3, <3>7, <3>8
  <2>3. QED BY <2>1, <2>2
<1>10. window' = window \/ window' = [Current EXCEPT !.signals = @ + add, !.chats = @ + Least(c, k)]
  <2>1. CASE ~on \/ n + c = 0 BY <2>1 DEF checkMessageLimit
  <2>2. CASE ~(~on \/ n + c = 0) BY <2>2 DEF checkMessageLimit
  <2>3. QED BY <2>1, <2>2
<1>11. QED BY <1>8, <1>9, <1>10

\* The loop of pump, with what it may spend of the bucket.
LEMMA WritesKeeps ==
    ASSUME PacerType, WindowType, window.age <= RATE => Budget, BurstBounded,
           NEW l \in [Lanes -> Nat], NEW b \in Nat, b <= refilled,
           NEW on \in BOOLEAN,
           NEW s \in [age : 0..(RATE + 1), count : Nat],
           writes(l, b, on, s)
    PROVE  /\ lanes' \in [Lanes -> Nat] /\ tokens' \in 0..RATE /\ idle' = 0
           /\ WindowType' /\ BurstBounded' /\ (window'.age <= RATE => Budget')
           /\ QueueSize(lanes') > 0 => QueueSize(l) > b
<1> DEFINE n == Least(b, QueueSize(l))
<1>1. RATE \in Nat BY PacingConstants
<1>2. refilled \in 0..RATE BY RefilledType
<1>3. QueueSize(l) \in Nat BY SizeNat
<1>4. n \in Nat /\ n <= b /\ n \in {b, QueueSize(l)} BY <1>3, LeastNat, LeastFacts
<1>5. lanes' = dequeued(l, n) /\ tokens' = b - n /\ idle' = 0 /\ checkMessageLimit(on, s, n, 0)
  BY DEF writes
<1>6. QueueSize(l) <= b => n = QueueSize(l) BY <1>3 DEF Least
<1> HIDE DEF n
<1>7. lanes' \in [Lanes -> Nat] BY <1>4, <1>5, DequeuedType
<1>8. tokens' \in 0..RATE BY <1>1, <1>2, <1>4, <1>5
<1>9. n <= refilled BY <1>2, <1>4
<1>10. /\ WindowType' /\ BurstBounded'
       /\ window'.age <= RATE => window'.signals + (refilled - n) <= RATE + window'.age
  <2>1. 0 \in Nat OBVIOUS
  <2>2. QED BY <1>4, <1>5, <1>9, <2>1, CountKeeps
<1>11. window'.age <= RATE => Budget'
  <2>1. refilled' = tokens' BY <1>1, <1>5, <1>8 DEF refilled, Least
  <2>2. tokens' <= refilled - n BY <1>2, <1>4, <1>5
  <2>3. window'.age \in Nat /\ window'.signals \in Nat BY <1>10 DEF WindowType
  <2>4. QED BY <1>1, <1>2, <1>4, <1>8, <1>10, <2>1, <2>2, <2>3 DEF Budget
<1>12. QueueSize(lanes') > 0 => QueueSize(l) > b
  <2>1. SUFFICES ASSUME ~(QueueSize(l) > b) PROVE QueueSize(lanes') = 0
    BY <1>7, SizeNat
  <2>2. n = QueueSize(l) BY <1>3, <1>6, <2>1
  <2>3. QED BY <1>5, <2>2, DequeuedAll
<1>13. QED BY <1>5, <1>7, <1>8, <1>10, <1>11, <1>12

-----------------------------------------------------------------------------
(* Every step keeps the invariant                                             *)

USE DEF PacingInv

\* Nothing is written: the bucket and the counters stay as they are.
LEMMA StillKeeps ==
    ASSUME PacingInv, UNCHANGED <<tokens, idle, counters>>
    PROVE  WindowType' /\ (window'.age <= RATE => Budget') /\ BurstBounded'
<1>1. tokens' = tokens /\ idle' = idle /\ window' = window /\ socket' = socket BY DEF counters
<1>2. refilled' = refilled BY <1>1 DEF refilled
<1>3. WindowType' BY <1>1 DEF WindowType
<1>4. BurstBounded' BY <1>1 DEF BurstBounded
<1>5. (window.age <= RATE => Budget)' BY <1>1, <1>2 DEF Budget
<1>6. QED BY <1>1, <1>3, <1>4, <1>5

LEMMA PumpKeeps ==
    ASSUME PacingInv, NEW l \in [Lanes -> Nat], NEW armed \in BOOLEAN,
           pump(l, armed), UNCHANGED <<paused, joined>>
    PROVE  PacingInv'
<1>1. refilled \in Nat /\ refilled <= refilled BY RefilledType
<1>2. joined \in BOOLEAN /\ socket \in [age : 0..(RATE + 1), count : Nat] BY DEF PacerType, WindowType
<1>3. writes(l, refilled, joined, socket) /\ timer' = (armed \/ QueueSize(l) > refilled) BY DEF pump
<1>4. /\ lanes' \in [Lanes -> Nat] /\ tokens' \in 0..RATE /\ idle' = 0
      /\ WindowType' /\ BurstBounded' /\ (window'.age <= RATE => Budget')
      /\ QueueSize(lanes') > 0 => QueueSize(l) > refilled
  BY <1>1, <1>2, <1>3, WritesKeeps
<1>5. timer' \in BOOLEAN BY <1>3
<1>6. PacerType'
  <2>1. RATE \in Nat BY PacingConstants
  <2>2. 0 \in 0..RATE BY <2>1
  <2>3. QED BY <1>4, <1>5, <2>2 DEF PacerType
<1>7. NeverStalls' BY <1>3, <1>4 DEF NeverStalls
<1>8. QED BY <1>4, <1>6, <1>7

LEMMA EnqueueKeeps ==
    ASSUME PacingInv, NEW kind \in Kinds, enqueue(kind)
    PROVE  PacingInv'
<1> DEFINE lane == classifySignalPriority(kind)
           l == [lanes EXCEPT ![lane] = @ + 1]
<1>1. lane \in Lanes BY DEF classifySignalPriority, Lanes
<1>2. l \in [Lanes -> Nat] BY <1>1 DEF PacerType
<1>3. CASE paused
  <2>1. lanes' = l /\ UNCHANGED <<tokens, idle, timer, paused, counters, joined>>
    BY <1>3 DEF enqueue
  <2>2. WindowType' /\ (window'.age <= RATE => Budget') /\ BurstBounded' BY <2>1, StillKeeps
  <2>3. PacerType' BY <1>2, <2>1 DEF PacerType
  <2>4. NeverStalls' BY <1>3, <2>1 DEF NeverStalls
  <2>5. QED BY <2>2, <2>3, <2>4
<1>4. CASE ~paused
  <2>1. pump(l, timer) /\ UNCHANGED <<paused, joined>> BY <1>4 DEF enqueue
  <2>2. timer \in BOOLEAN BY DEF PacerType
  <2>3. QED BY <1>2, <2>1, <2>2, PumpKeeps
<1>5. QED BY <1>3, <1>4

LEMMA TickBound ==
    ASSUME NEW r \in Nat, NEW t \in 0..r, NEW i \in 0..r, NEW j \in 0..r, j <= i + 1
    PROVE  /\ Least(r, t + i) \in Nat /\ Least(r, t + j) \in Nat
           /\ Least(r, t + j) <= Least(r, t + i) + 1
BY DEF Least

LEMMA ElapsesKeeps ==
    ASSUME PacingInv, Elapses
    PROVE  PacingInv'
<1>1. RATE \in Nat \ {0} BY PacingConstants
<1>2. /\ tokens \in 0..RATE /\ idle \in 0..RATE
      /\ window.age \in 0..(RATE + 1) /\ window.signals \in Nat /\ window.chats \in Nat
      /\ socket.age \in 0..(RATE + 1)
  BY DEF PacerType, WindowType
<1>3. idle' \in 0..RATE /\ idle' <= idle + 1 BY <1>1, <1>2 DEF Elapses, Least
<1>4. tokens' = tokens BY DEF Elapses
<1> DEFINE older == Least(window.age + 1, RATE + 1)
           oldest == Least(socket.age + 1, RATE + 1)
<1>5. older \in 0..(RATE + 1) /\ oldest \in 0..(RATE + 1) BY <1>1, <1>2 DEF Least
<1>6. /\ older >= window.age
      /\ older <= RATE => window.age <= RATE /\ older = window.age + 1
      /\ window.age <= RATE => older = window.age + 1
  BY <1>1, <1>2 DEF Least
<1>7. window' = [window EXCEPT !.age = older] /\ socket' = [socket EXCEPT !.age = oldest]
  BY DEF Elapses
<1> HIDE DEF older, oldest
<1>8. WindowType' BY <1>5, <1>7 DEF WindowType
<1>9. window'.age = older /\ window'.signals = window.signals BY <1>7 DEF WindowType
<1>10. PacerType'
  <2>1. UNCHANGED <<lanes, tokens, timer, paused, joined>> BY DEF Elapses
  <2>2. QED BY <1>3, <2>1 DEF PacerType
<1>11. NeverStalls' BY DEF Elapses, NeverStalls
<1>12. refilled \in Nat /\ refilled' \in Nat /\ refilled' <= refilled + 1
  <2>1. refilled = Least(RATE, tokens + idle) BY DEF refilled
  <2>2. refilled' = Least(RATE, tokens + idle') BY <1>4 DEF refilled
  <2>3. RATE \in Nat /\ tokens \in 0..RATE /\ idle \in 0..RATE BY <1>1, <1>2
  <2>4. QED BY <1>3, <2>1, <2>2, <2>3, TickBound
<1>13. window'.age <= RATE => Budget'
  BY <1>1, <1>2, <1>6, <1>9, <1>12 DEF Budget
<1>14. BurstBounded'
  <2>1. window.signals <= RATE + Least(window.age, RATE) BY DEF BurstBounded
  <2>2. Least(window.age, RATE) <= Least(older, RATE) BY <1>1, <1>2, <1>5, <1>6 DEF Least
  <2>3. Least(window.age, RATE) \in Nat /\ Least(older, RATE) \in Nat BY <1>1, <1>2, <1>5 DEF Least
  <2>4. QED BY <1>1, <1>2, <1>9, <2>1, <2>2, <2>3 DEF BurstBounded
<1>15. QED BY <1>8, <1>10, <1>11, <1>13, <1>14

LEMMA CloseKeeps ==
    ASSUME PacingInv, NEW still \in BOOLEAN, onclose(still)
    PROVE  PacingInv'
<1> DEFINE kept == [Empty EXCEPT !["noise"] = lanes["noise"]]
<1>1. kept \in [Lanes -> Nat] BY DEF Empty, Lanes, PacerType
<1>2. joined' = still /\ paused' = TRUE /\ timer' = FALSE BY DEF onclose
<1>3. NeverStalls' BY <1>2 DEF NeverStalls
<1>4. CASE paused
  <2>1. lanes' = kept /\ UNCHANGED <<tokens, idle, counters>> BY <1>4 DEF onclose
  <2>2. WindowType' /\ (window'.age <= RATE => Budget') /\ BurstBounded' BY <2>1, StillKeeps
  <2>3. PacerType' BY <1>1, <1>2, <2>1 DEF PacerType
  <2>4. QED BY <1>3, <2>2, <2>3
<1>5. CASE ~paused
  <2>1. writes(kept, refilled, still, socket) BY <1>5 DEF onclose
  <2>2. refilled \in Nat /\ refilled <= refilled BY RefilledType
  <2>3. socket \in [age : 0..(RATE + 1), count : Nat] BY DEF WindowType
  <2> HIDE DEF kept
  <2>4. /\ lanes' \in [Lanes -> Nat] /\ tokens' \in 0..RATE /\ idle' = 0
        /\ WindowType' /\ BurstBounded' /\ (window'.age <= RATE => Budget')
    BY <1>1, <2>1, <2>2, <2>3, WritesKeeps
  <2>5. 0 \in 0..RATE BY PacingConstants
  <2>6. PacerType' BY <1>2, <2>4, <2>5 DEF PacerType
  <2>7. QED BY <1>3, <2>4, <2>6
<1>6. QED BY <1>4, <1>5

LEMMA AdmittedKeeps ==
    ASSUME PacingInv, Admitted
    PROVE  PacingInv'
<1>1. RATE \in Nat BY PacingConstants
<1>2. JoinedSocket \in [age : 0..(RATE + 1), count : Nat] BY <1>1 DEF JoinedSocket
<1>3. joined' = TRUE /\ paused' = FALSE BY DEF Admitted
<1>4. CASE paused
  <2> DEFINE b == Least(tokens, RATE)
  <2>1. b \in Nat /\ b <= refilled BY <1>1 DEF PacerType, refilled, Least
  <2>2. writes(lanes, b, TRUE, JoinedSocket) /\ timer' = (QueueSize(lanes) > b)
    BY <1>4 DEF Admitted
  <2>3. lanes \in [Lanes -> Nat] /\ TRUE \in BOOLEAN BY DEF PacerType
  <2> HIDE DEF b
  <2>4. /\ lanes' \in [Lanes -> Nat] /\ tokens' \in 0..RATE /\ idle' = 0
        /\ WindowType' /\ BurstBounded' /\ (window'.age <= RATE => Budget')
        /\ QueueSize(lanes') > 0 => QueueSize(lanes) > b
    BY <1>2, <2>1, <2>2, <2>3, WritesKeeps
  <2>5. timer' \in BOOLEAN BY <2>2
  <2>6. 0 \in 0..RATE BY <1>1
  <2>7. PacerType' BY <1>3, <2>4, <2>5, <2>6 DEF PacerType
  <2>8. NeverStalls' BY <2>2, <2>4 DEF NeverStalls
  <2>9. QED BY <2>4, <2>7, <2>8
<1>5. CASE ~paused
  <2>1. socket' = JoinedSocket /\ UNCHANGED <<lanes, tokens, idle, timer, window>>
    BY <1>5 DEF Admitted
  <2>2. refilled' = refilled BY <2>1 DEF refilled
  <2>3. WindowType' BY <1>2, <2>1 DEF WindowType
  <2>4. BurstBounded' BY <2>1 DEF BurstBounded
  <2>5. window'.age <= RATE => Budget' BY <2>1, <2>2 DEF Budget
  <2>6. PacerType' BY <1>3, <2>1 DEF PacerType
  <2>7. NeverStalls' BY <1>5, <2>1 DEF NeverStalls
  <2>8. QED BY <2>3, <2>4, <2>5, <2>6, <2>7
<1>6. QED BY <1>4, <1>5

LEMMA LeaveKeeps ==
    ASSUME PacingInv, LeavesRoom
    PROVE  PacingInv'
<1>1. RATE \in Nat BY PacingConstants
<1>2. /\ lanes' = Empty /\ timer' = FALSE /\ joined' = FALSE
      /\ window' \in {window, NoWindow}
      /\ UNCHANGED <<tokens, idle, paused, socket>>
  BY DEF LeavesRoom
<1>3. Empty \in [Lanes -> Nat] BY DEF Empty
<1>4. PacerType' BY <1>2, <1>3 DEF PacerType
<1>5. NeverStalls'
  <2>1. QueueSize(lanes') = 0 BY <1>2 DEF QueueSize, Empty, Lanes
  <2>2. QED BY <2>1 DEF NeverStalls
<1>6. CASE window' = window
  <2>1. UNCHANGED <<tokens, idle, counters>> BY <1>2, <1>6 DEF counters
  <2>2. QED BY <1>4, <1>5, <2>1, StillKeeps
<1>7. CASE window' = NoWindow
  <2>1. window' = [age |-> RATE + 1, signals |-> 0, chats |-> 0]
    BY <1>7 DEF NoWindow, FreshWindow
  <2>2. WindowType' BY <1>1, <1>2, <2>1 DEF WindowType
  <2>3. ~(window'.age <= RATE) BY <1>1, <2>1
  <2>4. BurstBounded' BY <1>1, <2>1 DEF BurstBounded, Least
  <2>5. QED BY <1>4, <1>5, <2>2, <2>3, <2>4
<1>8. QED BY <1>2, <1>6, <1>7

LEMMA DirectKeeps ==
    ASSUME PacingInv, SendsDirect
    PROVE  PacingInv'
<1>1. checkMessageLimit(TRUE, socket, 0, 1) /\ UNCHANGED <<pacer, joined>> BY DEF SendsDirect
<1>2. UNCHANGED <<lanes, tokens, idle, timer, paused, joined>> BY <1>1 DEF pacer
<1>3. socket \in [age : 0..(RATE + 1), count : Nat] /\ TRUE \in BOOLEAN BY DEF WindowType
<1>4. refilled \in 0..RATE BY RefilledType
<1>5. 0 \in Nat /\ 1 \in Nat /\ 0 <= refilled BY <1>4, PacingConstants
<1>6. /\ WindowType' /\ BurstBounded'
      /\ window'.age <= RATE => window'.signals + (refilled - 0) <= RATE + window'.age
  BY <1>1, <1>3, <1>5, CountKeeps
<1>7. refilled' = refilled BY <1>2 DEF refilled
<1>8. window'.age <= RATE => Budget' BY <1>4, <1>6, <1>7, PacingConstants DEF Budget
<1>9. PacerType' BY <1>2 DEF PacerType
<1>10. NeverStalls' BY <1>2 DEF NeverStalls
<1>11. QED BY <1>6, <1>8, <1>9, <1>10

-----------------------------------------------------------------------------
(* Theorems                                                                   *)

\* The invariant of the paced queue is inductive.
THEOREM PacingInvariant == PacingSpec => []PacingInv
<1>1. PacingInit => PacingInv
  <2> SUFFICES ASSUME PacingInit PROVE PacingInv OBVIOUS
  <2>1. RATE \in Nat \ {0} BY PacingConstants
  <2>2. Empty \in [Lanes -> Nat] BY DEF Empty
  <2>0. RATE \in 0..RATE /\ 0 \in 0..RATE BY <2>1
  <2>3. PacerType BY <2>0, <2>2 DEF PacingInit, PacerType
  <2>4. window = [age |-> RATE + 1, signals |-> 0, chats |-> 0]
    BY DEF PacingInit, NoWindow, FreshWindow
  <2>5. WindowType BY <2>1, <2>4 DEF PacingInit, WindowType, JoinedSocket
  <2>6. ~(window.age <= RATE) BY <2>1, <2>4
  <2>7. BurstBounded BY <2>1, <2>4 DEF BurstBounded, Least
  <2>8. QueueSize(lanes) = 0 BY DEF PacingInit, QueueSize, Empty, Lanes
  <2>9. QED BY <2>3, <2>5, <2>6, <2>7, <2>8 DEF NeverStalls
<1>2. PacingInv /\ [PacingNext]_pacing => PacingInv'
  <2> SUFFICES ASSUME PacingInv, [PacingNext]_pacing PROVE PacingInv' OBVIOUS
  <2>1. CASE \E kind \in Kinds : enqueue(kind) BY <2>1, EnqueueKeeps
  <2>2. CASE TimerFires
    <3>1. pump(lanes, FALSE) /\ UNCHANGED <<paused, joined>> BY <2>2 DEF TimerFires
    <3>2. lanes \in [Lanes -> Nat] /\ FALSE \in BOOLEAN BY DEF PacerType
    <3>3. QED BY <3>1, <3>2, PumpKeeps
  <2>3. CASE Elapses BY <2>3, ElapsesKeeps
  <2>4. CASE SocketCloses
    <3>1. onclose(FALSE) /\ FALSE \in BOOLEAN BY <2>4 DEF SocketCloses
    <3>2. QED BY <3>1, CloseKeeps
  <2>5. CASE ReplacedCloses
    <3>1. onclose(joined) /\ joined \in BOOLEAN BY <2>5 DEF ReplacedCloses, PacerType
    <3>2. QED BY <3>1, CloseKeeps
  <2>6. CASE Admitted BY <2>6, AdmittedKeeps
  <2>7. CASE LeavesRoom BY <2>7, LeaveKeeps
  <2>8. CASE SendsDirect BY <2>8, DirectKeeps
  <2>9. CASE UNCHANGED pacing
    <3>1. UNCHANGED <<lanes, tokens, idle, timer, paused, joined, counters>>
      BY <2>9 DEF pacing, pacer
    <3>2. WindowType' /\ (window'.age <= RATE => Budget') /\ BurstBounded' BY <3>1, StillKeeps
    <3>3. PacerType' BY <3>1 DEF PacerType
    <3>4. NeverStalls' BY <3>1 DEF NeverStalls
    <3>5. QED BY <3>2, <3>3, <3>4
  <2>10. QED BY <2>1, <2>2, <2>3, <2>4, <2>5, <2>6, <2>7, <2>8, <2>9 DEF PacingNext
<1>3. QED BY <1>1, <1>2, PTL DEF PacingSpec

\* Whatever pauses, reconnects and late timeouts lie between, a window of the
\* relay never counts more signalling than one full bucket and what has accrued
\* since it began: at most twice the rate.
THEOREM BurstAlwaysBounded == PacingSpec => []BurstBounded
<1>1. PacingInv => BurstBounded OBVIOUS
<1>2. QED BY <1>1, PacingInvariant, PTL

\* Frames are never left waiting without a timeout that will send them, unless
\* the pacer is paused.
THEOREM NeverAlwaysStalls == PacingSpec => []NeverStalls
<1>1. PacingInv => NeverStalls OBVIOUS
<1>2. QED BY <1>1, PacingInvariant, PTL

\* The relay drops no signalling of a page that sends nothing else, if its limit
\* is at least twice the pace (it is 10, the pace 6).
THEOREM TwiceIsEnough == 2 * RATE <= LIMIT => (PacingSpec => []PacedBelowLimit)
<1>1. ASSUME 2 * RATE <= LIMIT, PacingInv PROVE PacedBelowLimit
  <2>1. RATE \in Nat /\ LIMIT \in Nat BY PacingConstants
  <2>2. window.age \in Nat /\ window.signals \in Nat BY <1>1, <2>1 DEF WindowType
  <2>3. window.signals <= RATE + Least(window.age, RATE) BY <1>1 DEF BurstBounded
  <2>4. Least(window.age, RATE) <= RATE /\ Least(window.age, RATE) \in Nat BY <2>1, <2>2 DEF Least
  <2>5. QED BY <1>1, <2>1, <2>2, <2>3, <2>4 DEF PacedBelowLimit
<1>2. SUFFICES ASSUME 2 * RATE <= LIMIT PROVE PacingSpec => []PacedBelowLimit OBVIOUS
<1>3. PacingInv => PacedBelowLimit BY <1>1, <1>2
<1>4. QED BY <1>3, PacingInvariant, PTL

-----------------------------------------------------------------------------
(* MCPage.tla.  That every part behaves on the page as it does alone.       *)

\* Each part of the page behaves as its own specification says, so that what is
\* proved of the parts holds of the page they make (the modules that useRelay and
\* ChatRoom put together share no state).
THEOREM EachPartRuns ==
  PageSpec => /\ Spec /\ WhitelistSpec /\ VerificationSpec /\ IdentitySpec
              /\ RecordingSpec /\ MembershipSpec /\ PacingSpec
<1>1. PageInit => /\ Init /\ WhitelistInit /\ VerificationInit /\ IdentityInit
                  /\ RecordingInit /\ MembershipInit /\ PacingInit
  BY DEF PageInit
<1> DEFINE page == <<talk, whitelist, verification, identityVars, recording, membership,
                     pacing, part>>
<1>2. ASSUME [PageNext]_page
      PROVE  /\ [Next]_vars /\ [WhitelistNext]_whitelist /\ [VerificationNext]_verification
             /\ [IdentityNext]_identityVars /\ [RecordingNext]_recording
             /\ [MembershipNext]_membership /\ [PacingNext]_pacing
  BY <1>2 DEF PageNext, talk
<1> QED
  BY <1>1, <1>2, PTL DEF PageSpec, Spec, WhitelistSpec, VerificationSpec, IdentitySpec,
     RecordingSpec, MembershipSpec, PacingSpec
==============================================================================
