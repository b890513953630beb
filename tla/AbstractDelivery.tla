--------------------------- MODULE AbstractDelivery ---------------------------
(*****************************************************************************)
(* What the chat promises about one message: the recipient's screen shows it *)
(* at most once in its life there, only if it was written, and the sender is *)
(* told "delivered" only for a message that was shown.                       *)
(*****************************************************************************)
CONSTANT Nonces

VARIABLES submitted, shown, settled

vars == <<submitted, shown, settled>>

Init == submitted = {} /\ shown = {} /\ settled = {}

Submit(n) ==
  /\ n \notin submitted
  /\ submitted' = submitted \cup {n}
  /\ UNCHANGED <<shown, settled>>

Show(n) ==
  /\ n \in submitted \ shown
  /\ shown' = shown \cup {n}
  /\ UNCHANGED <<submitted, settled>>

Settle(n) ==
  /\ n \in shown \ settled
  /\ settled' = settled \cup {n}
  /\ UNCHANGED <<submitted, shown>>

Next == \E n \in Nonces : Submit(n) \/ Show(n) \/ Settle(n)

Spec == Init /\ [][Next]_vars
===============================================================================
