-------------------------- MODULE MCVaultAdmission --------------------------
(* Small instances of VaultAdmission for TLC.                              *)
EXTENDS VaultAdmission, TLC

CONSTANTS h1, h2, g1, g2

OneHost == {h1}
TwoHostIds == {h1, h2}
OneGuest == {g1}
TwoGuests == {g1, g2}
NoGuests == {}

\* Sockets are interchangeable: nothing but identity is read from them.
SocketSymmetry == Permutations(Sockets)

\* An object that has left the store and that no handler holds is never read
\* again: states that differ only there are the same state.
InUse(i) == i = store \/ \E t \in tasks : t \in SocketTasks /\ t.obj = i
LiveState == <<made, [i \in Ids |-> IF InUse(i) THEN vault[i] ELSE NewVault(h1)],
               store, deleted, conn, connected, sock, tasks, owner>>
=============================================================================
