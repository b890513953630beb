------------------------- MODULE MCSessionLifecycle -------------------------
(* Small instances of SessionLifecycle for TLC: the limits keep the order   *)
(* and the rough proportions they have in constants.ts and useSession.     *)
EXTENDS SessionLifecycle

CONSTANTS c1, c2

\* `heard' is FALSE for an answer that is lost, `page' for a closed page.
AppTtls == {DefaultTtl}
ApiTtls == {DefaultTtl, MaxTtl}
=============================================================================
