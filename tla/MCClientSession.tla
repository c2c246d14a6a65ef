--------------------------- MODULE MCClientSession ---------------------------
(* Small instances of ClientSession for TLC.                                 *)
EXTENDS ClientSession, TLC

CONSTANTS t1, t2, a, c1, c2

\* One tab has two requests, which may have to share a refresh, the second of them
\* a change of password.  The other tab signs in and out, is closed and loaded
\* again, and comes back to the session that is stored.
MCCallsOf == (t1 :> {c1, c2}) @@ (t2 :> {})
=============================================================================
