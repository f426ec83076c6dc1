--------------------------- MODULE MCClientAccess ---------------------------
(* ClientAccess for TLC.                                                   *)
EXTENDS ClientAccess

CONSTANTS t1, t2, sso, other, r1

TwoThreads == {t1, t2}
=============================================================================
