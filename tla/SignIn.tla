-------------------------------- MODULE SignIn --------------------------------
(***************************************************************************)
(* What perform_sso_login promises get_client_entry, which calls it: it    *)
(* returns when it has written a token for this login and never without,   *)
(* leaves by an exception otherwise, and takes its server with it either   *)
(* way.  Nothing is said of flows, browsers, codes and clocks.             *)
(***************************************************************************)
EXTENDS Naturals

VARIABLES
    under,        \* a login is under way
    login,        \* its number
    listening,    \* there is a thread that uses its variables
    outcome,      \* how the last one ended
    token         \* the login whose token is in the SSO cache, or 0

signInVars == <<under, login, listening, outcome, token>>

SignInInit ==
    /\ ~under /\ login = 0 /\ ~listening
    /\ outcome = "none" /\ token = 0

(* A login is refused at once when the profile or the host does not do.    *)
Begins ==
    /\ ~under
    /\ login' = login + 1
    /\ \/ under' = TRUE /\ outcome' = "none"
       \/ under' = FALSE /\ outcome' = "failed"
    /\ UNCHANGED <<listening, token>>

Listens ==
    /\ under
    /\ listening' = ~listening
    /\ UNCHANGED <<under, login, outcome, token>>

Ends == under /\ ~listening /\ under' = FALSE /\ UNCHANGED <<login, listening>>

Returns == Ends /\ outcome' = "token" /\ token' = login

(* Writing the token is what fails last; the file may be gone by then.     *)
Breaks ==
    /\ under /\ token' \in {token, 0}
    /\ UNCHANGED <<under, login, listening, outcome>>

Throws ==
    /\ Ends
    /\ outcome' \in {"failed", "cancelled"}
    /\ token' = token \/ (outcome' = "failed" /\ token' = 0)

SignInNext == Begins \/ Listens \/ Returns \/ Breaks \/ Throws

SignInSpec == SignInInit /\ [][SignInNext]_signInVars
===============================================================================
