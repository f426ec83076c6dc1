------------------------------- MODULE SsoLogin -------------------------------
(***************************************************************************)
(* perform_sso_login: how a user signs in.  The PKCE flow waits for the    *)
(* browser to come back to a server the plugin runs on another thread      *)
(* (the listener); the device flow asks AWS again and again whether the    *)
(* user has signed in.  When the first fails the user may try the second.  *)
(*                                                                         *)
(* The thread that calls it is in one of the places below.  The listener's *)
(* critical sections, the browser and the clock come in between.           *)
(***************************************************************************)
EXTENDS Naturals

CONSTANTS
    MaxLogins,        \* bound: logins; the number of one is its `state`
    PkceLifetime,     \* how long the browser is waited for
    DeviceLifetime,   \* expires_in of a device code
    Intervals,        \* the intervals a device code may come with, at least one tick
    SlowDown,         \* what slow_down adds to one ...
    MaxInterval,      \* ... up to this, which it may have been over
    NoCallback,       \* neither a code nor an error has come
    CallbackError     \* an error has

ASSUME LoginAssumption ==
    /\ {MaxLogins, PkceLifetime, DeviceLifetime} \subseteq Nat
    /\ Intervals # {} /\ Intervals \subseteq Nat \ {0}
    /\ SlowDown \in Nat /\ MaxInterval \in Nat
    /\ NoCallback \notin 1..MaxLogins /\ CallbackError \notin 1..MaxLogins
    /\ NoCallback # CallbackError

VARIABLES
    pc,               \* where the caller is
    flow,
    login,            \* the number of this login
    result,           \* how the last one ended; in "join", the exception on its way
    listener,         \* the listener's thread
    callback,         \* the code, by the login it belongs to, or the error
    ready,            \* the semaphore's count
    copy,             \* what the caller has read of callback
    completed,
    tabs,             \* logins whose page is open in a browser
    registered,       \* registered[f]: a valid client registration is cached
    elapsed,          \* time since the wait began, up to the deadline
    since,            \* time since the last answer to a poll
    interval,         \* how long to wait before the next one
    token             \* the login whose token is in the SSO cache, or 0

serverVars == <<listener, callback, ready>>
clockVars == <<elapsed, since, interval>>
loginVars == <<pc, flow, login, result, serverVars, copy, completed, tabs,
               registered, clockVars, token>>

Flows == {"pkce", "device"}
Results == {"none", "token", "failed", "cancelled"}
Callbacks == 1..MaxLogins \cup {CallbackError, NoCallback}

(* Where the host shows a box or is told of progress, and may dispatch the *)
(* messages of other windows meanwhile.                                    *)
Pumping == {"confirm", "urlbox", "wait", "fallback", "devicebox", "devicewait"}
(* While the listener's server exists.                                     *)
Listening == {"open", "urlbox", "wait", "read", "join"}
Labels == Pumping \cup {"out", "register", "open", "read", "join", "exchange",
                        "write", "authorize", "poll"}

AtMost(a, b) == IF a < b THEN a ELSE b
Lifetime == IF flow = "pkce" THEN PkceLifetime ELSE DeviceLifetime
Late == elapsed = Lifetime

CallerTypeOK ==
    /\ pc \in Labels /\ flow \in Flows /\ login \in 0..MaxLogins /\ result \in Results
    /\ completed \in BOOLEAN
    /\ tabs \subseteq 1..MaxLogins
    /\ registered \in [Flows -> BOOLEAN]
    /\ token \in 0..MaxLogins

ServerTypeOK ==
    /\ listener \in {"off", "on", "replying"}
    /\ callback \in Callbacks /\ copy \in Callbacks
    /\ ready \in 0..2

ClockTypeOK ==
    /\ elapsed \in 0..Lifetime
    /\ interval \in Nat /\ since \in 0..interval

LoginTypeOK == CallerTypeOK /\ ServerTypeOK /\ ClockTypeOK

LoginInit ==
    /\ pc = "out" /\ flow = "pkce" /\ login = 0 /\ result = "none"
    /\ listener = "off" /\ callback = NoCallback /\ ready = 0
    /\ copy = NoCallback /\ completed = FALSE
    /\ tabs = {}
    /\ registered = [f \in Flows |-> FALSE]
    /\ elapsed = 0 /\ since = 0 /\ interval = 0
    /\ token = 0

Reset ==
    /\ copy' = NoCallback /\ completed' = FALSE
    /\ elapsed' = 0 /\ since' = 0 /\ interval' = 0

(* The end of perform_sso_login, by its return or by an exception.         *)
End(r) == pc' = "out" /\ result' = r /\ Reset

(* SsoLoginFailed: after the PKCE flow the user is offered the other one.  *)
Fail ==
    IF flow = "pkce" THEN pc' = "fallback" /\ Reset /\ UNCHANGED result
    ELSE End("failed")

Goto(label) ==
    /\ pc' = label
    /\ UNCHANGED <<result, copy, completed, clockVars>>

----------------------------------------------------------------------------
(* Before the flows                                                        *)

(* Without start URL or region, or without a host that shows boxes, the    *)
(* login fails at once.                                                    *)
BeginLogin ==
    /\ pc = "out" /\ login < MaxLogins
    /\ login' = login + 1
    /\ \/ pc' = "confirm" /\ result' = "none"
       \/ pc' = "out" /\ result' = "failed"
    /\ UNCHANGED <<flow, serverVars, copy, completed, tabs, registered, clockVars, token>>

(* PreferSsoDeviceCode decides about the flow.                             *)
Confirm ==
    /\ pc = "confirm"
    /\ \/ Goto("register") /\ flow' \in Flows
       \/ End("cancelled") /\ UNCHANGED flow
    /\ UNCHANGED <<login, serverVars, tabs, registered, token>>

(* register_sso_client, in the PKCE flow after a port has been bound and   *)
(* before the listener starts.  A cached registration that is expired or   *)
(* cannot be parsed counts as none; a new one has to be written.           *)
Register ==
    /\ pc = "register"
    /\ \/ /\ registered' = [registered EXCEPT ![flow] = TRUE]
          /\ Goto(IF flow = "pkce" THEN "open" ELSE "authorize")
          /\ listener' = IF flow = "pkce" THEN "on" ELSE "off"
       \/ /\ flow = "pkce" \/ ~registered[flow]
          /\ Fail
          /\ UNCHANGED <<registered, listener>>
    /\ UNCHANGED <<flow, login, callback, ready, tabs, token>>

(* A failed PKCE login goes on with the device flow if the user agrees.    *)
FallBack ==
    /\ pc = "fallback"
    /\ \/ Goto("register") /\ flow' = "device"
       \/ End("failed") /\ UNCHANGED flow
    /\ UNCHANGED <<login, serverVars, tabs, registered, token>>

----------------------------------------------------------------------------
(* perform_pkce_sso_login                                                  *)

OpenBrowser ==
    /\ pc = "open"
    /\ tabs' = tabs \cup {login}
    /\ Goto("wait") \/ Goto("urlbox")
    /\ UNCHANGED <<flow, login, serverVars, registered, token>>

(* The exception when nothing joins the listener's thread.                 *)
Throw_LeavesListener == End("cancelled")

(* An exception stops the server; the listener is joined before the        *)
(* callback's storage goes.                                                *)
Throw ==
    /\ pc' = "join" /\ result' = "cancelled"
    /\ UNCHANGED <<copy, completed, clockVars>>

AnswerUrlBox ==
    /\ pc = "urlbox"
    /\ Goto("wait") \/ Throw
    /\ UNCHANGED <<flow, login, serverVars, tabs, registered, token>>

(* wait_for_sso without its comparison of the clock.                       *)
WaitForBrowser_Forever ==
    /\ pc = "wait" /\ ready > 0
    /\ ready' = ready - 1
    /\ pc' = "read" /\ completed' = TRUE
    /\ UNCHANGED <<result, copy, clockVars, flow, login, listener, callback, tabs,
                   registered, token>>

(* wait_for_sso: the deadline is compared first, then the host is told and *)
(* may cancel (CancelWait), then the semaphore is tried, whatever time it  *)
(* is by then.                                                             *)
WaitForBrowser ==
    /\ pc = "wait"
    /\ \/ /\ ready > 0
          /\ ready' = ready - 1
          /\ pc' = "read" /\ completed' = TRUE
          /\ UNCHANGED <<result, copy, clockVars>>
       \/ /\ Late
          /\ Goto("read")
          /\ UNCHANGED ready
    /\ UNCHANGED <<flow, login, listener, callback, tabs, registered, token>>

(* The user cancels what notify_progress reports; the device flow has no   *)
(* listener to wait for.                                                   *)
CancelWait ==
    /\ \/ pc = "wait" /\ Throw
       \/ pc = "devicewait" /\ End("cancelled")
    /\ UNCHANGED <<flow, login, serverVars, tabs, registered, token>>

(* Under the callback's mutex.  Then the server is told to stop.           *)
ReadCallback ==
    /\ pc = "read"
    /\ pc' = "join" /\ copy' = callback
    /\ UNCHANGED <<flow, login, result, serverVars, completed, tabs, registered,
                   clockVars, token>>

(* What follows the wait when its result is not looked at.                 *)
JoinListener_IgnoresTimeout ==
    /\ pc = "join" /\ listener = "off"
    /\ callback' = NoCallback /\ ready' = 0
    /\ IF result = "cancelled" THEN End("cancelled")
       ELSE IF copy = CallbackError THEN Fail
       ELSE Goto("exchange")
    /\ UNCHANGED <<flow, login, listener, tabs, registered, token>>

(* A cancellation caught as the failure it is derived from.                *)
JoinListener_CatchesFailure ==
    /\ pc = "join" /\ listener = "off"
    /\ callback' = NoCallback /\ ready' = 0
    /\ IF result = "cancelled" \/ ~completed \/ copy = CallbackError THEN Fail
       ELSE Goto("exchange")
    /\ UNCHANGED <<flow, login, listener, tabs, registered, token>>

(* listener.join(), or the destructor of the listener.                     *)
JoinListener ==
    /\ pc = "join" /\ listener = "off"
    /\ callback' = NoCallback /\ ready' = 0
    /\ IF result = "cancelled" THEN End("cancelled")
       ELSE IF ~completed \/ copy = CallbackError THEN Fail
       ELSE Goto("exchange")
    /\ UNCHANGED <<flow, login, listener, tabs, registered, token>>

(* CreateToken: AWS takes a code with the verifier of its login only.      *)
ExchangeCode ==
    /\ pc = "exchange"
    /\ \/ copy = login /\ Goto("write")
       \/ Fail
    /\ UNCHANGED <<flow, login, serverVars, tabs, registered, token>>

(* write_sso_token whose result nobody looks at.                           *)
WriteToken_Unchecked ==
    /\ pc = "write"
    /\ End("token") /\ token' \in {login, token, 0}
    /\ UNCHANGED <<flow, login, serverVars, tabs, registered>>

(* write_sso_token, the last step of both flows; a write that fails may    *)
(* have truncated the file of the old token.                               *)
WriteToken ==
    /\ pc = "write"
    /\ \/ End("token") /\ token' = login
       \/ Fail /\ token' \in {token, 0}
    /\ UNCHANGED <<flow, login, serverVars, tabs, registered>>

----------------------------------------------------------------------------
(* The listener                                                            *)

(* The storing part of the handler when a second callback replaces the     *)
(* first.                                                                  *)
HandleCallback_Again(n, answer) ==
    /\ listener = "on"
    /\ n = login
    /\ callback' = answer
    /\ listener' = "replying"
    /\ UNCHANGED ready

(* A browser comes to the callback address with the state of login n.  A   *)
(* request of another login and every one after the first change nothing.  *)
HandleCallback(n, answer) ==
    /\ listener = "on"
    /\ n = login
    /\ callback = NoCallback
    /\ callback' = answer
    /\ listener' = "replying"
    /\ UNCHANGED ready

(* The handler's last act, after the mutex has been released.              *)
SignalReady ==
    /\ listener = "replying"
    /\ ready' = ready + 1
    /\ listener' = "on"
    /\ UNCHANGED callback

(* listen_after_bind returns false.                                        *)
ListenerFails ==
    /\ listener = "on"
    /\ listener' = "off"
    /\ IF callback = NoCallback
       THEN callback' = CallbackError /\ ready' = ready + 1
       ELSE UNCHANGED <<callback, ready>>

(* server.stop() ends the thread; handlers that run are finished first.    *)
ListenerStops ==
    /\ pc = "join" /\ listener = "on"
    /\ listener' = "off"
    /\ UNCHANGED <<callback, ready>>

Browser ==
    \E n \in tabs : HandleCallback(n, n) \/ HandleCallback(n, CallbackError)

Listener == SignalReady \/ ListenerStops

----------------------------------------------------------------------------
(* perform_device_sso_login                                                *)

(* StartDeviceAuthorization brings a code and the interval for it; the     *)
(* user is shown the code.                                                 *)
Authorize ==
    /\ pc = "authorize"
    /\ \/ /\ pc' = "devicebox" /\ interval' \in Intervals
          /\ UNCHANGED <<result, copy, completed, elapsed, since>>
       \/ Fail
    /\ UNCHANGED <<flow, login, serverVars, tabs, registered, token>>

AnswerDeviceBox ==
    /\ pc = "devicebox"
    /\ Goto("devicewait") \/ End("cancelled")
    /\ UNCHANGED <<flow, login, serverVars, tabs, registered, token>>

(* wait_for_sso with a semaphore nobody releases, for one interval or what *)
(* is left of the code's lifetime.                                         *)
WaitForInterval ==
    /\ pc = "devicewait"
    /\ \/ Late /\ Fail
       \/ ~Late /\ since >= interval /\ Goto("poll")
    /\ UNCHANGED <<flow, login, serverVars, tabs, registered, token>>

(* std::min: what is over the cap comes down to it.                        *)
SlowedDown == AtMost(interval + SlowDown, MaxInterval)

(* CreateToken, and what becomes of its answer.                            *)
Poll ==
    /\ pc = "poll"
    /\ \/ Goto("write")
       \/ /\ pc' = "devicewait" /\ since' = 0
          /\ UNCHANGED interval \/ interval' = SlowedDown
          /\ UNCHANGED <<result, copy, completed, elapsed>>
       \/ Fail
    /\ UNCHANGED <<flow, login, serverVars, tabs, registered, token>>

----------------------------------------------------------------------------
(* The whole                                                               *)

Timed == {"wait", "devicewait", "poll"}

Tick ==
    /\ pc \in Timed /\ ~Late
    /\ elapsed' = elapsed + 1
    /\ since' = AtMost(since + 1, interval)
    /\ UNCHANGED <<pc, flow, login, result, serverVars, copy, completed, tabs,
                   registered, interval, token>>

RegistrationExpires(f) ==
    /\ registered[f]
    /\ registered' = [registered EXCEPT ![f] = FALSE]
    /\ UNCHANGED <<pc, flow, login, result, serverVars, copy, completed, tabs,
                   clockVars, token>>

(* Steps of the thread that signs in.                                      *)
LoginStep ==
    \/ Confirm \/ Register \/ FallBack
    \/ OpenBrowser \/ AnswerUrlBox \/ WaitForBrowser \/ ReadCallback
    \/ JoinListener \/ ExchangeCode \/ WriteToken
    \/ Authorize \/ AnswerDeviceBox \/ WaitForInterval \/ Poll

ListenerStep(A) ==
    A /\ UNCHANGED <<pc, flow, login, result, copy, completed, tabs, registered,
                     clockVars, token>>

LoginNext ==
    \/ LoginStep \/ CancelWait
    \/ ListenerStep(Listener) \/ ListenerStep(ListenerFails) \/ ListenerStep(Browser)
    \/ Tick
    \/ \E f \in Flows : RegistrationExpires(f)

(* The caller, the listener and the clock go on, and the user answers the  *)
(* boxes; whether a browser ever comes back, or the user cancels, is open. *)
LoginFairness ==
    /\ WF_loginVars(LoginStep)
    /\ WF_loginVars(ListenerStep(Listener))
    /\ WF_loginVars(Tick)

----------------------------------------------------------------------------
(* Properties                                                              *)

(* The listener's handlers use variables of perform_pkce_sso_login: the    *)
(* thread runs only while that call is on the stack, however it ends.      *)
ListenerIsJoined == listener # "off" => pc \in Listening

(* When the token is asked for there is a code (it is dereferenced), and   *)
(* it is the code of this login: not of a browser tab an earlier one left  *)
(* open, and not missing because the wait had timed out.                   *)
CodeIsThere == pc = "exchange" => copy = login

(* A binary_semaphore may not be released when its count is 1: callbacks   *)
(* that come twice and a server that stops release it once between them.   *)
ReleasedOnce == ready <= 1

(* A user who has cancelled is not offered another way to sign in, and no  *)
(* token is written for him, although SsoLoginCancelled is an              *)
(* SsoLoginFailed.                                                         *)
CancelIsFinal ==
    [][result = "cancelled" /\ pc = "join" =>
          /\ token' = token
          /\ pc' \in {"join", "out"} /\ result' = "cancelled"]_loginVars

(* What a login does before or between its waits takes no time off them.   *)
Untimed == Labels \ (Timed \cup {"read", "join", "exchange", "write"})

(* How often the first callback has been signalled, or is about to be.     *)
Signals ==
    ready + (IF listener = "replying" THEN 1 ELSE 0) + (IF completed THEN 1 ELSE 0)

(* Only tabs and tokens of logins there have been; how the last one ended  *)
(* is known once it is over, and in an exception on its way to the caller. *)
Outcomes ==
    /\ pc # "out" => login > 0
    /\ tabs \subseteq 1..login /\ token <= login
    /\ pc \notin {"out", "join"} => result = "none"
    /\ pc = "join" => result \in {"none", "cancelled"}

(* A code is of this login, and is neither there before the server nor     *)
(* after it, but in the caller's hands.                                    *)
OwnCode ==
    /\ callback # NoCallback \/ ready > 0 => pc \in Listening
    /\ callback \in {NoCallback, CallbackError, login}
    /\ copy \in {NoCallback, CallbackError, login}
    /\ copy # NoCallback => pc \in {"join", "exchange", "write"}
    /\ CodeIsThere

(* One signal at most, after a callback, and a caller that has received it *)
(* has read the callback.                                                  *)
SignalFollowsCallback ==
    /\ pc \in Listening => Signals <= (IF callback = NoCallback THEN 0 ELSE 1)
    /\ completed => pc \in {"read", "join", "exchange", "write"}
    /\ pc = "join" /\ completed => copy # NoCallback

Clocks == pc \in Untimed => elapsed = 0 /\ since = 0

(* The inductive invariant of the login.                                   *)
LoginInv ==
    LoginTypeOK /\ ListenerIsJoined /\ Outcomes /\ OwnCode /\ SignalFollowsCallback /\ Clocks

(* SignIn.tla: a login as its caller sees it.                              *)
SeenByCaller == INSTANCE SignIn WITH
    under <- pc # "out",
    listening <- listener # "off",
    outcome <- IF pc = "out" THEN result ELSE "none"

(* Through fallbacks, cancellations, timeouts and failing writes a login   *)
(* returns exactly when its own token is in the cache, and leaves no       *)
(* thread behind: what get_client_entry relies on (ClientAccess's Login    *)
(* and LoginFails).                                                        *)
EndsAsPromised == SeenByCaller!SignInSpec

(* Every login ends, whatever the browser does.                            *)
LoginEnds == pc # "out" ~> pc = "out"
=============================================================================
