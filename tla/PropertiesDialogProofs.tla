------------------------ MODULE PropertiesDialogProofs ------------------------
(***************************************************************************)
(* Proofs about PropertiesDialog and the login in it: for any number of    *)
(* logins, any lifetimes and intervals, and any lifetimes of a link.       *)
(***************************************************************************)
EXTENDS PropertiesDialog, TLAPS

----------------------------------------------------------------------------
(* The login: each part of LoginInv is kept by every step of it.           *)

USE DEF Goto, Throw, Fail, End, Reset, AtMost, serverVars, clockVars

(* What the caller's variables may hold.                                   *)
LEMMA CallerTypeOKStep ==
    ASSUME LoginInv, LoginNext \/ BeginLogin
    PROVE  CallerTypeOK'
<1> USE LoginAssumption DEF LoginInv, LoginTypeOK, CallerTypeOK, Outcomes,
       Labels, Pumping, Flows, Results
<1>1. CASE BeginLogin \/ Confirm \/ Register \/ FallBack
  <2>1. CASE BeginLogin
    BY <2>1 DEF BeginLogin
  <2>2. CASE Confirm
    BY <2>2 DEF Confirm
  <2>3. CASE Register
    BY <2>3 DEF Register
  <2>4. CASE FallBack
    BY <2>4 DEF FallBack
  <2> QED
    BY <1>1, <2>1, <2>2, <2>3, <2>4
<1>2. CASE OpenBrowser \/ AnswerUrlBox \/ WaitForBrowser \/ ReadCallback
  <2>1. CASE OpenBrowser
    BY <2>1 DEF OpenBrowser
  <2>2. CASE AnswerUrlBox
    BY <2>2 DEF AnswerUrlBox
  <2>3. CASE WaitForBrowser
    BY <2>3 DEF WaitForBrowser
  <2>4. CASE ReadCallback
    BY <2>4 DEF ReadCallback
  <2> QED
    BY <1>2, <2>1, <2>2, <2>3, <2>4
<1>3. CASE JoinListener \/ ExchangeCode \/ WriteToken
  <2>1. CASE JoinListener \/ ExchangeCode
    BY <2>1 DEF JoinListener, ExchangeCode
  <2>2. CASE WriteToken
    <3>1. token' \in 0..MaxLogins
      BY <2>2 DEF WriteToken
    <3>2. /\ pc' \in {"out", "fallback"} /\ result' \in Results
          /\ completed' = FALSE
          /\ UNCHANGED <<flow, login, tabs, registered>>
      BY <2>2 DEF WriteToken
    <3> QED
      BY <3>1, <3>2
  <2> QED
    BY <1>3, <2>1, <2>2
<1>4. CASE Authorize \/ AnswerDeviceBox \/ WaitForInterval \/ Poll
  BY <1>4 DEF Authorize, AnswerDeviceBox, WaitForInterval, Poll
<1>5. CASE \/ CancelWait \/ Tick
            \/ \E f \in Flows : RegistrationExpires(f)
  BY <1>5 DEF CancelWait, Tick, RegistrationExpires
<1>6. CASE \/ ListenerStep(Listener) \/ ListenerStep(ListenerFails)
            \/ ListenerStep(Browser)
  BY <1>6 DEF ListenerStep, Listener, SignalReady, ListenerStops,
         ListenerFails, Browser, HandleCallback
<1> QED
  BY <1>1, <1>2, <1>3, <1>4, <1>5, <1>6 DEF LoginNext, LoginStep

(* What the listener's variables may hold.                                 *)
LEMMA ServerTypeOKStep ==
    ASSUME LoginInv, LoginNext \/ BeginLogin
    PROVE  ServerTypeOK'
<1> USE LoginAssumption DEF LoginInv, LoginTypeOK, ServerTypeOK, CallerTypeOK,
       SignalFollowsCallback, Signals, OwnCode, Listening, ListenerIsJoined,
       Callbacks
<1>1. CASE BeginLogin \/ Confirm \/ Register \/ FallBack
  BY <1>1 DEF BeginLogin, Confirm, Register, FallBack
<1>2. CASE OpenBrowser \/ AnswerUrlBox \/ WaitForBrowser \/ ReadCallback
  BY <1>2 DEF OpenBrowser, AnswerUrlBox, WaitForBrowser, ReadCallback
<1>3. CASE JoinListener \/ ExchangeCode \/ WriteToken
  BY <1>3 DEF JoinListener, ExchangeCode, WriteToken
<1>4. CASE Authorize \/ AnswerDeviceBox \/ WaitForInterval \/ Poll
  BY <1>4 DEF Authorize, AnswerDeviceBox, WaitForInterval, Poll
<1>5. CASE \/ CancelWait \/ Tick
            \/ \E f \in Flows : RegistrationExpires(f)
  BY <1>5 DEF CancelWait, Tick, RegistrationExpires
<1>6. CASE \/ ListenerStep(Listener) \/ ListenerStep(ListenerFails)
            \/ ListenerStep(Browser)
  BY <1>6 DEF ListenerStep, Listener, SignalReady, ListenerStops,
         ListenerFails, Browser, HandleCallback
<1> QED
  BY <1>1, <1>2, <1>3, <1>4, <1>5, <1>6 DEF LoginNext, LoginStep

(* The clocks stay within their limits.                                    *)
LEMMA ClockTypeOKStep ==
    ASSUME LoginInv, LoginNext \/ BeginLogin
    PROVE  ClockTypeOK'
<1> USE LoginAssumption DEF LoginInv, LoginTypeOK, ClockTypeOK, CallerTypeOK,
       Clocks, SlowedDown, Lifetime, Late, Untimed, Timed,
       Labels, Pumping, Flows
<1>1. CASE BeginLogin \/ Confirm \/ Register \/ FallBack
  BY <1>1 DEF BeginLogin, Confirm, Register, FallBack
<1>2. CASE OpenBrowser \/ AnswerUrlBox \/ WaitForBrowser \/ ReadCallback
  BY <1>2 DEF OpenBrowser, AnswerUrlBox, WaitForBrowser, ReadCallback
<1>3. CASE JoinListener \/ ExchangeCode \/ WriteToken
  BY <1>3 DEF JoinListener, ExchangeCode, WriteToken
<1>4. CASE Authorize \/ AnswerDeviceBox \/ WaitForInterval \/ Poll
  <2>1. CASE Authorize
    <3>1. flow' = flow /\ elapsed' = 0 /\ since' = 0
      <4>1. flow' = flow /\ elapsed = 0 /\ since = 0
        BY <2>1 DEF Authorize
      <4>2. since' = since \/ since' = 0
        BY <2>1 DEF Authorize
      <4>3. elapsed' = elapsed \/ elapsed' = 0
        BY <2>1 DEF Authorize
      <4> QED
        BY <4>1, <4>2, <4>3
    <3>2. interval' \in Nat
      <4>1. interval' \in Intervals \/ interval' = 0
        BY <2>1 DEF Authorize
      <4>2. \A i \in Intervals : i \in Nat
        BY Zenon
      <4> HIDE LoginAssumption DEF LoginInv, LoginTypeOK, ClockTypeOK, CallerTypeOK, Labels
      <4> QED
        BY <4>1, <4>2
    <3> QED
      BY <3>1, <3>2
  <2>2. CASE AnswerDeviceBox \/ WaitForInterval
    BY <2>2 DEF AnswerDeviceBox, WaitForInterval
  <2>3. CASE Poll
    <3>1. SlowedDown \in Nat
      BY DEF AtMost
    <3>2. flow' = flow /\ (elapsed' = elapsed \/ elapsed' = 0)
      BY <2>3 DEF Poll, Fail, End, Reset, Goto, clockVars
    <3>3. interval' \in Nat /\ since' \in 0..interval'
      BY <2>3, <3>1 DEF Poll, Fail, End, Reset, Goto, clockVars
    <3> QED
      BY <2>3, <3>2, <3>3 DEF Poll
  <2> QED
    BY <1>4, <2>1, <2>2, <2>3
<1>5. CASE \/ CancelWait \/ Tick
            \/ \E f \in Flows : RegistrationExpires(f)
  BY <1>5 DEF CancelWait, Tick, RegistrationExpires
<1>6. CASE \/ ListenerStep(Listener) \/ ListenerStep(ListenerFails)
            \/ ListenerStep(Browser)
  BY <1>6 DEF ListenerStep, Listener, SignalReady, ListenerStops,
         ListenerFails, Browser, HandleCallback
<1> QED
  BY <1>1, <1>2, <1>3, <1>4, <1>5, <1>6 DEF LoginNext, LoginStep

(* The listener's thread stays within its call.                            *)
LEMMA ListenerIsJoinedStep ==
    ASSUME LoginInv, LoginNext \/ BeginLogin
    PROVE  ListenerIsJoined'
<1> USE LoginAssumption DEF LoginInv, LoginTypeOK, ListenerIsJoined, Listening
<1>1. CASE BeginLogin \/ Confirm \/ Register \/ FallBack
  BY <1>1 DEF BeginLogin, Confirm, Register, FallBack
<1>2. CASE OpenBrowser \/ AnswerUrlBox \/ WaitForBrowser \/ ReadCallback
  BY <1>2 DEF OpenBrowser, AnswerUrlBox, WaitForBrowser, ReadCallback
<1>3. CASE JoinListener \/ ExchangeCode \/ WriteToken
  BY <1>3 DEF JoinListener, ExchangeCode, WriteToken
<1>4. CASE Authorize \/ AnswerDeviceBox \/ WaitForInterval \/ Poll
  BY <1>4 DEF Authorize, AnswerDeviceBox, WaitForInterval, Poll
<1>5. CASE \/ CancelWait \/ Tick
            \/ \E f \in Flows : RegistrationExpires(f)
  BY <1>5 DEF CancelWait, Tick, RegistrationExpires
<1>6. CASE \/ ListenerStep(Listener) \/ ListenerStep(ListenerFails)
            \/ ListenerStep(Browser)
  BY <1>6 DEF ListenerStep, Listener, SignalReady, ListenerStops,
         ListenerFails, Browser, HandleCallback
<1> QED
  BY <1>1, <1>2, <1>3, <1>4, <1>5, <1>6 DEF LoginNext, LoginStep

(* What is known of how logins end.                                        *)
LEMMA OutcomesStep ==
    ASSUME LoginInv, LoginNext \/ BeginLogin
    PROVE  Outcomes'
<1> USE LoginAssumption DEF LoginInv, LoginTypeOK, Outcomes, CallerTypeOK,
       Labels, Pumping
<1>1. CASE BeginLogin \/ Confirm \/ Register \/ FallBack
  <2>1. CASE BeginLogin
    BY <2>1 DEF BeginLogin
  <2>2. CASE Confirm
    BY <2>2 DEF Confirm
  <2>3. CASE Register
    BY <2>3 DEF Register
  <2>4. CASE FallBack
    BY <2>4 DEF FallBack
  <2> QED
    BY <1>1, <2>1, <2>2, <2>3, <2>4
<1>2. CASE OpenBrowser \/ AnswerUrlBox \/ WaitForBrowser \/ ReadCallback
  <2>1. CASE OpenBrowser
    BY <2>1 DEF OpenBrowser
  <2>2. CASE AnswerUrlBox
    BY <2>2 DEF AnswerUrlBox
  <2>3. CASE WaitForBrowser
    BY <2>3 DEF WaitForBrowser
  <2>4. CASE ReadCallback
    BY <2>4 DEF ReadCallback
  <2> QED
    BY <1>2, <2>1, <2>2, <2>3, <2>4
<1>3. CASE JoinListener \/ ExchangeCode \/ WriteToken
  <2>1. CASE JoinListener
    BY <2>1 DEF JoinListener
  <2>2. CASE ExchangeCode
    BY <2>2 DEF ExchangeCode
  <2>3. CASE WriteToken
    BY <2>3 DEF WriteToken
  <2> QED
    BY <1>3, <2>1, <2>2, <2>3
<1>4. CASE Authorize \/ AnswerDeviceBox \/ WaitForInterval \/ Poll
  BY <1>4 DEF Authorize, AnswerDeviceBox, WaitForInterval, Poll
<1>5. CASE \/ CancelWait \/ Tick
            \/ \E f \in Flows : RegistrationExpires(f)
  BY <1>5 DEF CancelWait, Tick, RegistrationExpires
<1>6. CASE \/ ListenerStep(Listener) \/ ListenerStep(ListenerFails)
            \/ ListenerStep(Browser)
  BY <1>6 DEF ListenerStep, Listener, SignalReady, ListenerStops,
         ListenerFails, Browser, HandleCallback
<1> QED
  BY <1>1, <1>2, <1>3, <1>4, <1>5, <1>6 DEF LoginNext, LoginStep

(* A code belongs to its login.                                            *)
LEMMA OwnCodeStep ==
    ASSUME LoginInv, LoginNext \/ BeginLogin
    PROVE  OwnCode'
<1> USE LoginAssumption DEF LoginInv, LoginTypeOK, OwnCode, CodeIsThere,
       SignalFollowsCallback, ServerTypeOK, ListenerIsJoined, Listening
<1>1. CASE BeginLogin \/ Confirm \/ Register \/ FallBack
  BY <1>1 DEF BeginLogin, Confirm, Register, FallBack
<1>2. CASE OpenBrowser \/ AnswerUrlBox \/ WaitForBrowser \/ ReadCallback
  BY <1>2 DEF OpenBrowser, AnswerUrlBox, WaitForBrowser, ReadCallback
<1>3. CASE JoinListener \/ ExchangeCode \/ WriteToken
  BY <1>3 DEF JoinListener, ExchangeCode, WriteToken
<1>4. CASE Authorize \/ AnswerDeviceBox \/ WaitForInterval \/ Poll
  BY <1>4 DEF Authorize, AnswerDeviceBox, WaitForInterval, Poll
<1>5. CASE \/ CancelWait \/ Tick
            \/ \E f \in Flows : RegistrationExpires(f)
  BY <1>5 DEF CancelWait, Tick, RegistrationExpires
<1>6. CASE \/ ListenerStep(Listener) \/ ListenerStep(ListenerFails)
            \/ ListenerStep(Browser)
  BY <1>6 DEF ListenerStep, Listener, SignalReady, ListenerStops,
         ListenerFails, Browser, HandleCallback
<1> QED
  BY <1>1, <1>2, <1>3, <1>4, <1>5, <1>6 DEF LoginNext, LoginStep

(* The semaphore is released for a callback, once.                         *)
LEMMA SignalFollowsCallbackStep ==
    ASSUME LoginInv, LoginNext \/ BeginLogin
    PROVE  SignalFollowsCallback'
<1> USE LoginAssumption DEF LoginInv, LoginTypeOK, SignalFollowsCallback,
       Signals, OwnCode, ListenerIsJoined, ServerTypeOK, CallerTypeOK,
       Callbacks, Listening
<1>1. CASE BeginLogin \/ Confirm \/ Register \/ FallBack
  BY <1>1 DEF BeginLogin, Confirm, Register, FallBack
<1>2. CASE OpenBrowser \/ AnswerUrlBox \/ WaitForBrowser \/ ReadCallback
  BY <1>2 DEF OpenBrowser, AnswerUrlBox, WaitForBrowser, ReadCallback
<1>3. CASE JoinListener \/ ExchangeCode \/ WriteToken
  BY <1>3 DEF JoinListener, ExchangeCode, WriteToken
<1>4. CASE Authorize \/ AnswerDeviceBox \/ WaitForInterval \/ Poll
  BY <1>4 DEF Authorize, AnswerDeviceBox, WaitForInterval, Poll
<1>5. CASE \/ CancelWait \/ Tick
            \/ \E f \in Flows : RegistrationExpires(f)
  BY <1>5 DEF CancelWait, Tick, RegistrationExpires
<1>6. CASE \/ ListenerStep(Listener) \/ ListenerStep(ListenerFails)
            \/ ListenerStep(Browser)
  BY <1>6 DEF ListenerStep, Listener, SignalReady, ListenerStops,
         ListenerFails, Browser, HandleCallback
<1> QED
  BY <1>1, <1>2, <1>3, <1>4, <1>5, <1>6 DEF LoginNext, LoginStep

(* The clocks run in the waits.                                            *)
LEMMA ClocksStep ==
    ASSUME LoginInv, LoginNext \/ BeginLogin
    PROVE  Clocks'
<1> USE LoginAssumption DEF LoginInv, LoginTypeOK, Clocks, ClockTypeOK,
       CallerTypeOK, SlowedDown, Lifetime, Late, Untimed,
       Timed, Labels, Pumping
<1>1. CASE BeginLogin \/ Confirm \/ Register \/ FallBack
  BY <1>1 DEF BeginLogin, Confirm, Register, FallBack
<1>2. CASE OpenBrowser \/ AnswerUrlBox \/ WaitForBrowser \/ ReadCallback
  BY <1>2 DEF OpenBrowser, AnswerUrlBox, WaitForBrowser, ReadCallback
<1>3. CASE JoinListener \/ ExchangeCode \/ WriteToken
  BY <1>3 DEF JoinListener, ExchangeCode, WriteToken
<1>4. CASE Authorize \/ AnswerDeviceBox \/ WaitForInterval \/ Poll
  BY <1>4 DEF Authorize, AnswerDeviceBox, WaitForInterval, Poll
<1>5. CASE \/ CancelWait \/ Tick
            \/ \E f \in Flows : RegistrationExpires(f)
  BY <1>5 DEF CancelWait, Tick, RegistrationExpires
<1>6. CASE \/ ListenerStep(Listener) \/ ListenerStep(ListenerFails)
            \/ ListenerStep(Browser)
  BY <1>6 DEF ListenerStep, Listener, SignalReady, ListenerStops,
         ListenerFails, Browser, HandleCallback
<1> QED
  BY <1>1, <1>2, <1>3, <1>4, <1>5, <1>6 DEF LoginNext, LoginStep

(* All of it.                                                              *)
LEMMA LoginInvStep ==
    ASSUME LoginInv, LoginNext \/ BeginLogin
    PROVE  LoginInv'
BY CallerTypeOKStep, ServerTypeOKStep, ClockTypeOKStep, ListenerIsJoinedStep, OutcomesStep,
   OwnCodeStep, SignalFollowsCallbackStep, ClocksStep DEF LoginInv, LoginTypeOK

(* Nobody has signed in yet.                                               *)
LEMMA LoginInvInit ==
    ASSUME LoginInit
    PROVE  LoginInv
<1> USE LoginAssumption DEF LoginInit
<1>1. CallerTypeOK
  <2>1. registered \in [Flows -> BOOLEAN]
    OBVIOUS
  <2>2. pc \in Labels /\ flow \in Flows /\ result \in Results
    BY DEF Labels, Flows, Results
  <2>3. login \in 0..MaxLogins /\ token \in 0..MaxLogins
    OBVIOUS
  <2>4. completed \in BOOLEAN /\ tabs \subseteq 1..MaxLogins
    OBVIOUS
  <2> QED
    BY <2>1, <2>2, <2>3, <2>4 DEF CallerTypeOK
<1>2. ServerTypeOK /\ ClockTypeOK
  BY DEF ServerTypeOK, ClockTypeOK, Callbacks, Lifetime
<1>3. ListenerIsJoined /\ Outcomes
  BY DEF ListenerIsJoined, Outcomes
<1>4. OwnCode /\ SignalFollowsCallback
  BY DEF OwnCode, CodeIsThere, SignalFollowsCallback, Listening
<1>5. Clocks
  BY DEF Clocks
<1> QED
  BY <1>1, <1>2, <1>3, <1>4, <1>5 DEF LoginInv, LoginTypeOK

(* What a message of the dialog leaves alone.                              *)
LEMMA LoginInvStands ==
    ASSUME LoginInv, UNCHANGED loginVars
    PROVE  LoginInv'
BY DEF loginVars, serverVars, clockVars, LoginInv, LoginTypeOK, CallerTypeOK, ServerTypeOK,
   ClockTypeOK, ListenerIsJoined, Outcomes, OwnCode, SignalFollowsCallback, Clocks, Lifetime,
   CodeIsThere, Signals

----------------------------------------------------------------------------
(* A login as its caller sees it                                           *)

(* A login that ends has no listener any more.                             *)
LEMMA EndsAlone ==
    ASSUME LoginInv, pc \notin Listening
    PROVE  listener = "off"
  BY DEF LoginInv, ListenerIsJoined

(* Every step of a login is one of SignIn, or none.                        *)
LEMMA LoginStepPromised ==
    ASSUME LoginInv, LoginNext \/ BeginLogin
    PROVE  SeenByCaller!SignInNext \/ UNCHANGED SeenByCaller!signInVars
<1> USE DEF SeenByCaller!SignInNext, SeenByCaller!signInVars, SeenByCaller!Begins,
        SeenByCaller!Listens, SeenByCaller!Returns, SeenByCaller!Breaks, SeenByCaller!Throws,
        SeenByCaller!Ends
<1>1. pc \in Labels /\ listener \in {"off", "on", "replying"}
  BY DEF LoginInv, LoginTypeOK, CallerTypeOK, ServerTypeOK
<1>2. CASE BeginLogin
  BY <1>2, EndsAlone DEF BeginLogin, Listening
<1>3. CASE Confirm \/ FallBack
  BY <1>3, EndsAlone DEF Confirm, FallBack, Listening
<1>4. CASE Register
  BY <1>4, EndsAlone DEF Register, Listening
<1>5. CASE OpenBrowser \/ AnswerUrlBox \/ WaitForBrowser \/ ReadCallback
  BY <1>5 DEF OpenBrowser, AnswerUrlBox, WaitForBrowser, ReadCallback
<1>6. CASE JoinListener
  BY <1>6 DEF JoinListener
<1>7. CASE ExchangeCode
  BY <1>7, EndsAlone DEF ExchangeCode, Listening
<1>8. CASE WriteToken
  BY <1>8, EndsAlone DEF WriteToken, Listening
<1>9. CASE Authorize \/ AnswerDeviceBox \/ WaitForInterval \/ Poll
  BY <1>9, EndsAlone DEF Authorize, AnswerDeviceBox, WaitForInterval, Poll, Listening
<1>10. CASE CancelWait
  BY <1>10, EndsAlone DEF CancelWait, Listening
<1>11. CASE Tick \/ \E f \in Flows : RegistrationExpires(f)
  BY <1>11 DEF Tick, RegistrationExpires
<1>12. CASE \/ ListenerStep(Listener) \/ ListenerStep(ListenerFails)
             \/ ListenerStep(Browser)
  <2>1. listener # "off" => pc # "out"
    BY DEF LoginInv, ListenerIsJoined, Listening
  <2> QED
    BY <1>12, <2>1 DEF ListenerStep, Listener, SignalReady, ListenerStops,
       ListenerFails, Browser, HandleCallback
<1> QED
  BY <1>2, <1>3, <1>4, <1>5, <1>6, <1>7, <1>8, <1>9, <1>10, <1>11, <1>12
  DEF LoginNext, LoginStep

----------------------------------------------------------------------------
(* The dialog                                                              *)

(* The dialog's part of the invariant.                                     *)
DialogInv == DialogTypeOK /\ Depth /\ Preparation /\ Controls

(* The parts of the invariant that a step of the dialog can disturb.       *)
LEMMA DialogStepInv ==
    ASSUME DialogInv, DialogNext, UNCHANGED loginVars
    PROVE  DialogInv'
<1> USE DialogAssumption DEF DialogInv, DialogTypeOK, Depth, Preparation, Controls, CanSign,
        LinkHasChosenExpiry, Kinds, Futures, Ready, Taken, loginVars
<1>1. CASE StartLoading
  BY <1>1 DEF StartLoading, StartWorker
<1>2. CASE PrepareAtOnce
  BY <1>2 DEF PrepareAtOnce, StartWorker
<1>3. CASE SignedIn
  BY <1>3 DEF SignedIn, StartWorker
<1>4. CASE LeaveLoop
  BY <1>4 DEF LeaveLoop
<1>5. CASE Destroy
  BY <1>5 DEF Destroy, Gone
<1>6. CASE Timer
  BY <1>6 DEF Timer, Look, Dispatching
<1>7. CASE \E k \in Kinds : Show(k)
  BY <1>7 DEF Show
<1>8. CASE Close
  BY <1>8 DEF Close, Look, Dispatching
<1>9. CASE Generate
  BY <1>9 DEF Generate, Dispatching
<1>10. CASE \E e \in Expirations : ChangeExpiry(e)
  <2>1. PICK e \in Expirations : ChangeExpiry(e)
    BY <1>10
  <2>2. signing = "none"
    BY <2>1 DEF ChangeExpiry
  <2> QED
    BY <2>1, <2>2 DEF ChangeExpiry, Dispatching
<1>11. CASE Loaded
  BY <1>11 DEF Loaded
<1>12. CASE Signed
  BY <1>12 DEF Signed
<1> QED
  BY <1>1, <1>2, <1>3, <1>4, <1>5, <1>6, <1>7, <1>8, <1>9, <1>10, <1>11, <1>12
     DEF DialogNext, Own, User

(* A step of the login inside prepare_: the dialog stands.                 *)
LEMMA LoginStepDialogInv ==
    ASSUME DialogInv, LoginNext, UNCHANGED dialogVars
    PROVE  DialogInv'
<1>1. pc = "out" => pc' = "out"
  BY DEF LoginNext, LoginStep, Confirm, Register, FallBack, OpenBrowser, AnswerUrlBox,
     WaitForBrowser, ReadCallback, JoinListener, ExchangeCode, WriteToken, Authorize,
     AnswerDeviceBox, WaitForInterval, Poll, CancelWait, ListenerStep, Tick, Timed,
     RegistrationExpires
<1> QED
  BY <1>1 DEF DialogInv, DialogTypeOK, Depth, Preparation, Controls, CanSign,
     LinkHasChosenExpiry, dialogVars

(* prepare_ begins a login.                                                *)
LEMMA PrepareSignsInInv ==
    ASSUME DialogInv, PrepareSignsIn
    PROVE  DialogInv'
BY DEF PrepareSignsIn, DialogInv, DialogTypeOK, Depth, Preparation, Controls, CanSign,
   LinkHasChosenExpiry

(* Messages, the login and the beginning of one keep the invariant.        *)
LEMMA Inductive ==
    ASSUME IInv, [Next]_vars
    PROVE  IInv'
<1>1. LoginInv /\ DialogInv
  BY DEF IInv, TypeOK, DialogInv
<1>2. CASE DialogNext /\ UNCHANGED loginVars
  BY <1>1, <1>2, LoginInvStands, DialogStepInv DEF IInv, TypeOK, DialogInv, LoginInv
<1>3. CASE PrepareSignsIn
  <2>1. BeginLogin
    BY <1>3 DEF PrepareSignsIn
  <2> QED
    BY <1>1, <1>3, <2>1, LoginInvStep, PrepareSignsInInv DEF IInv, TypeOK, DialogInv, LoginInv
<1>4. CASE LoginNext /\ UNCHANGED dialogVars
  BY <1>1, <1>4, LoginInvStep, LoginStepDialogInv DEF IInv, TypeOK, DialogInv, LoginInv
<1>5. CASE UNCHANGED vars
  <2>1. DialogInv'
    BY <1>1, <1>5 DEF vars, dialogVars, loginVars, DialogInv, DialogTypeOK, Depth, Preparation,
       Controls, CanSign, LinkHasChosenExpiry
  <2> QED
    BY <1>1, <1>5, <2>1, LoginInvStands DEF vars, IInv, TypeOK, DialogInv, LoginInv
<1> QED
  BY <1>2, <1>3, <1>4, <1>5 DEF Next

----------------------------------------------------------------------------
(* Theorems                                                                *)

(* What the flags of the dialog and of the login say of one another holds  *)
(* all the time, whatever messages come while prepare_ signs in.           *)
THEOREM Invariant == Spec => []IInv
<1>1. Init => IInv
  <2> SUFFICES ASSUME Init
               PROVE  IInv
    OBVIOUS
  <2>1. LoginInv
    BY LoginInvInit DEF Init
  <2>2. DialogTypeOK
    BY DialogAssumption DEF Init, DialogTypeOK, Kinds, Futures
  <2>3. Depth /\ Preparation /\ Controls
    BY DEF Init, LoginInit, Depth, Preparation, Controls, CanSign, LinkHasChosenExpiry
  <2> QED
    BY <2>1, <2>2, <2>3 DEF IInv, TypeOK, LoginInv
<1> QED
  BY <1>1, Inductive, PTL DEF Spec

(* However a login ends, by a return or an exception, the listener's       *)
(* thread ends before the variables its handlers use.                      *)
THEOREM ListenersAreJoined == Spec => []ListenerIsJoined
<1>1. IInv => ListenerIsJoined
  BY DEF IInv, LoginInv
<1> QED
  BY <1>1, Invariant, PTL

(* The code that is dereferenced for CreateToken is there, and is the one  *)
(* of this login, whichever browser pages come to the server and when.     *)
THEOREM CodesAreThere == Spec => []CodeIsThere
<1>1. IInv => CodeIsThere
  BY DEF IInv, LoginInv, OwnCode
<1> QED
  BY <1>1, Invariant, PTL

(* The callbacks and the end of the server do not release the semaphore    *)
(* more often than once between them.                                      *)
THEOREM ReleasesAreSingle == Spec => []ReleasedOnce
<1>1. IInv => ReleasedOnce
  <2> SUFFICES ASSUME IInv
               PROVE  ready <= 1
    BY DEF ReleasedOnce
  <2>1. ready \in 0..2 /\ (ready > 0 => pc \in Listening)
    BY DEF IInv, LoginInv, LoginTypeOK, ServerTypeOK, OwnCode
  <2>2. pc \in Listening => Signals <= 1
    BY <2>1 DEF IInv, LoginInv, SignalFollowsCallback, Signals
  <2> QED
    BY <2>1, <2>2 DEF Signals
<1> QED
  BY <1>1, Invariant, PTL

(* A user who cancels in the PKCE flow is not asked about the other one.   *)
THEOREM CancellationIsFinal == Spec => CancelIsFinal
<1>1. [Next]_vars =>
        [result = "cancelled" /\ pc = "join" =>
           /\ token' = token
           /\ pc' \in {"join", "out"} /\ result' = "cancelled"]_loginVars
  BY DEF Next, vars, loginVars, serverVars, clockVars, PrepareSignsIn, BeginLogin, LoginNext,
     LoginStep, Confirm, Register, FallBack, OpenBrowser, AnswerUrlBox, WaitForBrowser,
     ReadCallback, JoinListener, ExchangeCode, WriteToken, Authorize, AnswerDeviceBox,
     WaitForInterval, Poll, CancelWait, ListenerStep, Tick, Timed, RegistrationExpires
<1> QED
  BY <1>1, PTL DEF Spec, CancelIsFinal

(* Whatever the browser, the clock, the user and AWS do, a login ends by   *)
(* its return exactly when its own token has been written, and only after  *)
(* its listener: SsoLogin implements SignIn.                               *)
THEOREM LoginsEndAsPromised == Spec => EndsAsPromised
<1>1. Init => SeenByCaller!SignInInit
  BY DEF Init, LoginInit, SeenByCaller!SignInInit
<1>2. IInv /\ [Next]_vars => [SeenByCaller!SignInNext]_(SeenByCaller!signInVars)
  <2> SUFFICES ASSUME IInv, [Next]_vars
               PROVE  SeenByCaller!SignInNext \/ UNCHANGED SeenByCaller!signInVars
    OBVIOUS
  <2>1. CASE LoginNext \/ BeginLogin
    BY <2>1, LoginStepPromised DEF IInv
  <2>2. CASE UNCHANGED loginVars
    BY <2>2 DEF loginVars, SeenByCaller!signInVars
  <2> QED
    BY <2>1, <2>2 DEF Next, vars, PrepareSignsIn
<1> QED
  BY <1>1, <1>2, Invariant, PTL DEF Spec, EndsAsPromised, SeenByCaller!SignInSpec

(* The dialog, the client and the lease outlive the workers that use them, *)
(* also when the dialog was closed while its client was being prepared.    *)
THEOREM WorkersAreOutlived == Spec => []WorkersKeepWhatTheyUse
<1>1. IInv => WorkersKeepWhatTheyUse
  BY DEF IInv, Depth, Preparation, WorkersKeepWhatTheyUse
<1> QED
  BY <1>1, Invariant, PTL

(* A link shown is one for the lifetime chosen.                            *)
THEOREM LinksHaveChosenExpiry == Spec => []LinkHasChosenExpiry
<1>1. IInv => LinkHasChosenExpiry
  BY DEF IInv, Controls
<1> QED
  BY <1>1, Invariant, PTL

(* EndDialog is called when both futures have been taken.                  *)
THEOREM EndsWithoutWorkers == Spec => EndsIdle
<1>1. [Next]_vars =>
        [window = "open" /\ window' = "ended" => loading' = "none" /\ signing' = "none"]_vars
  BY DEF Next, vars, dialogVars, PrepareSignsIn, DialogNext, Own, User, StartLoading, StartWorker,
     PrepareAtOnce, SignedIn, LeaveLoop, Destroy, Gone, Timer, Look, Show, Close, Generate,
     ChangeExpiry, Loaded, Signed
<1> QED
  BY <1>1, PTL DEF Spec, EndsIdle
=============================================================================
