------------------------- MODULE ClientAccessProofs -------------------------
(***************************************************************************)
(* Proofs about ClientAccess: for any threads, profiles and regions, and   *)
(* any number of logins and lives of the SDK.                              *)
(***************************************************************************)
EXTENDS ClientAccess, TLAPS

USE DEF Goto, End

(* There is something to ask a client for.                                *)
LEMMA SomeKey == AnyKey \in Keys
<1>1. PICK p \in Profiles, r \in Regions : TRUE
  BY ClientAssumption
<1>2. <<p, r>> \in Keys
  BY DEF Keys
<1> QED
  BY <1>2 DEF AnyKey

----------------------------------------------------------------------------
(* What the steps of a call keep, part by part                             *)

(* The variables keep their types.                                         *)
LEMMA TypeOKAdvance ==
    ASSUME IInv, NEW t \in Threads, Advance(t)
    PROVE  TypeOK'
<1> USE ClientAssumption DEF IInv, TypeOK, Counted, LoginsInTurn,
       ClientsInHand, Generations, NotTooNew, Locked, Served, Labels, Fresh,
       Entries, lifeVars
<1>1. CASE
       FindClient(t) \/ ReadGeneration(t) \/ MakeProvider(t) \/ InsertClient(t)
  BY <1>1 DEF FindClient, ReadGeneration, MakeProvider, InsertClient
<1>2. CASE CheckCredentials(t) \/ LockLogin(t)
  BY <1>2 DEF CheckCredentials, LockLogin
<1>3. CASE Login(t) \/ LoginFails(t) \/ CountLogin(t)
  <2>1. CASE Login(t)
    BY <2>1 DEF Login
  <2>2. CASE LoginFails(t)
    BY <2>2, SomeKey DEF LoginFails
  <2>3. CASE CountLogin(t)
    BY <2>3, SomeKey DEF CountLogin
  <2> QED
    BY <1>3, <2>1, <2>2, <2>3
<1>4. CASE StoreClient(t) \/ UseClient(t)
  <2>1. CASE StoreClient(t)
    BY <2>1 DEF StoreClient
  <2>2. CASE UseClient(t)
    BY <2>2, SomeKey DEF UseClient
  <2> QED
    BY <1>4, <2>1, <2>2
<1> QED
  BY <1>1, <1>2, <1>3, <1>4 DEF Advance

(* A thread goes on with the SDK it has a lease of.                        *)
LEMMA ClientsAreAliveAdvance ==
    ASSUME IInv, NEW t \in Threads, Advance(t)
    PROVE  ClientsAreAlive'
<1> USE ClientAssumption DEF IInv, TypeOK, ClientsAreAlive, ClientsInHand,
       Served, Labels, Fresh, lifeVars
<1>1. CASE
       FindClient(t) \/ ReadGeneration(t) \/ MakeProvider(t) \/ InsertClient(t)
  BY <1>1 DEF FindClient, ReadGeneration, MakeProvider, InsertClient
<1>2. CASE CheckCredentials(t) \/ LockLogin(t)
  BY <1>2 DEF CheckCredentials, LockLogin
<1>3. CASE Login(t) \/ LoginFails(t) \/ CountLogin(t)
  BY <1>3 DEF Login, LoginFails, CountLogin
<1>4. CASE StoreClient(t) \/ UseClient(t)
  BY <1>4 DEF StoreClient, UseClient
<1> QED
  BY <1>1, <1>2, <1>3, <1>4 DEF Advance

(* The mutex is held from the login until the client is stored.            *)
LEMMA LoginsInTurnAdvance ==
    ASSUME IInv, NEW t \in Threads, Advance(t)
    PROVE  LoginsInTurn'
<1> USE ClientAssumption DEF IInv, TypeOK, LoginsInTurn, Locked, Profile
<1>1. CASE
       FindClient(t) \/ ReadGeneration(t) \/ MakeProvider(t) \/ InsertClient(t)
  BY <1>1 DEF FindClient, ReadGeneration, MakeProvider, InsertClient
<1>2. CASE CheckCredentials(t) \/ LockLogin(t)
  BY <1>2 DEF CheckCredentials, LockLogin
<1>3. CASE Login(t) \/ LoginFails(t) \/ CountLogin(t)
  BY <1>3 DEF Login, LoginFails, CountLogin
<1>4. CASE StoreClient(t) \/ UseClient(t)
  BY <1>4 DEF StoreClient, UseClient
<1> QED
  BY <1>1, <1>2, <1>3, <1>4 DEF Advance

(* A client is there when it is used.                                      *)
LEMMA ClientsInHandAdvance ==
    ASSUME IInv, NEW t \in Threads, Advance(t)
    PROVE  ClientsInHand'
<1> USE ClientAssumption DEF IInv, TypeOK, Counted, ClientsInHand, Served,
       Labels, Fresh, Entries
<1>1. CASE
       FindClient(t) \/ ReadGeneration(t) \/ MakeProvider(t) \/ InsertClient(t)
  BY <1>1 DEF FindClient, ReadGeneration, MakeProvider, InsertClient
<1>2. CASE CheckCredentials(t) \/ LockLogin(t)
  BY <1>2 DEF CheckCredentials, LockLogin
<1>3. CASE Login(t) \/ LoginFails(t) \/ CountLogin(t)
  BY <1>3 DEF Login, LoginFails, CountLogin
<1>4. CASE StoreClient(t) \/ UseClient(t)
  BY <1>4 DEF StoreClient, UseClient
<1> QED
  BY <1>1, <1>2, <1>3, <1>4 DEF Advance

(* The login under way is the only one not counted yet.                    *)
LEMMA CountedAdvance ==
    ASSUME IInv, NEW t \in Threads, Advance(t)
    PROVE  Counted'
<1> USE ClientAssumption DEF IInv, TypeOK, Counted, LoginsInTurn, Locked
<1>1. CASE
       FindClient(t) \/ ReadGeneration(t) \/ MakeProvider(t) \/ InsertClient(t)
  BY <1>1 DEF FindClient, ReadGeneration, MakeProvider, InsertClient
<1>2. CASE CheckCredentials(t) \/ LockLogin(t)
  BY <1>2 DEF CheckCredentials, LockLogin
<1>3. CASE Login(t) \/ LoginFails(t) \/ CountLogin(t)
  BY <1>3 DEF Login, LoginFails, CountLogin
<1>4. CASE StoreClient(t) \/ UseClient(t)
  BY <1>4 DEF StoreClient, UseClient
<1> QED
  BY <1>1, <1>2, <1>3, <1>4 DEF Advance

(* No client is newer than the tokens its provider could read.             *)
LEMMA GenerationsAdvance ==
    ASSUME IInv, NEW t \in Threads, Advance(t)
    PROVE  Generations'
<1> USE ClientAssumption DEF IInv, TypeOK, Counted, Generations, NotTooNew,
       LoginsInTurn, Locked, Fresh, Entries, Keys, ClientsInHand, Served,
       Labels
<1>1. CASE
       FindClient(t) \/ ReadGeneration(t) \/ MakeProvider(t) \/ InsertClient(t)
  BY <1>1 DEF FindClient, ReadGeneration, MakeProvider, InsertClient
<1>2. CASE CheckCredentials(t) \/ LockLogin(t)
  BY <1>2 DEF CheckCredentials, LockLogin
<1>3. CASE Login(t) \/ LoginFails(t) \/ CountLogin(t)
  BY <1>3 DEF Login, LoginFails, CountLogin
<1>4. CASE StoreClient(t) \/ UseClient(t)
  BY <1>4 DEF StoreClient, UseClient
<1> QED
  BY <1>1, <1>2, <1>3, <1>4 DEF Advance

(* The thread that gets the mutex asks only when nobody else did.          *)
LEMMA LoginsAreTriedAdvance ==
    ASSUME IInv, NEW t \in Threads, Advance(t)
    PROVE  LoginsAreTried'
<1> USE ClientAssumption DEF IInv, TypeOK, LoginsAreTried,
       ClientsInHand, Served, Labels, Counted, Generations, NotTooNew,
       LoginsInTurn, Locked, Fresh, Entries, Current
<1>1. CASE
       FindClient(t) \/ ReadGeneration(t) \/ MakeProvider(t) \/ InsertClient(t)
  BY <1>1 DEF FindClient, ReadGeneration, MakeProvider, InsertClient
<1>2. CASE CheckCredentials(t) \/ LockLogin(t)
  BY <1>2 DEF CheckCredentials, LockLogin
<1>3. CASE Login(t) \/ LoginFails(t) \/ CountLogin(t)
  BY <1>3 DEF Login, LoginFails, CountLogin
<1>4. CASE StoreClient(t) \/ UseClient(t)
  BY <1>4 DEF StoreClient, UseClient
<1> QED
  BY <1>1, <1>2, <1>3, <1>4 DEF Advance

(* All of it.                                                              *)
LEMMA AdvanceInv ==
    ASSUME IInv, NEW t \in Threads, Advance(t)
    PROVE  IInv'
BY TypeOKAdvance, ClientsAreAliveAdvance, LoginsInTurnAdvance, ClientsInHandAdvance,
   CountedAdvance, GenerationsAdvance, LoginsAreTriedAdvance DEF IInv

----------------------------------------------------------------------------
(* The other steps, and the start                                          *)

(* Nobody has a lease, so all threads are outside and without a client.    *)
LEMMA NobodyInside ==
    ASSUME IInv, leases = {} \/ ~initialized
    PROVE  \A t \in Threads : pc[t] = "idle" /\ entry[t] = NoEntry
BY DEF IInv, ClientsAreAlive, ClientsInHand, TypeOK

(* A new life of the SDK begins without clients of an old one.             *)
LEMMA InitializeInv ==
    ASSUME IInv, NEW t \in Threads, Initialize(t)
    PROVE  IInv'
<1> USE ClientAssumption DEF IInv, Initialize
<1>1. \A u \in Threads : pc[u] = "idle" /\ entry[u] = NoEntry
  BY NobodyInside
<1>2. TypeOK' /\ ClientsAreAlive'
  BY <1>1 DEF TypeOK, ClientsAreAlive
<1>3. LoginsInTurn' /\ ClientsInHand' /\ LoginsAreTried'
  BY DEF LoginsInTurn, ClientsInHand, Locked, Profile, LoginsAreTried
<1>4. Counted' /\ Generations'
  BY DEF Counted, Generations, NotTooNew
<1> QED
  BY <1>2, <1>3, <1>4

(* The clients go with the SDK.                                            *)
LEMMA ShutdownInv ==
    ASSUME IInv, NEW t \in Threads, Shutdown(t)
    PROVE  IInv'
<1> USE ClientAssumption DEF IInv, Shutdown
<1>1. \A u \in Threads : pc[u] = "idle" /\ entry[u] = NoEntry
  BY NobodyInside
<1>2. TypeOK' /\ ClientsAreAlive'
  BY <1>1 DEF TypeOK, ClientsAreAlive
<1>3. LoginsInTurn' /\ ClientsInHand' /\ LoginsAreTried'
  BY DEF LoginsInTurn, ClientsInHand, Locked, Profile, LoginsAreTried
<1>4. Counted' /\ Generations'
  BY DEF Counted, Generations, NotTooNew
<1> QED
  BY <1>2, <1>3, <1>4

(* A call begins with an SDK that is up.                                   *)
LEMMA LeaseInv ==
    ASSUME IInv, NEW t \in Threads, NEW k \in Keys, Lease(t, k)
    PROVE  IInv'
<1> USE ClientAssumption DEF IInv, Lease, lifeVars, TypeOK, Labels
<1>1. TypeOK' /\ ClientsAreAlive'
  BY DEF ClientsAreAlive
<1>2. LoginsInTurn' /\ ClientsInHand'
  BY DEF LoginsInTurn, ClientsInHand, Locked, Served, Profile
<1>3. Counted' /\ Generations'
  BY DEF Counted, Generations, NotTooNew
<1>4. LoginsAreTried'
  BY DEF LoginsAreTried
<1> QED
  BY <1>1, <1>2, <1>3, <1>4

(* Every step keeps the invariant.                                         *)
LEMMA Inductive ==
    ASSUME IInv, [Next]_vars
    PROVE  IInv'
<1>1. CASE Next
  BY <1>1, AdvanceInv, InitializeInv, ShutdownInv, LeaseInv DEF Next
<1>2. CASE UNCHANGED vars
  BY <1>2 DEF vars, IInv, TypeOK, ClientsAreAlive, LoginsInTurn, ClientsInHand, Counted,
     Generations, NotTooNew, LoginsAreTried, Profile
<1> QED
  BY <1>1, <1>2

----------------------------------------------------------------------------
(* Theorems                                                                *)

(* What the generations say about logins holds all the time: no client is  *)
(* taken for newer than the tokens its provider could read, and the login  *)
(* under way is the only one not counted.                                  *)
THEOREM Invariant == Spec => []IInv
<1>1. Init => IInv
  <2> SUFFICES ASSUME Init
               PROVE  IInv
    OBVIOUS
  <2>1. TypeOK
    <3>1. 0 \in 0..MaxLives /\ 0 \in 0..MaxLogins
      BY ClientAssumption
    <3>2. clients \in [Keys -> Entries \cup {NoEntry}]
      BY DEF Init
    <3>3. /\ pc \in [Threads -> Labels] /\ key \in [Threads -> Keys]
          /\ entry \in [Threads -> Entries \cup {NoEntry}]
          /\ generation \in [Threads -> 0..MaxLogins]
      BY <3>1, SomeKey DEF Init, Labels
    <3> QED
      BY <3>1, <3>2, <3>3 DEF Init, TypeOK
  <2>2. ClientsAreAlive /\ LoginsInTurn /\ ClientsInHand
    BY ClientAssumption DEF Init, ClientsAreAlive, LoginsInTurn, ClientsInHand, Locked, Served
  <2>3. Counted /\ Generations
    BY DEF Init, Counted, Generations, NotTooNew
  <2>4. LoginsAreTried
    BY DEF Init, LoginsAreTried
  <2> QED
    BY <2>1, <2>2, <2>3, <2>4 DEF IInv
<1> QED
  BY <1>1, Inductive, PTL DEF Spec

(* However many threads find a token expired, what one of them brings is   *)
(* tried before the user is asked again.                                   *)
THEOREM LoginsAreTriedFirst == Spec => []LoginsAreTried
<1>1. IInv => LoginsAreTried
  BY DEF IInv
<1> QED
  BY <1>1, Invariant, PTL

(* Threads use clients of the SDK that is up, and it stays up for them.    *)
THEOREM ClientsStayAlive == Spec => []ClientsAreAlive
<1>1. IInv => ClientsAreAlive
  BY DEF IInv
<1> QED
  BY <1>1, Invariant, PTL
=============================================================================
