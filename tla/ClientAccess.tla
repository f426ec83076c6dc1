---------------------------- MODULE ClientAccess ----------------------------
(***************************************************************************)
(* How a call comes by an S3 client: the SDK's lifetime (initialize,       *)
(* shutdown, AwsLease), the clients all threads share, and the browser     *)
(* login of an SSO profile whose token has expired (get_client_entry).     *)
(*                                                                         *)
(* A client's credentials provider reads the profile's token from the SSO  *)
(* cache on disk and fetches the credentials with it.  One made before the *)
(* last login may go on failing, which is why the code makes a new client  *)
(* after a login.  Whether a request for credentials brings any is open    *)
(* here: the token may have expired, the request may fail although it is   *)
(* valid, the provider may still have what it fetched before, and the user *)
(* may have signed in outside the plugin.                                  *)
(***************************************************************************)
EXTENDS Naturals

CONSTANTS
    Threads,
    Profiles,
    SsoProfiles,      \* the profiles that sign in through SSO
    Regions,
    MaxLogins,        \* bound: successful logins of all threads
    MaxLives,         \* bound: initializations of the SDK
    NoThread,         \* a mutex nobody holds
    NoEntry           \* no client

Keys == Profiles \X Regions
Entries == [generation : 0..MaxLogins, epoch : 0..MaxLogins, life : 0..MaxLives]

ASSUME ClientAssumption ==
    /\ Profiles # {} /\ Regions # {} /\ SsoProfiles \subseteq Profiles
    /\ MaxLogins \in Nat /\ MaxLives \in Nat \ {0}
    /\ NoThread \notin Threads /\ NoEntry \notin Entries

VARIABLES
    initialized,      \* aws_initialized
    initThread,       \* aws_init_thread_id
    life,             \* which initialization of the SDK this is
    leases,           \* threads that share aws_lifecycle_mtx
    clients,          \* clients[k]
    sso_generation,   \* logins this process has completed
    sso_login_mutex,  \* who holds it
    logins,           \* tokens written to the SSO cache
    pc,
    key,              \* key[t]: the client t asks for
    entry,            \* entry[t]: the client t has
    generation        \* generation[t]: what make_client has read

vars == <<initialized, initThread, life, leases, clients, sso_generation,
          sso_login_mutex, logins, pc, key, entry, generation>>
lifeVars == <<initialized, initThread, life>>

Labels == {"idle", "find", "make", "provider", "insert", "check", "wait",
           "login", "bump", "store", "use"}

TypeOK ==
    /\ initialized \in BOOLEAN /\ initThread \in Threads \cup {NoThread}
    /\ life \in 0..MaxLives
    /\ leases \subseteq Threads
    /\ clients \in [Keys -> Entries \cup {NoEntry}]
    /\ sso_generation \in 0..MaxLogins /\ logins \in 0..MaxLogins
    /\ sso_login_mutex \in Threads \cup {NoThread}
    /\ pc \in [Threads -> Labels]
    /\ key \in [Threads -> Keys]
    /\ entry \in [Threads -> Entries \cup {NoEntry}]
    /\ generation \in [Threads -> 0..MaxLogins]

AnyKey == CHOOSE k \in Keys : TRUE
Profile(t) == key[t][1]

Init ==
    /\ initialized = FALSE /\ initThread = NoThread /\ life = 0
    /\ leases = {}
    /\ clients = [k \in Keys |-> NoEntry]
    /\ sso_generation = 0 /\ logins = 0 /\ sso_login_mutex = NoThread
    /\ pc = [t \in Threads |-> "idle"]
    /\ key = [t \in Threads |-> AnyKey]
    /\ entry = [t \in Threads |-> NoEntry]
    /\ generation = [t \in Threads |-> 0]

Goto(t, label) == pc' = [pc EXCEPT ![t] = label]

(* The end of a call, by its return or by an exception: the lease goes.    *)
End(t) ==
    /\ leases' = leases \ {t}
    /\ Goto(t, "idle")
    /\ key' = [key EXCEPT ![t] = AnyKey]
    /\ entry' = [entry EXCEPT ![t] = NoEntry]
    /\ generation' = [generation EXCEPT ![t] = 0]

----------------------------------------------------------------------------
(* The SDK's lifetime                                                      *)

Initialize(t) ==
    /\ leases = {} /\ pc[t] = "idle"
    /\ ~initialized /\ life < MaxLives
    /\ initialized' = TRUE /\ initThread' = t /\ life' = life + 1
    /\ UNCHANGED <<leases, clients, sso_generation, sso_login_mutex, logins,
                   pc, key, entry, generation>>

(* shutdown that leaves the clients of the SDK it shuts down.              *)
Shutdown_KeepsClients(t) ==
    /\ leases = {} /\ pc[t] = "idle"
    /\ initialized /\ initThread = t
    /\ initialized' = FALSE /\ initThread' = NoThread
    /\ UNCHANGED <<clients, life, leases, sso_generation, sso_login_mutex,
                   logins, pc, key, entry, generation>>

(* Only the thread that initialized the SDK shuts it down, once every      *)
(* lease is back.                                                          *)
Shutdown(t) ==
    /\ leases = {} /\ pc[t] = "idle"
    /\ initialized /\ initThread = t
    /\ clients' = [k \in Keys |-> NoEntry]
    /\ initialized' = FALSE /\ initThread' = NoThread
    /\ UNCHANGED <<life, leases, sso_generation, sso_login_mutex, logins,
                   pc, key, entry, generation>>

(* AwsLease: without an SDK it throws.                                     *)
Lease(t, k) ==
    /\ pc[t] = "idle" /\ initialized
    /\ leases' = leases \cup {t}
    /\ Goto(t, "find")
    /\ key' = [key EXCEPT ![t] = k]
    /\ UNCHANGED <<lifeVars, clients, sso_generation, sso_login_mutex, logins,
                   entry, generation>>

----------------------------------------------------------------------------
(* get_client_entry                                                        *)

(* Under client_mutex.                                                     *)
FindClient(t) ==
    /\ pc[t] = "find"
    /\ entry' = [entry EXCEPT ![t] = clients[key[t]]]
    /\ Goto(t, IF clients[key[t]] = NoEntry THEN "make" ELSE "check")
    /\ UNCHANGED <<lifeVars, leases, clients, sso_generation, sso_login_mutex,
                   logins, key, generation>>

(* make_client reads the generation before it makes the provider.          *)
ReadGeneration(t) ==
    /\ pc[t] = "make"
    /\ generation' = [generation EXCEPT ![t] = sso_generation]
    /\ Goto(t, "provider")
    /\ UNCHANGED <<lifeVars, leases, clients, sso_generation, sso_login_mutex,
                   logins, key, entry>>

Fresh(g) == [generation |-> g, epoch |-> logins, life |-> life]

MakeProvider(t) ==
    /\ pc[t] = "provider"
    /\ entry' = [entry EXCEPT ![t] = Fresh(generation[t])]
    /\ Goto(t, "insert")
    /\ UNCHANGED <<lifeVars, leases, clients, sso_generation, sso_login_mutex,
                   logins, key, generation>>

(* try_emplace: the first client of a key stays.                           *)
InsertClient(t) ==
    LET k == key[t] IN
    /\ pc[t] = "insert"
    /\ clients' = IF clients[k] = NoEntry THEN [clients EXCEPT ![k] = entry[t]] ELSE clients
    /\ entry' = [entry EXCEPT ![t] = clients'[k]]
    /\ Goto(t, "check")
    /\ UNCHANGED <<lifeVars, leases, sso_generation, sso_login_mutex, logins,
                   key, generation>>

(* uses_sso && GetAWSCredentials().IsEmpty(): only the client of an SSO    *)
(* profile is asked, and it may have credentials or not.                   *)
CheckCredentials(t) ==
    /\ pc[t] = "check"
    /\ \/ Goto(t, "use")
       \/ Profile(t) \in SsoProfiles /\ Goto(t, "wait")
    /\ UNCHANGED <<lifeVars, leases, clients, sso_generation, sso_login_mutex,
                   logins, key, entry, generation>>

(* A client that is taken for current whatever its generation.             *)
Current_Always(t) == TRUE

(* No login was completed since the client was made.                       *)
Current(t) == entry[t].generation = sso_generation

(* login_required: a client that is not current is made anew, and the user *)
(* is asked only if the new one has no credentials either.                 *)
LockLogin(t) ==
    /\ pc[t] = "wait" /\ sso_login_mutex = NoThread
    /\ sso_login_mutex' = t
    /\ \/ /\ Current(t)
          /\ Goto(t, "login")
          /\ UNCHANGED entry
       \/ /\ ~Current(t)
          /\ entry' = [entry EXCEPT ![t] = Fresh(sso_generation)]
          /\ Goto(t, "login") \/ Goto(t, "store")
    /\ UNCHANGED <<lifeVars, leases, clients, sso_generation, logins, key, generation>>

(* perform_sso_login: the user signs in and the token is written.          *)
Login(t) ==
    /\ pc[t] = "login"
    /\ logins < MaxLogins
    /\ logins' = logins + 1
    /\ Goto(t, "bump")
    /\ UNCHANGED <<lifeVars, leases, clients, sso_generation, sso_login_mutex,
                   key, entry, generation>>

(* The mutex of a login that fails, locked by hand and not unlocked.       *)
LoginFails_KeepsMutex(t) ==
    /\ pc[t] = "login"
    /\ End(t)
    /\ UNCHANGED <<sso_login_mutex, lifeVars, clients, sso_generation, logins>>

(* A login that is refused, canceled, fails or times out throws; that of a *)
(* profile without an sso_session always does.                             *)
LoginFails(t) ==
    /\ pc[t] = "login"
    /\ sso_login_mutex' = NoThread
    /\ End(t)
    /\ UNCHANGED <<lifeVars, clients, sso_generation, logins>>

(* The new client must have credentials, or the call fails.                *)
CountLogin(t) ==
    /\ pc[t] = "bump"
    /\ sso_generation' = sso_generation + 1
    /\ \/ /\ entry' = [entry EXCEPT ![t] = Fresh(sso_generation + 1)]
          /\ Goto(t, "store")
          /\ UNCHANGED <<leases, key, generation, sso_login_mutex>>
       \/ /\ End(t)
          /\ sso_login_mutex' = NoThread
    /\ UNCHANGED <<lifeVars, clients, logins>>

(* insert_or_assign, then both mutexes are released.                       *)
StoreClient(t) ==
    /\ pc[t] = "store"
    /\ clients' = [clients EXCEPT ![key[t]] = entry[t]]
    /\ sso_login_mutex' = NoThread
    /\ Goto(t, "use")
    /\ UNCHANGED <<lifeVars, leases, sso_generation, logins, key, entry, generation>>

(* The requests the call makes, until it returns.                          *)
UseClient(t) ==
    /\ pc[t] = "use"
    /\ End(t)
    /\ UNCHANGED <<lifeVars, clients, sso_generation, sso_login_mutex, logins>>

Advance(t) ==
    \/ FindClient(t) \/ ReadGeneration(t) \/ MakeProvider(t) \/ InsertClient(t)
    \/ CheckCredentials(t) \/ LockLogin(t) \/ Login(t) \/ LoginFails(t)
    \/ CountLogin(t) \/ StoreClient(t) \/ UseClient(t)

Next ==
    \E t \in Threads :
        \/ Initialize(t) \/ Shutdown(t) \/ Advance(t)
        \/ \E k \in Keys : Lease(t, k)

Spec == Init /\ [][Next]_vars

(* A thread in the plugin goes on: requests end by the SDK's timeouts, a   *)
(* login after ten minutes, and the mutexes go to each waiter in its turn. *)
FairSpec == Spec /\ \A t \in Threads : WF_vars(Advance(t)) /\ SF_vars(LockLogin(t))

----------------------------------------------------------------------------
(* Properties                                                              *)

(* The user is asked to sign in only after a client made since the last    *)
(* login of this process had no credentials: what one thread's login has   *)
(* brought is tried before another thread asks again, however many threads *)
(* found the token expired (get_client_entry).                             *)
LoginsAreTried == \A t \in Threads : pc[t] = "login" => entry[t].epoch = logins

(* A thread works with clients of the SDK that is initialized now, and the *)
(* SDK stays up as long as it does (AwsLease, shutdown).                   *)
ClientsAreAlive ==
    /\ \A t \in Threads : pc[t] # "idle" => initialized /\ t \in leases
    /\ \A t \in Threads : entry[t] # NoEntry => entry[t].life = life
    /\ \A k \in Keys : clients[k] # NoEntry => initialized /\ clients[k].life = life

Locked == {"login", "bump", "store"}

(* A login is made under the mutex, and only for an SSO profile.           *)
LoginsInTurn ==
    \A t \in Threads :
        /\ pc[t] \in Locked <=> sso_login_mutex = t
        /\ pc[t] \in Locked \cup {"wait"} => Profile(t) \in SsoProfiles

(* A thread has a client as soon as it has made or found one.              *)
Served == Labels \ {"idle", "find", "make", "provider"}
ClientsInHand ==
    \A t \in Threads :
        (pc[t] \in Served => entry[t] # NoEntry) /\ (pc[t] = "idle" => entry[t] = NoEntry)

(* The generation counts the logins, the one under way excepted.           *)
Counted ==
    logins = IF \E t \in Threads : pc[t] = "bump" THEN sso_generation + 1 ELSE sso_generation

(* A client's generation may be too old, which costs a client, but never   *)
(* too new, which would cost a login.                                      *)
NotTooNew(e) == e # NoEntry => e.generation <= e.epoch /\ e.epoch <= logins
Generations ==
    /\ \A t \in Threads : generation[t] <= sso_generation /\ NotTooNew(entry[t])
    /\ \A k \in Keys : NotTooNew(clients[k])

(* The inductive invariant: what the generations say about logins.         *)
IInv ==
    /\ TypeOK /\ ClientsAreAlive /\ LoginsInTurn /\ ClientsInHand
    /\ Counted /\ Generations /\ LoginsAreTried

(* Every call ends, although threads wait for each other's logins.         *)
CallsEnd == \A t \in Threads : pc[t] # "idle" ~> pc[t] = "idle"
=============================================================================
