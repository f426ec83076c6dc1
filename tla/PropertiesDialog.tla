--------------------------- MODULE PropertiesDialog ---------------------------
(***************************************************************************)
(* show_properties and its dialog.  The user-interface thread handles one  *)
(* message after another: it prepares a client, which may take a login     *)
(* (SsoLogin), starts a worker that loads the tags and one that signs a    *)
(* link, and looks at them whenever the timer fires.  While the login      *)
(* shows a box or reports progress the host dispatches messages, and some  *)
(* of them are this dialog's: it can be closed in the middle of prepare_.  *)
(***************************************************************************)
EXTENDS SsoLogin

CONSTANTS
    Expirations,      \* what the link's lifetime is chosen from
    DefaultExpiry,
    NoLink            \* an empty IDC_PROPERTIES_URL

ASSUME DialogAssumption ==
    /\ DefaultExpiry \in Expirations
    /\ NoLink \notin Expirations

VARIABLES
    ui,               \* what the user-interface thread does
    kind,             \* of what the properties are shown
    window,
    posted,           \* start_loading is in the message queue
    prepared,
    closing,          \* closing_ and cancelled_
    loading,          \* the futures
    signing,
    signs,            \* the lifetime of the link being signed
    expiry,           \* the one chosen in the combo box
    enabled,          \* the combo box and the button beside it
    url,              \* the link shown, by its lifetime
    lease             \* show_properties has an AwsLease and a client

dialogVars == <<ui, kind, window, posted, prepared, closing, loading, signing,
                signs, expiry, enabled, url, lease>>
vars == <<dialogVars, loginVars>>

Kinds == {"bucket", "object", "prefix"}
Futures == {"none", "running", "value", "error"}

DialogTypeOK ==
    /\ ui \in {"idle", "loop", "prepare", "login", "destroy"}
    /\ kind \in Kinds
    /\ window \in {"none", "open", "ended"}
    /\ {posted, prepared, closing, enabled, lease} \subseteq BOOLEAN
    /\ loading \in Futures /\ signing \in Futures
    /\ signs \in Expirations /\ expiry \in Expirations
    /\ url \in Expirations \cup {NoLink}

TypeOK == LoginTypeOK /\ DialogTypeOK

Init ==
    /\ LoginInit
    /\ ui = "idle" /\ kind = "bucket" /\ window = "none"
    /\ posted = FALSE /\ prepared = FALSE /\ closing = FALSE
    /\ loading = "none" /\ signing = "none" /\ signs = DefaultExpiry
    /\ expiry = DefaultExpiry /\ enabled = FALSE /\ url = NoLink /\ lease = FALSE

(* update() that looks only at what kind of thing it is.                   *)
CanSign_Always(ready_, closing_, signing_) == ready_ /\ kind = "object"

(* What update() enables.                                                  *)
CanSign(prepared_, closing_, signing_) ==
    prepared_ /\ kind = "object" /\ ~closing_ /\ signing_ = "none"

(* Messages are dispatched by the dialog's own loop, and by the host while *)
(* the login waits for the user or the browser.                            *)
Dispatching ==
    \/ ui = "loop" /\ window = "open"
    \/ ui = "login" /\ pc \in Pumping

Ready(future) == future \in {"value", "error"}
Taken(future) == IF Ready(future) THEN "none" ELSE future

----------------------------------------------------------------------------
(* Messages                                                                *)

(* DialogBoxParamW and WM_INITDIALOG; without a timer nothing is loaded.   *)
Show(k) ==
    /\ ui = "idle"
    /\ ui' = "loop" /\ kind' = k /\ window' = "open"
    /\ posted' \in BOOLEAN
    /\ UNCHANGED <<prepared, closing, loading, signing, signs, expiry, enabled, url,
                   lease>>

(* The rest of the start_loading handler when prepare_ has returned.       *)
StartWorker ==
    /\ ui' = "loop"
    /\ prepared' = TRUE
    /\ enabled' = CanSign(TRUE, closing, signing)
    /\ loading' = "running"

(* start_loading.  A prefix needs no client; otherwise the region may be   *)
(* unknown, or the SDK not initialized, and prepare_ throws.               *)
StartLoading ==
    /\ ui = "loop" /\ window = "open" /\ posted
    /\ posted' = FALSE
    /\ IF closing THEN UNCHANGED <<ui, prepared, enabled, loading, lease>>
       ELSE IF kind = "prefix" THEN StartWorker /\ UNCHANGED lease
       ELSE \/ UNCHANGED <<ui, prepared, enabled, loading, lease>>
            \/ ui' = "prepare" /\ lease' = TRUE /\ UNCHANGED <<prepared, enabled, loading>>
    /\ UNCHANGED <<kind, window, closing, signing, signs, expiry, url>>

(* get_client_entry with a client that has credentials, or one that cannot *)
(* be made.                                                                *)
PrepareAtOnce ==
    /\ ui = "prepare"
    /\ StartWorker \/ (ui' = "loop" /\ UNCHANGED <<prepared, enabled, loading>>)
    /\ UNCHANGED <<kind, window, posted, closing, signing, signs, expiry, url, lease>>

(* get_client_entry asks the user to sign in.                              *)
PrepareSignsIn ==
    /\ ui = "prepare"
    /\ BeginLogin
    /\ ui' = "login"
    /\ UNCHANGED <<kind, window, posted, prepared, closing, loading, signing, signs,
                   expiry, enabled, url, lease>>

(* The new client may still have no credentials.                           *)
SignedIn ==
    /\ ui = "login" /\ pc = "out"
    /\ \/ result = "token" /\ StartWorker
       \/ ui' = "loop" /\ UNCHANGED <<prepared, enabled, loading>>
    /\ UNCHANGED <<kind, window, posted, closing, signing, signs, expiry, url, lease>>

(* poll() that ends the dialog although a link is being signed.            *)
Look_ForgetsSigning(closing_) ==
    /\ loading' = Taken(loading) /\ signing' = Taken(signing)
    /\ url' = IF signing = "value" THEN signs ELSE url
    /\ window' = IF closing_ /\ loading' = "none" THEN "ended" ELSE window

(* poll() of a dialog that ends before it is asked to close only.          *)
Look_NeverEnds(closing_) ==
    /\ loading' = Taken(loading) /\ signing' = Taken(signing)
    /\ url' = IF signing = "value" THEN signs ELSE url
    /\ window' = IF closing_ /\ loading = "none" /\ signing = "none" /\ ~closing
                 THEN "ended" ELSE window

(* poll(): takes what the workers have, and ends a closing dialog once it  *)
(* has no worker any more.                                                 *)
Look(closing_) ==
    /\ loading' = Taken(loading) /\ signing' = Taken(signing)
    /\ url' = IF signing = "value" THEN signs ELSE url
    /\ window' = IF closing_ /\ loading' = "none" /\ signing' = "none"
                 THEN "ended" ELSE window

(* WM_TIMER.  A result makes poll() call update().                         *)
Timer ==
    /\ Dispatching
    /\ Look(closing)
    /\ enabled' = IF Ready(loading) \/ Ready(signing)
                  THEN CanSign(prepared, closing, signing') ELSE enabled
    /\ UNCHANGED <<ui, kind, posted, prepared, closing, signs, expiry, lease>>

(* WM_CLOSE, Cancel or Enter.  The loading worker is told to give up; a    *)
(* login goes on.                                                          *)
Close ==
    /\ Dispatching /\ window = "open"
    /\ closing' = TRUE
    /\ enabled' = CanSign(prepared, TRUE, signing)
    /\ Look(TRUE)
    /\ UNCHANGED <<ui, kind, posted, prepared, signs, expiry, lease>>

(* Another lifetime is chosen: the link goes.                              *)
ChangeExpiry(e) ==
    /\ Dispatching /\ window = "open" /\ enabled /\ e # expiry
    /\ expiry' = e /\ url' = NoLink
    /\ UNCHANGED <<ui, kind, window, posted, prepared, closing, loading, signing,
                   signs, enabled, lease>>

(* IDC_PROPERTIES_GENERATE.                                                *)
Generate ==
    /\ Dispatching /\ window = "open" /\ enabled
    /\ CanSign(prepared, closing, signing)
    /\ url' = NoLink
    /\ signing' = "running" /\ signs' = expiry
    /\ enabled' = CanSign(prepared, closing, "running")
    /\ UNCHANGED <<ui, kind, window, posted, prepared, closing, loading, expiry, lease>>

(* The loop ends after the handler that called EndDialog, or under which   *)
(* it was called.                                                          *)
LeaveLoop ==
    /\ ui = "loop" /\ window = "ended"
    /\ ui' = "destroy"
    /\ UNCHANGED <<kind, window, posted, prepared, closing, loading, signing, signs,
                   expiry, enabled, url, lease>>

Gone ==
    /\ ui' = "idle" /\ kind' = "bucket" /\ window' = "none"
    /\ posted' = FALSE /\ prepared' = FALSE /\ closing' = FALSE
    /\ expiry' = DefaultExpiry /\ enabled' = FALSE /\ url' = NoLink /\ lease' = FALSE

(* The end of show_properties that does not wait for its workers.          *)
Destroy_Detaches ==
    /\ ui = "destroy"
    /\ Gone
    /\ UNCHANGED <<loading, signing, signs>>

(* The end of show_properties: the dialog goes first, and the destructors  *)
(* of its futures wait; then the client and the lease.                     *)
Destroy ==
    /\ ui = "destroy"
    /\ loading # "running" /\ signing # "running"
    /\ Gone
    /\ loading' = "none" /\ signing' = "none" /\ signs' = DefaultExpiry

----------------------------------------------------------------------------
(* The workers                                                             *)

(* load_tags: what cannot be read is an error text, or an exception.       *)
Loaded ==
    /\ loading = "running"
    /\ loading' \in {"value", "error"}
    /\ UNCHANGED <<ui, kind, window, posted, prepared, closing, signing, signs, expiry,
                   enabled, url, lease>>

Signed ==
    /\ signing = "running"
    /\ signing' \in {"value", "error"}
    /\ UNCHANGED <<ui, kind, window, posted, prepared, closing, loading, signs, expiry,
                   enabled, url, lease>>

----------------------------------------------------------------------------
(* The whole                                                               *)

(* What the thread and the timer do by themselves.                         *)
Own == StartLoading \/ PrepareAtOnce \/ SignedIn \/ LeaveLoop \/ Destroy

User ==
    \/ \E k \in Kinds : Show(k)
    \/ Close \/ Generate
    \/ \E e \in Expirations : ChangeExpiry(e)

DialogNext == Own \/ Timer \/ User \/ Loaded \/ Signed

Next ==
    \/ DialogNext /\ UNCHANGED loginVars
    \/ PrepareSignsIn
    \/ LoginNext /\ UNCHANGED dialogVars

Spec == Init /\ [][Next]_vars

(* The thread, the timer and the workers go on (the SDK's requests time    *)
(* out), and so does a login.                                              *)
FairSpec ==
    /\ Spec
    /\ WF_dialogVars(Own) /\ WF_dialogVars(Timer)
    /\ WF_dialogVars(Loaded) /\ WF_dialogVars(Signed)
    /\ LoginFairness

----------------------------------------------------------------------------
(* Properties                                                              *)

(* A worker uses the dialog, the client and the lease of show_properties:  *)
(* they stay until it is done, also when the dialog was closed while it    *)
(* was being prepared.                                                     *)
WorkersKeepWhatTheyUse ==
    "running" \in {loading, signing} => ui # "idle" /\ (kind = "prefix" \/ lease)

(* The link in the dialog has the lifetime in the combo box, although it   *)
(* is signed on another thread for the lifetime there was at the click.    *)
LinkHasChosenExpiry == url \in {NoLink, expiry}

(* EndDialog is called only when no worker runs.                           *)
EndsIdle ==
    [][window = "open" /\ window' = "ended" =>
          loading' = "none" /\ signing' = "none"]_vars

(* How deep the thread is, and what there is of a dialog at that depth.    *)
Depth ==
    /\ pc # "out" => ui = "login"
    /\ ui = "idle" <=> window = "none"
    /\ ui = "idle" => ~prepared /\ ~closing /\ loading = "none" /\ signing = "none"
    /\ ui = "destroy" => window = "ended"
    /\ window = "ended" => closing

(* Workers are started only for what prepare_ has prepared, once.          *)
Preparation ==
    /\ ui \in {"prepare", "login"} => ~posted /\ ~prepared /\ lease
    /\ posted => ~prepared
    /\ prepared => kind = "prefix" \/ lease
    /\ loading # "none" \/ signing # "none" => prepared

(* The buttons are up to date, which keeps the chosen lifetime from        *)
(* changing while a link is signed for it.                                 *)
Controls ==
    /\ enabled = CanSign(prepared, closing, signing)
    /\ signing # "none" => signs = expiry /\ url = NoLink
    /\ LinkHasChosenExpiry

(* The inductive invariant.                                                *)
IInv == TypeOK /\ LoginInv /\ Depth /\ Preparation /\ Controls

(* A dialog the user closes goes, whatever is going on at that moment.     *)
ClosingEnds == closing ~> ui = "idle"
=============================================================================
