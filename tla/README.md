# TLA+ model of s3cmd

s3cmd is a file system plugin for Total Commander that shows AWS profiles, S3
buckets and objects as directories and files (`src/README.md`). Total Commander
calls it from several threads (the panels, and one thread for each background
transfer). The plugin keeps process-wide state behind a handful of mutexes and
three pieces of state on disk: partial downloads, the resume journal and
`s3cmd.toml`. This directory holds TLA+ modules of the parts where that state is
hard to get right, TLC configurations that check them on small instances, and
TLAPS proofs for instances of any size.

File and line numbers below are relative to the repository root, `s3.cpp`
meaning `src/s3.cpp`.

## Inventory

| Part | State | Operations | Talks to |
|---|---|---|---|
| **Download and resume** (`s3.cpp` `get_file`, `ActiveDownload`; `resume.cpp`) | active downloads by target path, `<target>.s3cmddownload`, `resume.toml` (path -> object, ETag, size) | `get_file` with the overwrite, resume and move flags; `prune_resume_records` at the start | metadata cache (ETag for the journal), client cache, `TransferProgress`, `delete_file` |
| **Bucket registry and configuration** (`config.cpp`, `toml.cpp`) | `runtime_config` (settings; registered and discovered buckets, hint flag per profile), `s3cmd.toml` | `list_buckets`, `register_existing_bucket`, bucket creation and deletion, region lookup | S3, dialogs |
| **Metadata cache and listings** (`object_metadata.hpp`, `FindState`) | directories with their objects, count, generation of last use | `list_objects`, content columns, Properties, `get_file` | S3 |
| **Client cache and SDK lifetime** (`s3.cpp` 95-320, 903-987) | `aws_initialized`, `clients` by profile and region, `sso_generation`, two mutexes and the lifecycle lock | `initialize`, `shutdown`, `AwsLease`, `get_client_entry` | SSO login; every operation that sends a request |
| **Remote operations** (`s3.cpp` 1309-1680) | S3 only; the thread-local `suppress_delete_listing` | `put_file`, `delete_file`, `make_directory`, `remove_directory`, `rename_or_move`, `status_info` | S3, client cache |
| **SSO login** (`sso.cpp`) | the callback's code or error and a binary semaphore; token and registration caches on disk | PKCE with a local callback server, device flow with polling, fallback from one to the other | client cache, browser, host |
| **Transfer progress** (`s3.cpp` 365-468) | bytes, percent, canceled, flags of the last response, `pause_mutex_` | callbacks on the SDK's worker, `wait` on the host's thread | host, SDK |
| **Properties dialog** (`properties_dialog.cpp`) | two futures, `closing_`, `cancelled_` | load, presign, poll by a timer, close | client cache, registry |
| **Bucket creation dialog**, **plugin interface** (`main.cpp`, `core.cpp`), **utilities** | none that is shared | | |

### What is hard

* *Concurrency.* Every operation is a sequence of short critical sections with
  requests and dialogs between them. `get_file` alone has about a dozen points
  at which another thread, another writer of the bucket, the user or a crash can
  come in.
* *Failure.* Every file operation may fail; each has its own early return, and
  what it leaves behind is what the next call, perhaps of another process,
  starts from. `s3cmd.toml` is truncated in place; `resume.toml` is replaced by
  a rename.
* *Staleness.* The journal joins an ETag from one listing with a size from
  another; the registry keeps settings in memory; clients keep tokens.
* *Retries and cancellation.* The SDK repeats requests inside one call and
  writes error bodies to the stream of the download; a cancellation races both.

What has to hold, part by part: a download appears whole or not at all, and the
journal never describes bytes of something else (Download); registrations and
hints survive, and `s3cmd.toml` follows memory (BucketRegistry); the cache keeps
an exact count and the recently used directories, and serves whole listings
(MetadataCache); what a login brings is tried before the next one, no client
outlives its SDK and no waiting thread is left behind (ClientAccess); uploads,
copies and moves lose no content, and deletions delete what was meant
(RemoteOps); a login uses its own code and leaves no thread behind, however it
ends (SsoLogin); a worker never outlives what it points to, and what the user
closes goes away (PropertiesDialog, TransferProgress). `PROJECT.json` lists the
hazards line by line with the properties that cover them.

## Modules

```
Delivery  <---implements---  Download  <-- DownloadInvariant <-- DownloadProofs
                                                   ^--- MCDownload
BucketRegistry  <-- BucketRegistryProofs, MCBucketRegistry
LruCache  <---implements---  MetadataCache  <-- MetadataCacheProofs, MCMetadataCache
ClientAccess  <-- ClientAccessProofs, MCClientAccess
RemoteOps  <-- RemoteOpsProofs, MCRemoteOps
SignIn  <---implements---  SsoLogin  <-- PropertiesDialog  <-- PropertiesDialogProofs, MCPropertiesDialog
TransferProgress  <-- TransferProgressProofs, MCTransferProgress
```

### Download

One call of `get_file` is a path through `pc[t]`:

| Label | Code | Actions |
|---|---|---|
| `idle` | - | `GetFile` (ActiveDownload), or busy |
| `check` | 1144-1188 | `Check`: existing files, `resume_state`, the first progress report |
| `erase`, `remove`, `record` | 1190-1207 | `EraseOldRecord`, `RemoveOldPartial`, `RecordListing` |
| `request` | 1211-1245 | `ClientFails`; an attempt of the SDK begins: `Serve`, `IgnoreRange`, `Refuse`, `NoAnswer`, `StreamFails` |
| `body` | 446-456 | `Receive`, `ConnectionLost`, `Complete`, `StopCanceled` |
| `failed`, `forget`, `report` | 1248-1277 | `Truncate`, `ForgetRecord`, `Report` |
| `received`, `commit`, `tidy`, `delete` | 1278-1298 | `Received`, `Commit`, `TidyRecord`, `DeleteSource` |

An object is its current version number; a byte is the pair of object and
version it came from, so that a mix of two contents is visible, and
`ErrorByte` is a byte of an error response. `journal` is `resume.toml`: its two
writers replace the file by a rename and are one step each. `Restart` ends the
process at any step, loses what is in memory and prunes the journal. `Put`,
`Remove`, `CacheListing`, `UserWrites` and `UserDeletesPartial` are the
environment; `meta` is the cached ETag, which may be any old one.

Three kinds of trouble are switched on by the constant `Faults`:
`strandedErrorBody` (cutting off an error body fails, or a crash beats it),
`revert` (another writer puts an old content back) and `unreadableJournal`
(`resume.toml` exists and cannot be read). Two paths that name one file are a
matter of `FileOf`.

`Delivery` is what a download promises: in one step a whole version of an object
gets the final name, and nothing else the plugin does is visible there.

### BucketRegistry

Each `ProfileConfig` member function holds `config_mtx` and is one action; a
call that uses several of them is several actions (`list_buckets`: `ListBuckets`,
`Page`, `ListingFails`, `Publish`, `TakeHint`, `ShowHint`). `memory` is
`runtime_config` and is loaded by the first operation that needs it (`Current`);
`Flush` is `flush_to_disk`, which may fail before it truncates (`refused`) or
after (`torn`); `DieWriting` is a crash in the middle of it. What a reader makes
of an incomplete file is any part of it (`Fragments`); a file that the first use
cannot open or parse gives the defaults (`ReadFails`), which the next write puts
over it. `UserEdits` is the user with an editor, on the `[settings]` table only.

Calls that are still running when the process ends are dropped. The model
assumes that the host does not unload the plugin while a call is in it.

### MetadataCache

`ObjectMetadataCache` with its count, its generations and its eviction loop
(`Add`, `Find`, `Clear`), and `list_objects` that reads a directory page by page
(`Page`) while other clients put and delete objects. `lasting[t]` records which
names existed during the whole listing, `vanished[d]` which of them the stored
listing lacks. The loop of `add` is `Evicted`: the least number of oldest
directories after which its condition stops it (`Stops`). `LruCache` is the
abstract cache: the directories it keeps and the order of their last uses; after
a new one it keeps as many of the most recent as fit. It has no count, no
generations and no loop. `older` records the order of the uses as they happen
(`UsedNow`), apart from the generations that the code dates them with: a `find`
that forgot to renew `last_used` leaves the two apart (`UsesAreDated`) and makes
`add` evict what was just used (`KeepsRecentlyUsed`). The limit `max_entries`
is an argument of the constructor; `Limits` are its values.

### ClientAccess

A thread takes a lease (`Lease`), finds or makes a client (`FindClient`,
`ReadGeneration`, `MakeProvider`, `InsertClient`), asks it for credentials
(`CheckCredentials`) and, if there are none, waits for `sso_login_mutex`
(`LockLogin`), where it either makes a new client or signs in (`Login`,
`LoginFails`, `CountLogin`), and stores what it has (`StoreClient`). A client
carries the generation that `make_client` read, the number of tokens written
when its provider was made, and the initialization of the SDK it belongs to.
Whether a request for credentials brings any is open, for every client and every
time it is asked: the token may have expired, the service that turns it into
credentials may be out of reach, the provider may still have what it fetched
before, and the user may have signed in with `aws sso login`. So the model keeps no
validity of tokens at all, and what it says of logins rests on none:
`LoginsAreTried`, that the client which had no credentials when the user is asked
was made after the last login of this process. `perform_sso_login` is one step
that succeeds or fails; SsoLogin is what happens inside it.

### RemoteOps

The keys of one directory, `Names` for its objects and `Marker` for the empty
object named by its prefix. An object is its content; a local file is one too,
so that a copy can be followed. A call begins (`put_file`, `rename_or_move`,
`delete_file`, `make_directory`, `remove_directory`: everything up to its first
request, which changes nothing) and then makes its requests one by one:

| Call | Requests and other steps |
|---|---|
| `put_file` | `PutObject` (with If-None-Match unless overwriting; `Cancel` while it waits), `RemoveLocal` |
| `rename_or_move` | `remote_exists` unless overwriting, `CopyObject`, `RemoveSource` |
| `delete_file` | `DeleteObject` |
| `make_directory` | `PutMarker` |
| `remove_directory` | `ListDirectory` (an answer of at most two keys), `RemoveMarker` |

`Request` is what may become of a request: S3 serves it or not, its answer
arrives or not, and the SDK repeats it up to `MaxRetries` times. `session[t]` is
the operation Total Commander has announced with FsStatusInfo, between whose
start and end its calls come (`docs/fsstatusinfo.htm`). In a deletion it may
name any key, also one a listing showed before: the listings that
`suppress_delete_listing` empties (`find_first`) are therefore left out, and the
checks in `delete_file` and `remove_directory` carry the property alone.

`given` tells which contents may disappear. A content is given up when somebody
asks for what is under its key to be replaced or deleted, and when it gets under
a key for which a thread is past its look: `rename_or_move` without overwriting
after HeadObject, or a move after CopyObject (`Careless`). Both requests of the
code are unconditional there, so the content that arrives in between is lost;
`NothingElseIsLost` says that these are the only two gaps, in spite of lost
answers, cancellations, failures and the other threads.

### SsoLogin

`perform_sso_login`, on the thread at `pc`, with the thread of the callback
server (`listener`), the browser and a clock of ticks (`Tick`):

| Label | Code in `sso.cpp` | Actions |
|---|---|---|
| `out`, `confirm` | `perform_sso_login` before the flows | `BeginLogin`, `Confirm` |
| `register` | `register_sso_client`; in PKCE the server is started after it | `Register` |
| `open`, `urlbox`, `wait` | `perform_pkce_sso_login` up to `wait_for_sso` | `OpenBrowser`, `AnswerUrlBox`, `WaitForBrowser`, `CancelWait` |
| `read`, `join`, `exchange` | what is left of it: the code under its mutex, `stop` and `join`, `CreateToken` | `ReadCallback`, `JoinListener`, `ExchangeCode` |
| `fallback` | the second box of `perform_sso_login` | `FallBack` |
| `authorize`, `devicebox`, `devicewait`, `poll` | `perform_device_sso_login` | `Authorize`, `AnswerDeviceBox`, `WaitForInterval`, `Poll` |
| `write` | `write_sso_token` | `WriteToken` |

An exception in the PKCE flow goes through `join` with `result = "cancelled"`,
because the destructors stop the server and join its thread first. The handler
of the callback address is two steps, storing the code (`HandleCallback`) and
releasing the semaphore (`SignalReady`): the caller may read the one before the
other happens. `ListenerFails` is a server that stops listening by itself.

A login's number is its `state`, and its code carries that number. Pages stay
open in the browser (`tabs`) when their login is over and may come back to the
next one's server. CreateToken accepts a code with the verifier of its own login
only; that is an assumption on AWS, as are its answers to a poll.
`PreferSsoDeviceCode` is read when the login begins and may have either value.
A token that cannot be written may have truncated the file of the old one.

`SignIn` is a login as `get_client_entry` sees it: it begins, perhaps starts a
thread, and either returns with its token in the cache or throws, with no thread
left. These two ends are the actions `Login` and `LoginFails` of ClientAccess;
that SsoLogin has no other is its property `EndsAsPromised`.
Exceptions other than the two of a login (memory, threads that cannot start) are
left out. `wait_until_ready` (`sso.cpp:338`) is no wait in the model: that the
library's server becomes ready, or that its thread returns so that the wait is
over, is assumed, and `LoginEnds` holds under that assumption.

### PropertiesDialog

The user-interface thread handles one message after another. `ui` says how deep
it is: in the dialog's loop, in `prepare_` called by the `start_loading` message,
in a login called by `prepare_`, or in the destructors after the loop.

| Code in `properties_dialog.cpp` | Actions |
|---|---|
| `show_properties`, `WM_INITDIALOG` | `Show`, `Destroy` |
| the `start_loading` message, `prepare_` | `StartLoading`, `PrepareAtOnce`, `PrepareSignsIn`, `SignedIn` |
| `WM_TIMER`, `poll` | `Timer` |
| `WM_CLOSE`, `IDCANCEL`, `IDOK` | `Close` |
| the combo box and the button beside it, `update` | `ChangeExpiry`, `Generate` |
| the two workers | `Loaded`, `Signed` |

The boxes and progress reports of a login (`Pumping`) are the host's, and the
model assumes that it may dispatch messages of other windows while they are up,
as a modal box and the progress window of Total Commander do. So the timer and
`WM_CLOSE` may run *inside* `prepare_`. That is the hardest case: the dialog
then has no worker yet, so that `poll` ends it at once, and the worker that
`start_loading` starts afterwards is waited for by the destructor of its future.

### TransferProgress

One GetObject or PutObject call. The host's thread is in `wait`: it reports
(`Report`, during which it holds `pause_mutex_`), comes back (`Resume`), or
leaves by an exception (`ReportThrows`, then `drain`). The SDK's worker calls
the handlers the constructor set (`Headers`, `Continue`, `Add`, `Retry`). `add`
and the ContinueRequest handler wait for `pause_mutex_` and do nothing else
that takes time, so each is a step whose guard is that the mutex is free. A body
may be longer than the object: an error body is counted too. What a handler
writes to the file is in Download.

## Runs

| Run | What it checks | Result |
|---|---|---|
| `download` | One thread, one object with versions of sizes 2, 2 and 1, one retry, restarts, journal entries with one version's ETag and another's size, 416 answers: the invariant, `NoTornFile`, `RecordDescribesPartial`, `ResumeKeepsPrefix`, the implementation of Delivery | holds (654 000 states) |
| `download_threads` | Two threads, two objects, one target file: the invariant, which contains `NoTornFile` | holds (531 000 states) |
| `download_faults` | All `Faults` on: `NoSilentOverwrite`, `RestartKeepsResumable`, `CallsReturn` hold even then | holds (59 000 states) |
| `download_errorbody` | `strandedErrorBody` on | **violated**: an error body becomes the start of a file |
| `download_spellings` | One file under two spellings of its path | **violated**: a file of two objects |
| `registry` | Two threads, one profile, one bucket, failing reads and writes, crashes, edits: invariant, `ConfigMirrored`, `HintOncePerProfile`, `RegistrationsLast` | holds (520 000 states) |
| `registry_pages` | A ListBuckets request fails after a first page | **violated**: registration is closed although listing failed |
| `metadata_cache` | Two threads, three directories of two names, room for two or three entries, four uses: exact count, limit, whole listings, implementation of LruCache | holds (479 000 states) |
| `clients` | Two threads, two SSO profiles, two logins, two lives of the SDK: invariant, `LoginsAreTried`, `ClientsAreAlive`, `CallsEnd` | holds (186 000 states) |
| `remote_ops` | Two threads, two keys and a marker, a local file, another client, one retry: invariant, `NothingElseIsLost`, `BucketDeletionKeepsObjects` | holds (392 000 states) |
| `properties_login` | A Properties dialog whose client needs a login, two logins, both flows, a browser page left from the first: both invariants, `CodeIsThere`, `ReleasedOnce`, `CancelIsFinal`, `EndsAsPromised`; `WorkersKeepWhatTheyUse`, `LinkHasChosenExpiry`, `EndsIdle`; `LoginEnds`, `ClosingEnds` | holds (45 700 states) |
| `transfer` | One request with two retries, up to four chunks of objects of no, one or three bytes: the invariant, `PausedTransferStands`, `WaitReturns` | holds (8 300 states) |

The three violations are in `PROJECT.json` under `findings` with the lines they
are about. Each comes down to a few steps:

1. *Error body.* A download fails with a 5xx answer whose body is in the partial
   file; `resize_file` fails (or the process dies); the journal entry stays; the
   user resumes; `If-Match` accepts; the file is committed.
2. *Spelling.* Download `A.bin` and interrupt it; download another object to
   `a.bin` and interrupt it; resume `A.bin`: its entry is untouched, its partial
   file is not.
3. *Pages.* The first page of buckets succeeds, the second fails: the registered
   buckets are published as discovered, `_Add existing bucket_` is not offered.

### Behaviour worth knowing

What the models also show, and no run is about:

* *Settings.* A user edits `s3cmd.toml`, as `README.md:135` tells him, then
  registers a bucket and restarts: `flush_to_disk` has written the old settings
  back (`SettingTakesEffect` in BucketRegistry states the opposite).
* *Closing while signing in.* The dialog ends although its client is still being
  prepared; Windows is then blocked in the destructor of the future until the
  tags are loaded, and no messages are handled meanwhile. The comment at
  `properties_dialog.cpp:159` promises that messages are handled until the
  cancellation is over; that holds for a dialog that is closed after `prepare_`.
  Closing does not cancel the login.
* *Success that was none.* The browser is told that the login succeeded before
  the wait is found to be over, or the code exchanged.
* *A capped interval.* `slow_down` does not raise the interval over 30 seconds, and
  brings one that AWS has set to more than that down to 30 (`SlowedDown`).
* *A short answer.* `remove_directory` does not look at `IsTruncated`: if S3 answers
  with the marker alone although there are more keys, or with no key at all, the
  directory counts as empty (`s3.cpp:1584-1592`, `Pages`), and its marker is
  removed or left. Its objects stay.
* *Asking again.* A thread that has waited for `sso_login_mutex` and whose client
  is from after the last login asks the user without another look at the
  credentials (`s3.cpp:276`), also when he has signed in with `aws sso login`
  meanwhile; and one whose credentials could not be fetched asks although the
  token is valid (`s3.cpp:267`, `sso.cpp:513`).

### Bounds

Two versions of two bytes are enough for a prefix of one content joined with the
rest of another, a third, shorter one for entries and offsets that do not fit the
object any more, and a partial file of one byte is the resumable case. One retry
reaches the state left by a failed attempt. `download` uses one thread because
`ActiveDownload` admits one call to a file; that it does is the subject of
`download_threads`, and it is proved (`Exclusion`). Two threads are the least at
which two threads race for a hint, a registration or a login. Three directories
are the least at which the order of eviction matters. With up to two objects in a
directory and a limit of two entries a directory may be larger than the cache
(then it is kept alone), and two are evicted at once. With a limit of three an
empty directory fits beside one with an object, so that an object can be found in
the older of two directories and the next `add` must evict the other one; that
takes four uses. Two threads list at the same time, also the same directory. `MaxGeneration` bounds the uses
between two calls of `clear`, `MaxLogins` the logins, `MaxLives` the
initializations. Two keys are the least for a copy, and with the marker one more
than the page of `remove_directory` holds; one local file and one other content
tell what was moved from what came in between.
Two logins are the least at which a page of an earlier login is still open;
`PkceLifetime` of two ticks lets the browser come before, at and after the
deadline; the `Intervals` 1 and 4 with `SlowDown` and `MaxInterval` let the interval
grow up to its cap or come down to it, and `DeviceLifetime = 7` leaves time for a
poll after that and one at the end. Two lifetimes of a link tell a stale one from a fresh one. An object of
no bytes, one byte and three bytes with answers of up to four chunks reach all
cases of `transfer_percent`: nothing to divide by, all at once, in the middle, and
more bytes than announced. Symmetry is used for threads,
objects, keys, profiles, buckets and directories, and only in runs without liveness.

`registry` has one profile: the map has one entry per profile and no operation
looks at two, and the proofs are for any number. Deadlock is checked in every
run but `clients`, where the bounds on logins and lives end a behaviour, and
`transfer`, where the only call ends.

### Fairness

`Download`: weak fairness of each thread's own steps. A call in the plugin
always goes on: requests end by the SDK's timeouts, file operations return, and
`MaxRetries` stands for the SDK's limit on attempts. Nothing is assumed of the
user, the other writers or a crash.

`ClientAccess`: the same, and strong fairness of taking `sso_login_mutex`. A
thread holds that mutex during a login with a dialog and at most ten minutes of
waiting; strong fairness says that one of the threads that wait is not passed
over forever.

`SsoLogin`: weak fairness of the thread that signs in, which includes that the
user answers a box, of the listener and of the clock. Nothing is assumed of the
browser, of a user who might cancel, or of AWS but that requests end: a login
ends because of its deadline. `PropertiesDialog` adds the thread's own steps, the
timer and the two workers, whose requests end by the SDK's timeouts.

`TransferProgress`: weak fairness of the host's thread, so that a pause ends
some time, and strong fairness of the worker: it needs a mutex that the host
takes again every 100 ms, and it is free in between for nearly as long.

## Proofs

All proofs are for any constants that satisfy the modules' assumptions.

**DownloadProofs.** `CallsWellFormed`, `TypeCorrect` and the three action
properties hold of every instance. `InductiveInvariant`, `NoTornFiles`,
`JournalDescribesFiles` and `Delivers` assume `Calm`: distinct paths name distinct
files and `Faults` is empty. These are the conditions whose absence the two
violated download runs show (and `revert` and `unreadableJournal`).

`NoTornFile` is not inductive: it speaks of committed files, and a commit is
right because of what the partial file holds, which depends on the journal if
the call is a resumed one, which depends on the previous call. `IInv`
(DownloadInvariant) says all of that:

* `Exclusion`, `CallShape`, `StreamShape`: one call per file, and which of the
  call's variables are set at which label;
* `OnlyNewest`: versions never return, so an ETag that matches is the newest one;
* `Resting`: a partial file that no call writes to has bytes of one version of
  the object in its entry, no older than the entry's ETag;
* `Cleared`, `Writing`, `Reading`: the same while a call writes, where an error
  body may be in the file but then `get[t].error` is set, which makes
  `HasErrorBody` cut it off on every way out.

The proof has one lemma per action and under it one step per part the action can
disturb. `NoTornFiles` and `JournalDescribesFiles` follow, and `Delivers` uses
the invariant for the step `Commit`, the only one that is not a stutter or a
step of the environment in Delivery.

The action properties need none of that: `ResumedBytesStay`, `NothingOverwrittenSilently` and
`RestartsKeepResumable` follow from `TypeInv` and from `Emptied` (a call that
has committed its partial file has none left). `PartialChanges` says what
becomes of a partial file in a step, `PartialStep` shows it of every action, and
`Exclusion` keeps the other calls away from it.

**BucketRegistryProofs.** For any threads, profiles, buckets and faults: `IInv`
adds to `HintOncePerProfile` that a profile whose hint a thread is about to show
is recorded as hinted, that the hint was not shown before, and that one thread
carries it. `RegistrationsAreKept` is the action property from the invariant:
loading and restarting keep the registrations because `ConfigMirrored` holds, and
a failing write loses none because memory is changed first.

**MetadataCacheProofs.** Everything the run checks. The count is exact
(`CountIsExact`) because a directory's entries are counted out before it is
replaced or evicted: `Weight` is the cardinality of the set of entries, and
`WeightWithout` and `SameWeight` say how it changes; that the cache is finite is
part of the invariant (`CacheInv`). The eviction loop has no
induction: its number of rounds is the least natural number at which it stops
(`LeastNatural`, from the well-foundedness of the natural numbers), so that one
round less would not have done. `OldPartIsOldest` needs that the generations of
last use are distinct (`UsesAreDistinct`): then the directories evicted are
exactly those dated before every one that stays. That the dates tell the order
of the uses (`UsesAreDated`) is an invariant of its own (`DatesInvariant`): each
use makes its directory the newest in both (`UseIsDated`). From these follow `LimitHolds`,
and `CacheIsLru`, step by step: `Add` is `Store`, `Find` is `Use`, `Clear` is
`Empty` and a listing's other steps change nothing. `WholeListings` holds by
`PagesComplete`: up to its continuation token, a listing has collected everything
that was there all along.

**RemoteOpsProofs.** Everything the run checks. `NothingElseIsLost` is not
inductive: a content may be left only where a thread is about to delete it.
`IInv` asks for a key that no thread is careless of (`Safe`). A move keeps it
because CopyObject makes a second copy before the first becomes threatened, and
because S3 refuses a copy of an object onto itself (`CallFits`).

**ClientAccessProofs.** `LoginsAreTried` relates the client of the thread that
asks to the number of tokens this process has written, which the code does not
know: it compares generations. So it rests on `Generations`: make_client reads
the generation *before* the provider reads the token, so that a client's
generation is never newer than its token; on `Counted`, which allows one login
not counted yet; and on `LoginsInTurn`, by which that one holds the mutex the
thread has just taken. Nothing is assumed of tokens or of the requests.

**PropertiesDialogProofs.** Everything the run checks but the liveness. `LoginInv`
has four parts besides the types and `ListenerIsJoined`, one lemma each for all
steps of a login; `OwnCode` and `SignalFollowsCallback` need each other, because
the caller reads the callback when it has received the signal that follows it.
`IInv` adds what the dialog's flags say while messages come in the middle of
`prepare_`: `Depth`, `Preparation` (a worker is only started after what it uses
is there) and `Controls` (the lifetime cannot be changed while a link is signed).
A login's steps leave the dialog alone and the other way round, so that the
two halves are proved apart and joined in `Inductive`. `LoginsEndAsPromised` maps
every step of a login to one of SignIn (`LoginStepPromised`); it needs
`ListenerIsJoined` where a login ends.

**TransferProgressProofs.** For objects and answers of any size. `PercentRange` is
the lemma about `transfer_percent`.

Only model-checked: the liveness properties (`CallsReturn`, `CallsEnd`,
`LoginEnds`, `ClosingEnds`, `WaitReturns`), because liveness under fairness is out
of the prover's reach. Every other property of a passing run is a theorem.

## Not modelled

* The bucket creation dialog: name validation and a form on one thread.
* In the Properties dialog, copying text to the clipboard, and the texts it shows.
* Paths, string conversions, icons, logging: pure functions or I/O.
* The chain of credentials providers (`creds.cpp`): ClientAccess leaves its answers
  open.
* `ProfileConfig::unregister_bucket`: nothing in `src/` calls it.
* Regions: BucketRegistry knows only whether a bucket has one.
* What the calls of RemoteOps return, and markers with a content: an upload whose
  answer was lost is refused with 412 when it is repeated, and reports that the
  file exists.
* The hint when the host has no message boxes: then it is neither taken nor shown.

## Plan

Done: Download (with Delivery), BucketRegistry, MetadataCache (with LruCache),
ClientAccess, RemoteOps, SsoLogin (with SignIn) and PropertiesDialog, and TransferProgress, in
this order: first what can damage the user's files, then what can lose his
settings, then what is shared by all operations, then what one thread does for
another.

Next, in this order:

1. **RemoteOps**: the results of the calls, and with them the conversation with
   Total Commander that asks the user before it overwrites.
2. **ClientAccess** with several calls of SignIn in place of its one step, so that
   what threads do during another thread's login is in one model.
