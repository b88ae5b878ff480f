# TLA+ models of zinpass

zinpass keeps passwords: a daemon (`zinpassd`, `src/service`) holds users,
accounts and mobile phones in a SQLite database and serves them over gRPC to a
desktop client (`src/client_desktop`) and to a control client (`zinpassctl`,
`src/control`). Account passwords are stored as AES-128-CTR ciphertexts under a
key derived from the main key of their owner; the daemon stores a salted digest
of the main key and never the key itself.

These modules model the daemon, from its start to its end: what its RPC
handlers, its connection pool, its session manager, its log and their threads
do, statement by statement and critical section by critical section; and the
desktop client, form by form: what it keeps of the answers it got, and what it
makes of it. TLC checks them on small instances; TLAPS proves the most important
invariants for instances of every size.

## 1. Inventory

| Part | State it keeps | Operations | Modules |
| --- | --- | --- | --- |
| Accounts and main keys (`mgr/account_mgr.cpp`, `mgr/user_mgr.cpp`, `mgr/authentication.cpp`, `rpc/account`, `rpc/user`, `repo/account_dao.cpp`, `repo/user_dao.cpp`, `utils/pwd_utils.cpp`) | tables `system_user`, `account` | CreateUser, UpdateUser, UpdateMainKey, CreateAccount, UpdateAccount, ChangePassword, FetchPassword, DeleteAccount, listings | `Vault`, `VaultService`, `VaultRefinement` |
| Mobile phones (`mgr/phone_mgr.cpp`, `repo/phone_dao.cpp`, `rpc/phone`) | table `mobile_phone`, column `account.phone_id` | CreatePhone, UpdatePhone, DeletePhone (modes 0 to 3), reference count, listings | `Phones` |
| Connection pool (`repo/connection_pool.cpp`) | queue of connections, mutex, condition variable | get_connection, release_connection | `ConnectionPool`, `ResourceLease`, `LeaseRefinement` |
| Sessions (`mod_session/session_mgr.cpp`, `rpc/user/auth_service.cpp`, `utils/date_time.cpp`) | map from session ids to user and expiry, mutex | create, validate, refresh, destroy, purge | `SessionMgr` |
| Daemon life cycle (`application.cpp`, `main_linux.cpp`, `rpc/grpc_*_service.cpp`, `rpc/status`) | flag `is_running`, two servers, three threads | daemonize, init, run, Shutdown, the destructors | `Daemon` |
| Log manager (`utils/log_manager.cpp`, `utils/tmp_msg.cpp`) | queue, mutex, condition variable, worker thread | add_log, stop, log_worker | `LogManager` |
| Database initialisation (`repo/init_database.cpp`) | the database file | init | `Daemon`; its tables in `VaultService`, `Phones`, `AccountRows` |
| Email bindings (`account.email_id`, a self reference, ON DELETE RESTRICT) | column of `account` | create, update and delete an account | `AccountRows` |
| Configuration (`config/app_config.cpp`, and the same code in the client's `state/client_config.cpp`) | settings | read once at start, written if there is no file | `AppConfig` |
| Session persistence (`mod_session/session_dao.cpp`, `session_persistence.cpp`) | table `session` | none is called | no: dead code |
| Categories, operators, models, random generators, texts | constant tables, value objects | reads | the categories in `AccountRows`; else no: nothing changes state |
| Control client (`src/control`) | a prompt | `stop` and the like | its calls, in `Daemon` |
| Desktop client, state and stubs (`client_desktop/src/state`, `rpc`) | the session id, the channel | one stub per RPC | `ClientState` |
| Desktop client, windows (`client_desktop/src/ui`) | tables, combo boxes, dialogs that outlive their calls, the clipboard | the slots of its forms | `AccountForms`, `PhoneForms`, `Desktop` |

How the parts interact. A gRPC server runs every call on a thread of its own
pool, so handlers of one user and of several overlap. A handler first asks
`SessionMgr` for the user of the session, under the mutex of the session map,
and then calls a manager, which calls DAO methods. Every DAO method takes a
connection from the pool, runs one SQL statement in autocommit mode (no handler
opens a transaction; `replace_and_remove` and `remove_cascade` run two) and gives the connection
back. What handlers share is therefore the tables, the session map and the
pool. One detached thread wakes up from time to time and purges sessions.

The main thread starts two servers, one for the desktop client and one for
`zinpassctl`, and joins their threads; a call of Shutdown clears the flag that
both poll. Whoever logs pushes a message on a queue that one more thread writes
to a file. The desktop client has one thread: a slot of a form calls a stub and
blocks until it has the answer, so its own forms cannot overtake one another,
but other clients of the same daemon can.

What is hard about it: operations that are one thing to the user (changing the
main key, renaming, deleting a phone with its references) are several
statements, between which other handlers run, statements fail (`SQLITE_BUSY`:
no busy timeout is set) and the process may die; a row is read, then written
back whole; a count is taken, then relied on; the ids of phones are used again;
decrypting with a wrong key does not fail; a mutex is given up before the
condition variable is notified; a nested acquisition waits for the pool while it
holds a part of it; the clock of the sessions is a wall clock; a thread is
detached and outlives the objects it uses; a form submits every field of a row it
read some time ago, and names a row by its place in a table that has changed.

What makes the parts correct:

- accounts: the stored ciphertext decrypts, with the key its owner has, to what
  the owner stored last; when a key change could not achieve that for an
  account, its reply names the account; a fetch answers the password or says
  that it cannot; a key changes by UpdateMainKey only;
- phones: a reference leads to a phone that exists; no phone is overwritten;
  a deletion takes nothing of another user; what it reports, it did;
- pool: exclusive use, no connection lost, no wakeup lost, never dry for ever;
- sessions: accepted until they are due, as exactly as a wall clock that is
  changed twice a year allows, for the user who logged in, not again after that,
  and not kept for ever;
- daemon: what Shutdown ends, ends, after the calls that were accepted are
  answered; a message that was logged is written, in its order, before the log
  is closed; a database is complete or its creation was cut off; a broken
  configuration file changes nothing;
- desktop client: a form shows the rows of the user who is logged in, changes
  the fields he touched, destroys what it names, and has done what it says.

`PROJECT.json` lists the hazards behind these, each with its line.

## 2. Plan

Done, in this order: `VaultService` with its abstract specification, the pool,
the sessions, the phones; then the log, the daemon around it, the rows as the
clients see them and the desktop client. Proofs: the types and the safety
properties of every one of these components, and the two refinements
(`VaultRefinementProofs`, `LeasesImplemented`). What is left:

1. The hypotheses of `VaultRefinementProofs`: what remains of `PasswordIntact`
   with several key changes, once a crash has left accounts behind, and of
   `ImplementsVault` when renames overlap a key change.
2. A composition of the handlers with the session manager: a session that ends
   while its user's key changes.
3. A mapping from `VaultService` and `Phones` to the one-step handlers of
   `AccountRows`.

## 3. Modules and their correspondence to the code

### VaultService

`user` and `account` are the two tables. `hashed_pwd` and `salt` are written
together and compared by recomputing the digest, so a row keeps the key itself;
`encrypted_pwd` and `iv` are the pair of the key the ciphertext was made with
and its plaintext; `Decrypt` with any other key gives `Garbage` and succeeds, as
unauthenticated CTR mode does. `pc`, `req`, `loc` and `reply` are, for each
handler thread, the next statement, the request, the local variables and the
response. `everKey`, `intended` and `reported` are history variables for the
properties.

Each action is one SQL statement with everything the handler does before the
next one. `Failable` says which statements may fail; `Crash` loses all threads
and keeps the tables. Some behaviours of the code that the actions keep and a
reader may not expect: an UPDATE or DELETE that matches no row is a success; a
SELECT that fails or finds nothing in `retrieve_decrypted_password` makes its
*data* the text "查询目标不存在" (`NotFoundText`), which FetchPassword answers as
the password and `re_encrypt_password_all` takes for a plaintext;
`DeleteAccount` does not look at the owner; `add_view_account` and
`ChangePassword` refuse an empty password, `UpdateAccount` with an empty one
changes the other columns only.

Bounds: `AccountIds` (accounts that ever exist), `MaxRotations` (key changes per
user), and `Calls`, the RPCs each thread may be given, which divides the
interleavings among the runs.

### Vault and VaultRefinement

`Vault` is the abstract promise: one key per user, one password per account, a
key change changes no password, a fetch answers the password. A key change is
not one step to those who ask meanwhile: `vchanging` says whose key is changing,
`vask` what a caller has been let in for and by which key, and a caller that a
key change has overtaken (`Overtaken`) may be answered garbage, but not another
password. A change that ends leaves the accounts its reply names (`vleft`).
`VaultRefinement` maps the tables to it: while a rotation is under way, an
account it has not passed yet is read with the old key, which the rotating
handler still holds; a caller has been let in from the end of its check to its
SELECT.

### ConnectionPool and ResourceLease

`available` is the queue, `pc` tells where a caller is between Call and return.
The critical sections of `get_connection` and `release_connection` are actions;
`notify_one` is an action of its own because the code calls it after giving up
the mutex; a woken waiter takes the mutex again, so another caller may get in
first; wakeups may be spurious. Threads of `Nesting` may be in
`MobilePhoneDAO::add`, which calls `generate_id` with its own connection in
hand. `ResourceLease` is the abstract promise of exclusive leases;
`LeaseRefinement` maps the pool to it: a connection is leased from the critical
section that pops it to the one that pushes it back.

### SessionMgr

`now` is the instant, `sessions` the map with expiries as wall clock readings,
`mutex` the owner of the mutex across actions, which matters only for the
renewing overload of `validate_session_and_get_user_id`. `Summer` and `Shift`
say when and by how much the wall clock is ahead; `addSeconds` and `Expired`
parse it as standard time, as `DateTime` does. `since`, `due`, `refused` and
`owner` are history variables: when a session was last given time, when that
time is over on the clock of the world, when it was last refused, and who logged in. `Serve` stands for what a handler
does after its check. `DeleteSession` and `UpdateSession` have empty bodies and
so are no actions: a session cannot be ended by its user (`auth.proto:11`
announces "登出", log out). `destroy`, `refresh` and the renewing overload have no
caller; `Methods` lets a run call them.

### Phones

`phone` and `acc` are the rows of `mobile_phone` and what matters of `account`.
`FreeId` is the query of `generate_id`. `BindAccount` is the effect of creating
or updating an account on `phone_id`; numbers are looked up without regard to
the owner, as in the SQL. `Plan` is the switch of `delete_mobile_phone`.
`ReferencesCleared` is ON DELETE SET NULL. `replace_and_remove` deletes nothing:
see the findings. `since` is a history variable: the accounts that were bound to
a phone while a thread is about to delete the one it has examined, whichever
phone the statement then removes. Deleting an account that an
email refers to is refused by the database: one of the reasons for which
`cascade` may fail.

### LogManager

A critical section of `queue_mutex_` is an action, `notify_one` another, since
`add_log` and `stop` call it after the mutex; a thread in `notifying` is between
the two. `log_thread` tells whether the worker is about to open its file
("new"), to look at the queue ("check"), waits on the condition variable, writes
without the mutex, or has returned ("gone"). `open_file` has the three outcomes
of the code: the configured file, the default one, none. `owed` is a history
variable: what was given to `add_log` and is not in the file. `MaxBehind` bounds
the queue while the worker runs. `ResetLog` is the end of the process.

### AppConfig

`ReadConfig` is `read_config_from_file` of `AppConfig`, and, line by line the
same, of the client's `ClientConfig`: values go to locals first, an exception leaves the
members as they are. Which file it is (`Absent`, `Broken`, a value that does not
convert) is chosen by the run. The constructor ends the process when it cannot
tell where the executable is; that is left out.

### Daemon

`Daemon` extends `LogManager` and `AppConfig`. `main`, `server[s]` and `call[c]`
tell what the main thread, the thread of each server and each caller's handler
do next. `Script` and `ServerScript` are the messages they log on their way, one
action per call of `add_log`: a thread goes on when it has come back from
`notify_one`. `Shutdown` and `drained` are the two halves of
`grpc::Server::Shutdown`: refuse, then wait for the handlers that run, without a
deadline. `purge` is a round of the detached worker, bounded by `MaxPurges`.
`disk` and `file` survive the process; `Vanish` resets the rest, when main ends,
when the pool throws, and when the process dies (`Die`), at any point. The
destruction of statics under the detached thread is undefined behaviour: the
build may go on or die, and `Die` covers the latter. `damaged` is a history
variable: the databases whose creation was cut off or failed.

What the model keeps and a reader may not expect: `Restart` restarts nothing;
`zinpassctl` does not look at the status of its calls and prints an empty line
when there is no daemon; the key of the control calls is not checked; if one
server cannot listen, the other one goes on; a database that was left without
tables is never repaired, since the next start finds the file; the comment
"等待所有线程结束" (wait for all threads to end, `application.cpp:66`) stands above
the `detach()` of one of them; with a cleanup interval of 0 that thread logs
without a pause.

### AccountRows and ClientState

`AccountRows` has the tables as a client sees them: of the texts of an account
the user name, with category, phone, e-mail reference and password; of a phone
its number. Every handler is one operator: those that read give the answer, those
that write the set of possible results, each an answer and the tables. A handler
is one step here; `VaultService` and `Phones` have its statements. Rows that are
gone keep their values, so that the properties can say whose they were; `birth`
tells apart phones that had the same id. `ClientState` has the user of
`StateManager`, the window and the modal dialog, and a stub per RPC: an answer,
a failure, or (for a call that writes) a lost answer to a call that was carried out.
`UserRPC` takes every answer for a success, refusals included, as the code does.

### AccountForms, PhoneForms, Desktop

An action is a slot of a form. `acc_mgr` is the table of accounts, with the row
last clicked (an index, as in the code, which a sorted table does not move) and
the id the viewer names; `dlg_edit` is the one dialog that edits every account:
it is filled by four calls, each of which may fail, and a combo box that does
not offer a text shows another; the password typed into it stays.
`initial_input_widgets`, `RowRemoved`, `list_accounts` are the code's functions
of these names; a listing comes in the order in which SQLite keeps the rows
(`InsertionOrder`; the model numbers accounts as they are created). `PhoneDetailFrame` keeps the id of the phone it was filled with;
its deletion is two actions, so that another client may act between the count
and the deletion. `Desktop` adds the loop of main, login, sign up, the personal
page, the password generator, notepads and clipboard, other clients
(`OtherClient`) and the end of a session on the server (`SessionEnds`). At the
start no two users have the same name (`zinpass-schema.sql:24`). `notice` is a history
variable: the last message box, of which form, whether it told of a success, and
what that form had sent.

Simplifications: sorting reverses the table; a search has at most one
condition; the windows that are not modal stay open; the highlighting of a row,
which the deletion asks for, is no guard, since it does not tell which row goes;
a login without an answer changes nothing; option 1 of the deletion guide never
has a phone to replace the one deleted, as the code passes -1.

### MC modules and proof modules

`MC...` modules give the constants values and symmetry sets. `...Proofs` modules hold the theorems. Operators called
"Mutated form of ..." are deliberately wrong variants of the definition below
them, as a plausible bug would be, with which the sensitivity of the properties
is tested; no specification uses them.

## 4. Runs

Passing:

| Run | Instance | What it shows |
| --- | --- | --- |
| `vault` | 2 users on 2 threads, one of whom changes the key, up to twice, and writes, while the passwords are fetched and the other user adds and deletes; 2 accounts, 2 keys; writes and decryptions of the rotation, the SELECT of a fetch and the second statement of UpdateAccount may fail | `ImplementsVault`: statement by statement, the handlers are the abstract vault; `LossOnlyAfterReport`, `StaleOnlyIfReported` (the two phases of a key change leave no account behind in silence); `FetchExact` (garbage only when a key change overlaps the fetch). |
| `vault_crash` | 1 thread with every RPC and 1 that renames and deletes for the same user, 2 accounts, 2 keys and the empty one, 2 passwords, failing statements, crashes | `PasswordIntact`: a key change that is cut off or fails half-way destroys nothing; `KeyProvenance`, `ReplyAccounting`, the types; `KeysOnlyReturn`: what a rename that overlaps a key change writes back is at worst an earlier key. |
| `pool` | 3 connections, 4 threads, 2 of them nesting | type, `Exclusive`, `Conserved`, `NoLostWakeup`, `PoolRefills`, `ImplementsLeases`. |
| `session` | 2 users, 2 sessions, 2 threads, 7 ticks, timeout 1, a clock that is put forward by 2 at tick 1 and back at tick 5 | `LifetimeKept`, `NeverRevived`, `OnBehalfOfOwner`, `EventuallyPurged`. |
| `phones` | 2 users, 2 threads, 1 account, 2 phones and the id -1 that names none, modes 0, 1, 3, failures and crashes | `ReferencesValid`, `NoOverwrite`, `OthersUntouched`, `LateBindingsOnly`. |
| `daemon` | 4 configuration files, 3 database paths, both servers, one `zinpassctl`, one client, one purge per process, 2 messages behind, deaths and restarts without a bound | The log (`LogConserved`, `LogNoLostWakeup`, `LogDrains`) and the process around it: `HandlersOutlived`, `LastWords`, `EmptyOnlyIfDamaged`, `AllOrNothing`, and `StopStops`, that Shutdown ends the process. |
| `desktop` | 2 users, 4 accounts (3 to start with, one bound to another and to a phone), 2 phone ids, 3 phones in all, up to 3 calls that write, failing calls, lost answers, another client, sessions that end | `OnlyOwnData`, `UntouchedKept`, `ActsOnWhatItNames`, `SavedOrGone`, `ShownOnlyWhileCounting`. |

Why the bounds are enough. The bad interleavings of the vault need one handler
in the middle of a key change and another statement, so two threads; two
accounts let one be passed by the loop and the other not; two keys and two
changes let the second one, back to the first key, run over what the first one left. Two users suffice to tell an owner
from somebody else. In the pool, three connections and two nesting callers leave
one connection to circulate while both nest, and four threads let one barge in
front of two sleepers. The sessions need an expiry, a purge and a second login
after it, and sessions that begin and end on either side of both changes of the
clock: two ids and seven ticks. A shift of twice the timeout lets a session end in
summer, be refused, and be accepted again when the clock goes back; the bounds
that `LifetimeKept` and `NeverRevived` state are reached. The daemon needs a death at every point and a
start after it, which it has without a bound, a second server that goes on alone
and one round of the detached worker at the worst moment. The desktop needs two
users with rows of the same text, an account bound to another, and an id of a
phone that is used again: `MCHabits` says, for every combination of forms that
share state, how many calls the user makes; the combinations that share none are
not multiplied. Two phones and one account that moves between them let an id be used
again, and a reference be made, while a deletion is under way. Mode 2 of a deletion does what mode 0 does with no
references; it is in the run `phones_replace`.

`vault` and `vault_crash` restrict which statements fail and what overlaps. That is
where the limits of the code are: with a failing SELECT inside the rotation the
text "查询目标不存在" is re-encrypted as if it were the password
(`account_mgr.cpp:107-110` and `405-409`), and with a second handler that writes
ciphertexts or the user row of the same user the rotation loses updates (the findings).
Fetches overlap a rotation in `vault`, deletions in both runs, renames in `vault_crash`. `CHECK_DEADLOCK FALSE`
in `session`: the renewing overload takes the mutex a second time and everything
stops, time included at the bound `MaxTime`; in `desktop`: the user may leave the client.

The exceptions that the properties of `desktop` name are what the code does: an
e-mail account whose category is changed is not offered any more, nor is a number
or an address of another user, and the next
edit of an account bound to it unbinds it in silence (`dlg_edit_account.cpp:193`); an
address that is gone is stored as none; saving the personal form
before its first refresh stores empty names (`personal_mgr_form.cpp:131`). `UserRPC`
takes every answer for a success (`user_rpc.cpp:44`, `77`), so the personal form and
the sign-up dialog report success for a name that is taken, and the personal form
for a session that is over: `SavedOrGone` names these cases and requires that
nothing has been changed in them.

Violations, each with the line it contradicts:

| Run | Property | What the code does |
| --- | --- | --- |
| `vault_rotate_create` | `PasswordIntact` | An account created with the new key before the rotation lists the ids is decrypted with the old key and overwritten with garbage; the reply counts it as a success. |
| `vault_rotate_rename` | `KeyChangeVerified` | A rename that read the user row before a key change writes the old key back. |
| `pool_nested` | `AddReturns` | As many CreatePhone calls as connections wait for one another for ever. |
| `session_summer` | `ExactLifetime` | In summer a session lives an hour longer. |
| `phones_replace` | `DeletedMeansGone` | Mode 1 answers that the phone was deleted and deletes none. |

Known divergences without a run: DeleteSession ends no session; the renewing
overload of `validate_session_and_get_user_id` blocks for ever (`session_mgr.cpp:133`;
no caller); `UpdateMainKey` with an empty new key stores it and re-encrypts
nothing (`account_mgr.cpp:390`; the desktop client refuses it); `success_count`
counts rows that were deleted meanwhile; a dialog that is opened for another account still holds the password
that was typed for the last one (`dlg_edit_account.cpp:274`) and saves it there.

## 5. Fairness

- `VaultService`: `FairSpec` states weak fairness of the steps of each handler
  thread (gRPC gives an accepted call a thread and no handler waits for another
  one's step); no property needs it at present.
- `ConnectionPool`: weak fairness of each thread's `GetConnection`,
  `ReleaseConnection` and `NotifyOne`: the scheduler runs whoever can run, but
  nothing orders the competitors for the mutex, so a single caller may starve
  and only `PoolRefills` is claimed. `pool_nested` uses a stronger assumption,
  strong fairness of getting a connection, to show that its deadlock is not
  a matter of scheduling.
- `SessionMgr`: weak fairness of the clock, of the purging worker (its sleep
  always ends) and of handlers.
- `Daemon`: weak fairness of the main thread, the two server threads, the log
  worker, the notifications and the handlers that run: the operating system
  lets every thread go on and every handler ends. Nothing is assumed about
  `daemonize`, new calls, the detached worker, spurious wakeups or deaths.
  `StopStops` needs all of it: the servers poll the flag, wait for their
  handlers and are joined, and the destructor of the log joins its worker.
- `Phones` and `Desktop` have no liveness property and no fairness: a user need
  not do anything.

## 6. Proofs

All theorems hold for every value of the constants that satisfies the named
assumptions `ConstantsOK`, `PoolAssumption`, `LeaseAssumption`,
`SessionAssumption`, `PhonesAssumption`, `LogAssumption`, `ConfigAssumption`,
`DaemonAssumption`, `MessagesAssumption`, `RowsAssumption`, `ClientAssumption`,
`AccountFormsAssumption` and `DesktopAssumption`, which say only that the symbols
for "nothing" differ from the values, what the types of the parameters are, and
which sets are finite. Every other hypothesis is in the theorem that needs it.
Every invariant and every action property without fairness that a passing run
checks is a theorem, the two refinements included.

### Vault

- `VaultServiceProofs!TypeCorrect`: `TypeOK` is not inductive; what is, is
  `TypeOK` with `HandlerInv`, which says that a thread at a statement has a
  request of the RPC the statement belongs to and that the user exists.
- `VaultServiceProofs!KeyProvenanceHolds`: the strengthening says of every handler
  that has passed its check that the key it is about to encrypt with has been a
  key of its user (`HandlerKeys`), of every user row that its key is in the
  history (`RowKeys`), and of a copy of a row in the hands of UpdateUser
  that its key is there too: this is why the lost update of a rename,
  although it restores an old key, makes no ciphertext with an unknown one.
- `VaultServiceProofs!ReplyAccountingHolds`: at every statement of the loop the
  ids listed are the disjoint union of what is left, what succeeded and what
  failed; a reply is made when nothing is left.
- `VaultServiceProofs!KeysOnlyReturnHolds` follows from the same strengthening, with
  no hypothesis: it is what is left of `KeyChangeVerified`, which
  `vault_rotate_rename` violates, when handlers of one user overlap in any way.
- `VaultRefinementProofs`: what the code promises its clients it keeps only if a
  key change overlaps no other handler that writes ciphertexts or the user row of
  the same user (`KeyChangesAlone`). Fetches and deletions of the same user, and
  all calls of other users, overlap it at every statement; the writers overlap one
  another as long as none of them changes the key. The violation runs
  `vault_rotate_create` and `vault_rotate_rename` show why the condition is
  needed: with it dropped, a password is destroyed and an old key comes back. Under
  it, what a handler has read of the user row is still there when it writes
  (`CurrentKey`).
- The theorems about rotations add `RotationCompletes`: a rotation is not cut off by a
  crash, the new key is not empty, and the two SELECTs it relies on succeed. Without
  any of the three an account keeps its old key and no reply says so, in the code
  as in the model. `SerialInv` then says where each account stands:
  the rotation of its owner has passed it, and it is under the new key; or it has
  not, and it is under the old one, which the handler still holds, and it is listed
  (`RotationInv`); or no rotation is under way, and it is under the key of
  the row (`SettledInv`); or a reply has named it. From it follow
  `LossOnlyAfterReportHolds`, `StaleOnlyIfReportedHolds`, `FetchExactHolds` (whose
  fetches may fail and may overlap the rotation: the answer is then an error text or
  garbage, and garbage only in the latter case) and
  `VaultImplemented`: every statement is a step of `Vault` or a stutter, by one
  lemma per statement that says what it does to one account.
- `PasswordIntactHolds` allows crashes at any point, failing writes, the empty key,
  and renames that overlap (`ChangesAlone(PwdWriters)`), and bounds the key changes
  of a user by one: until its first
  change the user has had one key, so that what a rotation decrypts is what was
  stored (`OnceInv`). A second change over what a crash left behind decrypts with
  a key that the account never had and stores the result. A SELECT of a ciphertext
  that fails in the rotation is left out (`"reRead" \notin Failable`): its error text
  would be stored.
- The run `vault` satisfies the hypotheses `KeyChangesAlone` and
  `RotationCompletes`, the run `vault_crash` those of `PasswordIntactHolds`: the
  theorems are not about no behaviour.

### Pool, sessions, phones

- `ConnectionPoolProofs`: `PoolTypeOK`, `Exclusive` and `Conserved` follow one
  from the other; `NoLostWakeup` by counting: releasing adds one connection and
  one thread at `notify`, `notify_one` turns that thread into a woken one, and a
  woken thread stops being one only by taking a connection or by finding the
  queue empty. Spurious wakeups only help. `LeasesImplemented`: by `Exclusive`
  a connection has at most one holder, so that the mapping's choice of a lessee is
  the holder, and every step moves one connection between a holder and the queue
  or leaves the leases alone.
- `SessionMgrProofs`: `OnBehalfOfOwner` needs that ids are not given twice, so
  that owner and session agree for as long as a handler runs. `LifetimeKept`
  and `NeverRevived` are proved for any `Summer` and `Shift`. What the code keeps in
  a session is the digits the clock will show when its time is over (`Ends`), and
  `TimeInv` says that a session that is there has them, that one that is gone had been
  shown them, and that they had been shown when it was refused; the rest is what
  the two readings of the clock may differ by. The exact lifetime is one conjunct
  of `LifetimeKept`: it holds where the clock is not ahead between the two ends;
  `ExactLifetime`, which claims it everywhere, is violated in `session_summer`.
- `PhonesProofs`, for any number of users, phones, accounts and threads and any
  failures: `PhonesInv` adds to the types and `ReferencesValid` that a handler
  carries the request its statement belongs to (`RequestsMatch`), that the ids
  suffice for every creation under way, so that `generate_id` finds one
  (`IdsSuffice`, the bound of the model, by counting), and what a deletion knows:
  whoever is about to delete a phone that it counted no reference to has noted
  every account bound to it since (`LateOnesNoted`). `NoOverwrite` follows because
  the INSERT takes no id that is in use; `OthersUntouched` and
  `LateBindingsOnly` from what each statement may do.

### Log and daemon

- `LogManagerProofs`: `LogConserved` with the types is inductive;
  `LogNoLostWakeup` is inductive by itself once it is stated as it is: whoever
  has pushed or stopped stays in `notifying` until the worker is awake, and the
  worker falls asleep only in the critical section in which it has found nothing.
- `DaemonProofs!DaemonImplementsLog`: every step of `Daemon` is a step of
  `LogManager` or leaves its variables alone, so that its theorems hold of the
  daemon (`DaemonLogs`). The other theorems rest on `DaemonInv`, the
  conjunction of `LogInv`, the types, `LastWords` and what the stages of the main
  thread mean: which of them have a pool, which have servers, and in which the
  server threads are over (`StageInv`); that the pool and an unreadable file agree
  with the members (`ConfigInv`); that a creation that failed is remembered until
  the next stage has opened the file (`DamageInv`); and that `stop()` is the last
  thing the main thread does (`StopInv`), which is why only the detached worker
  can still log once the queue has been drained.

### Desktop client

- `DesktopProofs`, for any users, names, numbers, ids and habits, with any other
  clients, failing calls and ends of sessions. `DesktopInv` has one part per group
  of variables (the tables, the session, the tools, the table of accounts, the
  edit dialog, the page of phones, the modal dialog) and the parts of
  `OnlyOwnData`. What it adds to the types is what the forms rely on: the
  viewer is the row chosen until the table is sorted; a widget that is not touched
  shows what the fill put there; a confirmation names what was chosen; an
  untouched name is the one that was brought.
- Most steps leave most parts alone, so the actions are grouped by the variables
  they leave unchanged (lemma `Steps`), and each part has one lemma per group that
  disturbs it. `Follows` is what any handler may make of the tables: owners stay,
  and a phone that stands under the id of another one is younger (`birth`); with
  it, what a form shows of a user is never of somebody else when other clients
  act. The step from one user to the next goes through `FormsGone`: a workbench
  that is left takes its forms with it.
- `ActsOnWhatItNamesHolds` goes through every step that can take a row away;
  `UntouchedKeptHolds` follows each field from the fill through the widget, the
  request, the lookup of numbers and addresses and the row; `SavedOrGoneHolds` goes
  through every form that reports a success, from what a handler that answers
  success has done, and for the two forms of `UserRPC` from what it has done or
  refused.

### Only model-checked

- Liveness under fairness (`PoolRefills`, `EventuallyPurged`, `StopStops`): the
  proof system has no support for ENABLED.
- The properties of the violation runs, which the code does not have:
  `PasswordIntact` when a creation overlaps a key change, `KeyChangeVerified`,
  `AddReturns`, `ExactLifetime`, `DeletedMeansGone`.

## 7. Not modelled

- Dead code: session persistence, the methods without a caller
  (`remove_user`, `add_account`, `re_encrypt_password`, `update` and
  `get_session` of the session manager, the `update...` variants of
  `AccountDAO`, a change of owner of a phone, the logout stub).
- Columns that are neither key, owner, reference nor a text a property is about;
  message texts, except the one that takes the place of a password; time stamps.
- Key derivation (two main keys may give the same AES key only if a hash
  collides); SQLite itself, which is assumed to execute a statement atomically
  and durably or to report a failure; gRPC and Qt, from which only the behaviour
  the code relies on is taken (marked external in the map).
- Windows: `main_windows.cpp` is `main_linux.cpp` without `daemonize`.
- The desktop client's form that changes the main key (its handler is in
  `VaultService`), its pages and menu entries that are stubs, `UuidGenDlg`, whose
  loop is commented out, layout, fonts and themes; `save_as` and the command line
  mode of the password generator.
- `zinpassctl`'s prompt and texts; telecom operators; the build.
