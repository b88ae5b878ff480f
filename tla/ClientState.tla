------------------------------ MODULE ClientState ------------------------------
(***************************************************************************)
(* What the windows of the desktop client share: the user StateManager      *)
(* holds, the window that is up, the modal dialog run by exec(), the last   *)
(* message box, and the ways a remote call can end.  A slot of a window is  *)
(* one step: it blocks the event loop until its calls have returned.        *)
(***************************************************************************)
EXTENDS AccountRows, Sequences, SequencesExt

CONSTANTS LoginNames,
          CallFaults, \* how a call that writes can end besides its answer
          ReadFaults, \* the sets of calls that can fail when a dialog is filled
          Habits      \* bounds: what a user may do of all there is (the parts of
                      \* the program), how many calls that write he makes, and how
                      \* many changes other clients make meanwhile

Parts == {"list", "filter", "edit", "fields", "password", "add", "delete", "expose", "phones",
          "personal", "relogin", "signup", "tools", "expiry"}
Reads == {"phones", "emails", "categories", "view"}

ASSUME ClientAssumption ==
  /\ CallFaults \subseteq {"failed", "lost"}
  /\ ReadFaults \subseteq SUBSET Reads
  /\ Habits \subseteq [parts : SUBSET Parts, calls : Nat, others : Nat]
  /\ Blank \notin LoginNames /\ None \notin LoginNames

VARIABLES
  username,   \* username[u]: system_user.username of u, None before u exists
  user_state, \* StateManager::user_state_: whose session, None for an empty one
  expired,    \* the server has forgotten that session
  stage,      \* the window: "login", "signup", "workbench"; "ended"
  modal,      \* the dialog in exec() over the workbench
  notice,     \* the last message: which form gave it, whether it says success,
              \* how many calls that write there have been; history, sent: what
              \* the call that it says succeeded has sent, of a form that does
              \* not keep it
  clipboard,
  habit       \* one of Habits

clientVars == <<username, user_state, expired, stage, modal, notice, clipboard, habit>>

NoModal == [kind |-> "none"]

\* The users there are when the program starts: their names are unique.
InitClient ==
  /\ username \in [Users -> LoginNames \cup {Blank, None}]
  /\ \A u, v \in Users : username[u] = username[v] => u = v \/ username[u] = None
  /\ habit \in Habits /\ user_state = None /\ expired = FALSE
  /\ stage = "login" /\ modal = NoModal /\ clipboard = Blank
  /\ notice = [form |-> "none", told |-> FALSE, sent |-> None, nr |-> 0]

ClientTypeOK ==
  /\ username \in [Users -> LoginNames \cup {Blank, None}]
  /\ user_state \in Users \cup {None} /\ expired \in BOOLEAN
  /\ stage \in {"login", "signup", "workbench", "ended"}
  /\ modal.kind \in {"none", "delete", "expose", "remove", "guide"}
  /\ notice.told \in BOOLEAN /\ notice.nr \in 0 .. habit.calls

\* The user an RPC is carried out for: validate_session_and_get_user_id.
Caller == IF expired THEN None ELSE user_state

\* The user can use the forms of the workbench.
Idle == stage = "workbench" /\ modal = NoModal
-------------------------------------------------------------------------------
\* How a call that reads S can end: it is answered, or it fails and leaves the
\* form with nothing.
Answered(S) == {S} \cup IF CallFaults = {} THEN {} ELSE {{}}

\* How a call that writes can end: it is answered, it fails before it is
\* carried out, or its answer is lost.
Called(results) ==
  {[told |-> r.ok, made |-> r] : r \in results}
  \cup IF "failed" \in CallFaults THEN {[told |-> FALSE, made |-> Same]} ELSE {}
  \cup IF "lost" \in CallFaults THEN {[told |-> FALSE, made |-> r] : r \in results} ELSE {}

\* AccountRPC, CategoryRPC.  What fills the combo boxes is called with the user
\* u, who is just logging in when the forms are built.
rpc_list_email_addresses(u, failed) == IF "emails" \in failed THEN {} ELSE ListEmailAddresses(u)
rpc_list_categories(u, failed) == IF "categories" \in failed THEN {} ELSE ListNameOfCategories(u)
rpc_list_account_by_id(i, failed) == IF "view" \in failed THEN BlankView ELSE ListAccountById(Caller, i)
rpc_list_accounts(filter) == Answered(ListAccounts(Caller, filter))
rpc_add_account(v, pwd, right) == Called(CreateAccount(Caller, v, pwd, right))
rpc_update_account(i, v, pwd, right) == Called(UpdateAccount(Caller, i, v, pwd, right))
rpc_remove_account(i, right) == Called(DeleteAccount(Caller, i, right))
rpc_fetch_password(i, gone) == {FetchPassword(Caller, i, right, gone) : right \in BOOLEAN} \cup {Blank}

\* PhoneRPC.  A count that does not arrive is 0.
rpc_list_phone_numbers(u, failed) == IF "phones" \in failed THEN {} ELSE ListPhoneNumbers(u)
rpc_list_phones(table, n) == Answered(ListPhone(table, Caller, n))
rpc_find_phone_by_id(p) == Answered(FindPhoneById(Caller, p))
rpc_get_reference_count(p) == {GetReferenceCount(Caller, p)} \cup IF CallFaults = {} THEN {} ELSE {0}
rpc_add_phone(n) == Called(CreatePhone(Caller, n))
rpc_update_phone_by_id(p, n) == Called(UpdatePhone(Caller, p, n))
rpc_delete_phone_by_id(p, mode) == Called(DeletePhone(Caller, p, mode))
-------------------------------------------------------------------------------
\* UserService.  Names are unique.
TakenNames == {username[u] : u \in Users} \ {None}
CreateUser(u, name) == IF name \in TakenNames THEN username ELSE [username EXCEPT ![u] = name]
UpdateUser(u, name) ==
  IF u = None \/ \E v \in Users \ {u} : username[v] = name THEN username
  ELSE [username EXCEPT ![u] = name]
GetUser(u) == IF u = None THEN {} ELSE {u}

\* UserRPC takes whatever is answered for a success, also that the session is
\* not valid or that the name is taken.
UserCalled(table) ==
  {[told |-> TRUE, names |-> table]}
  \cup IF "failed" \in CallFaults THEN {[told |-> FALSE, names |-> username]} ELSE {}
  \cup IF "lost" \in CallFaults THEN {[told |-> FALSE, names |-> table]} ELSE {}

rpc_list_usernames == Answered(TakenNames)
rpc_get_user == Answered(GetUser(Caller))
rpc_register_account(u, name) == UserCalled(CreateUser(u, name))
rpc_update_user(name) == UserCalled(UpdateUser(Caller, name))
-------------------------------------------------------------------------------
\* The texts the combo boxes offer u, Blank for the entry "none", when the calls
\* in failed have failed.
Options(u, failed) ==
  [phone    |-> {Blank} \cup rpc_list_phone_numbers(u, failed),
   email    |-> {Blank} \cup rpc_list_email_addresses(u, failed),
   category |-> rpc_list_categories(u, failed)]

NoOptions == [phone |-> {Blank}, email |-> {Blank}, category |-> {}]

MayCall == notice.nr < habit.calls

\* The call has been made and its outcome is shown by the form.
ShownOf(form, sent, call) ==
  /\ account' = call.made.account /\ phone' = call.made.phone /\ births' = call.made.births
  /\ notice' = [form |-> form, told |-> call.told, sent |-> IF call.told THEN sent ELSE None,
                nr |-> notice.nr + 1]
Shown(form, call) == ShownOf(form, None, call)
===============================================================================
