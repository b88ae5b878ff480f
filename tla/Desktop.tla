-------------------------------- MODULE Desktop --------------------------------
(***************************************************************************)
(* The desktop client: main's loop of login dialogs and workbenches, the    *)
(* pages of MainWorkbench, its tools, and whoever else uses the daemon      *)
(* meanwhile.  The pages are built at a login and destroyed by the next;    *)
(* StateManager, the clipboard and the notepads are not.                    *)
(***************************************************************************)
EXTENDS AccountForms, PhoneForms

CONSTANTS Generated,  \* a password of the generator
          BuildFaults \* the sets of calls that can fail when a workbench is built

ASSUME DesktopAssumption ==
  BuildFaults \subseteq SUBSET Reads /\ Generated \notin Pwds \cup {Blank, Gone}

VARIABLES
  usernames, \* the entries of LoginDlg::combo_username_
  personal,  \* member: PersonalMgrForm::username_; text: of e_username_; known,
             \* touched: history, a refresh has succeeded, the text is changed
  pwd_gen,   \* PwdGenDlg: passwords_ and the text of the editor
  notepads,  \* the users who opened the notepads that exist
  others     \* how many changes other clients have made

toolVars == <<personal, pwd_gen>>
ownVars == <<usernames, toolVars, notepads, others>>
vars == <<rowVars, clientVars, accountVars, phoneVars, ownVars>>

NewPersonal == [member |-> Blank, text |-> Blank, known |-> FALSE, touched |-> FALSE]
NewPwdGen == [passwords |-> Blank, editor |-> Blank]

\* setup_ui and the four page inits of a new MainWorkbench of u; of no one,
\* what is left when it is deleted.
Workbench(u, failed) ==
  /\ acc_mgr' = NewAccountMgrForm(u, failed)
  /\ dlg_add' = NewDialogAdd(u, failed) /\ dlg_edit' = NewDialogEdit
  /\ phone_mgr' = NewPhoneMgrForm(u, failed) /\ detail' = NewPhoneDetail
  /\ personal' = NewPersonal /\ pwd_gen' = NewPwdGen

NoForms ==
  /\ acc_mgr = NewAccountMgrForm(None, {}) /\ dlg_add = NewDialogAdd(None, {})
  /\ dlg_edit = NewDialogEdit
  /\ phone_mgr = NewPhoneMgrForm(None, {}) /\ detail = NewPhoneDetail
  /\ personal = NewPersonal /\ pwd_gen = NewPwdGen

\* main before its loop: the login dialog has listed the users, or failed to.
InitDesktop ==
  /\ RowsTypeOK /\ InitClient /\ NoForms
  /\ usernames \in rpc_list_usernames
  /\ notepads = {} /\ others = 0

DesktopTypeOK ==
  /\ RowsTypeOK /\ ClientTypeOK /\ AccountFormsTypeOK /\ PhoneFormsTypeOK
  /\ usernames \subseteq LoginNames \cup {Blank} /\ notepads \subseteq Users
  /\ personal.text \in LoginNames \cup {Blank}
  /\ modal.kind \in {"delete", "expose"} => modal.id \in AccountIds
  /\ clipboard \in Pwds \cup {Blank, Gone, Generated}
-------------------------------------------------------------------------------
\* A refused login is stored too, with an empty session; one without an answer
\* changes nothing.
on_btn_login_clicked(name, right) ==
  /\ stage = "login" /\ name \in usernames
  /\ expired' = FALSE
  /\ LET who == {u \in Users : right /\ username[u] = name}
     IN  \/ who = {} /\ user_state' = None /\ UNCHANGED <<stage, accountVars, phoneVars, toolVars>>
         \/ \E u \in who, failed \in BuildFaults :
              user_state' = u /\ stage' = "workbench" /\ Workbench(u, failed)
  /\ UNCHANGED <<tables, username, modal, notice, clipboard, habit, usernames, notepads, others>>

on_btn_signup_clicked ==
  /\ "signup" \in habit.parts /\ stage = "login" /\ stage' = "signup"
  /\ UNCHANGED <<rowVars, username, user_state, expired, modal, notice, clipboard, habit, accountVars, phoneVars, ownVars>>

\* The outcome of a call about a user is shown by the form.
Named(form, sent, call) == /\ username' = call.names
                           /\ ShownOf(form, sent, [told |-> call.told, made |-> Same])

\* SignupDlg::on_btn_submit_clicked with a valid form.
register(u, name) ==
  /\ stage = "signup" /\ username[u] = None /\ MayCall
  /\ \E call \in rpc_register_account(u, name) : Named("sign up", name, call)
  /\ UNCHANGED <<user_state, expired, stage, modal, clipboard, habit, accountVars, phoneVars, ownVars>>

\* The dialog is left: refresh_combo_username.
leave_signup ==
  /\ stage = "signup" /\ stage' = "login" /\ usernames' \in rpc_list_usernames
  /\ UNCHANGED <<rowVars, username, user_state, expired, modal, notice, clipboard, habit, accountVars, phoneVars,
                 toolVars, notepads, others>>

\* MainWorkbench::close_this, "log in again": the workbench is deleted, the
\* state of StateManager stays.
relogin ==
  /\ "relogin" \in habit.parts /\ Idle /\ stage' = "login" /\ Workbench(None, {})
  /\ UNCHANGED <<rowVars, username, user_state, expired, modal, notice, clipboard, habit,
                 usernames, notepads, others>>

quit ==
  /\ stage = "login" \/ Idle
  /\ stage' = "ended" /\ Workbench(None, {}) /\ notepads' = {}
  /\ UNCHANGED <<rowVars, username, user_state, expired, modal, notice, clipboard, habit, usernames, others>>
-------------------------------------------------------------------------------
\* PersonalMgrForm.  A refresh that fails puts back what the last one brought.
refresh_personal ==
  /\ Idle
  /\ \E got \in rpc_get_user :
       personal' \in IF got = {} THEN {[personal EXCEPT !.text = personal.member, !.touched = FALSE]}
                     ELSE {[member |-> username[u], text |-> username[u], known |-> TRUE, touched |-> FALSE] : u \in got}
  /\ UNCHANGED <<rowVars, clientVars, accountVars, phoneVars, usernames, pwd_gen, notepads, others>>

type_username(name) ==
  /\ Idle /\ personal' = [personal EXCEPT !.text = name, !.touched = TRUE]
  /\ UNCHANGED <<rowVars, clientVars, accountVars, phoneVars, usernames, pwd_gen, notepads, others>>

\* The message box says success also for an invalid session or a name that is
\* taken (update_user).
on_btn_save_clicked ==
  /\ Idle /\ MayCall
  /\ \E call \in rpc_update_user(personal.text) : Named("personal", None, call)
  /\ UNCHANGED <<user_state, expired, stage, modal, clipboard, habit, accountVars, phoneVars, ownVars>>
-------------------------------------------------------------------------------
\* PwdGenDlg: the passwords of the last run go first; with no kind of character
\* chosen none are made, and the editor keeps the old ones.
on_btn_begin_clicked ==
  /\ Idle
  /\ pwd_gen' \in {[passwords |-> Generated, editor |-> Generated], [pwd_gen EXCEPT !.passwords = Blank]}
  /\ UNCHANGED <<rowVars, clientVars, accountVars, phoneVars, usernames, personal, notepads, others>>

on_btn_copy_pwds_clicked ==
  /\ Idle /\ clipboard' = pwd_gen.passwords
  /\ UNCHANGED <<rowVars, session, modal, notice, accountVars, phoneVars, ownVars>>

on_btn_clear_clicked ==
  /\ Idle /\ pwd_gen' = [pwd_gen EXCEPT !.editor = Blank]
  /\ UNCHANGED <<rowVars, clientVars, accountVars, phoneVars, usernames, personal, notepads, others>>

\* onTmpNotepad: a window without a parent.
onTmpNotepad ==
  /\ Idle /\ notepads' = notepads \cup {user_state}
  /\ UNCHANGED <<rowVars, clientVars, accountVars, phoneVars, usernames, toolVars, others>>
-------------------------------------------------------------------------------
\* Another client of the daemon, with whoever's session and key.
Gets(results) == \E made \in results : account' = made.account /\ phone' = made.phone /\ births' = made.births
OtherClient ==
  /\ others < habit.others /\ others' = others + 1
  /\ \/ \E i \in {j \in AccountIds : Exists(j)} :
          \/ Gets(DeleteAccount(account[i].owner, i, TRUE))
          \/ \E n \in Names, c \in Categories :
               Gets(UpdateAccount(account[i].owner, i, [View(i) EXCEPT !.username = n, !.category = c], Blank, TRUE))
     \/ \E p \in PhoneIds \ FreePhones : Gets(DeletePhone(phone[p].owner, p, 2))
     \/ FreePhones # {} /\ births < MaxBirths /\ \E u \in Users, n \in Numbers : Gets(CreatePhone(u, n))
  /\ UNCHANGED <<clientVars, accountVars, phoneVars, usernames, toolVars, notepads>>

\* The session is purged, or the daemon has been restarted.
SessionEnds ==
  /\ "expiry" \in habit.parts /\ user_state # None /\ ~expired /\ expired' = TRUE
  /\ UNCHANGED <<rowVars, username, user_state, stage, modal, notice, clipboard, habit, accountVars, phoneVars, ownVars>>
-------------------------------------------------------------------------------
Uses(part) == part \in habit.parts

AccountStep ==
  \/ Uses("list") /\ \/ list_accounts(<<>>) \/ \E n \in DOMAIN acc_mgr.table : on_table_view_item_clicked(n)
  \/ Uses("filter") /\ (refresh_filter \/ sort_table \/ \E filter \in Filters : list_accounts(filter))
  \/ Uses("add") /\ (refresh_add \/ submit_add)
  \/ Uses("edit") /\ \/ on_btn_detail_and_edit_clicked \/ refresh_edit \/ read_only \/ submit_edit
  \/ Uses("fields") /\ \E f \in Fields : \E v \in Offered(f) : type_field(f, v)
  \/ Uses("password") /\ \E pwd \in Pwds \cup {Blank}, key \in {Blank, "right", "wrong"} : type_password(pwd, key)
  \/ Uses("delete") /\ (open_delete \/ \E right \in BOOLEAN : on_btn_confirm_clicked(right))
  \/ Uses("expose") /\ \/ on_btn_read_passwd_clicked \/ on_btn_read_clicked
                           \/ on_btn_copy_clicked \/ update_button
  \/ cancel_modal

PhoneStep ==
  /\ Uses("phones")
  /\ \/ refresh_phone_filter \/ submit_phone_filter \/ submit_add_phone
     \/ \E row \in phone_mgr.table : on_phone_clicked(row)
     \/ refresh_detail \/ edit_phone \/ submit_phone
     \/ \E n \in Numbers \cup {Blank} : type_number(n)
     \/ on_btn_delete_phone_clicked \/ remove_phone
     \/ \E option \in 0 .. 3 : on_btn_ok_clicked(option)

OwnStep ==
  \/ \E name \in usernames, right \in BOOLEAN : on_btn_login_clicked(name, right)
  \/ on_btn_signup_clicked \/ leave_signup \/ \E u \in Users, name \in LoginNames : register(u, name)
  \/ relogin \/ quit
  \/ Uses("personal") /\ \/ refresh_personal \/ on_btn_save_clicked
                             \/ \E name \in LoginNames \cup {Blank} : type_username(name)
  \/ Uses("tools") /\ (on_btn_begin_clicked \/ on_btn_copy_pwds_clicked \/ on_btn_clear_clicked \/ onTmpNotepad)
  \/ OtherClient \/ SessionEnds

NextDesktop ==
  \/ AccountStep /\ UNCHANGED <<phoneVars, ownVars>>
  \/ PhoneStep /\ UNCHANGED <<accountVars, ownVars>>
  \/ OwnStep

DesktopSpec == InitDesktop /\ [][NextDesktop]_vars
-------------------------------------------------------------------------------
\* A form shows nothing of anyone but the user logged in, and no form is left
\* when no one is (the comment in main.cpp asks for this; the notepads and the
\* clipboard are what remains).
OnlyOwnData ==
  /\ stage # "workbench" => NoForms /\ modal = NoModal
  /\ \A i \in {acc_mgr.table[n] : n \in DOMAIN acc_mgr.table} \cup {dlg_edit.id} \cup
              (IF modal.kind \in {"delete", "expose"} THEN {modal.id} ELSE {}) :
       i # None => account[i] # None /\ account[i].owner = user_state
  /\ \A row \in phone_mgr.table \cup {detail} :
       row.id \in PhoneIds /\ phone[row.id] # None /\ phone[row.id].birth = row.birth
         => phone[row.id].owner = user_state

\* What a step has made of the account i, its address as it was before.
Stored(i) == [username |-> account'[i].username, category |-> account'[i].category,
              phone |-> IF account'[i].phone = None THEN Blank ELSE phone'[account'[i].phone].number,
              email |-> IF account'[i].email = None THEN Blank ELSE account[account'[i].email].username]

\* The edit dialog submits every field: one the user has not touched is left as
\* it was, if every call of the fill was answered and the account is still what
\* was shown.  The exceptions: a number or an address that the boxes do not
\* offer, because it is not one of the user's own, and an address whose account
\* is no longer of the category e-mail.  Without a password typed, the password
\* stays.  The same for the name in the personal form, once it has been
\* refreshed.
UntouchedKept ==
  [][/\ notice'.nr # notice.nr /\ notice'.form = "edit" /\ Exists(dlg_edit.id) =>
          LET i == dlg_edit.id
          IN  /\ dlg_edit.failed = {} /\ dlg_edit.base = View(i) =>
                   \A f \in Fields \ dlg_edit.touched :
                     \/ Stored(i)[f] = View(i)[f]
                     \/ f \in {"phone", "email"} /\ dlg_edit.base[f] \notin dlg_edit.options[f]
                     \/ f = "email" /\ EmailByAddress(dlg_edit.base.email) = {None}
              /\ dlg_edit.password = Blank => account'[i].pwd = account[i].pwd
     /\ notice'.nr # notice.nr /\ notice'.form = "personal" /\ Caller # None /\ personal.known /\ ~personal.touched =>
          username'[Caller] \in {username[Caller], personal.member}]_vars

\* What the user destroys is what the client names: an account dies in a step
\* of the client only if the viewer named it when the user confirmed (and the
\* table was not sorted since), or it is the user's and was bound to the phone
\* that the guide is about; a phone only if the detail frame shows its id.
ActsOnWhatItNames ==
  [][others' = others =>
       /\ \A i \in {j \in AccountIds : Exists(j) /\ ~Exists(j)'} :
            \/ modal.kind = "delete" /\ modal.id = i /\ (acc_mgr.resorted \/ acc_mgr.viewer = i)
            \/ modal.kind = "guide" /\ modal.id = detail.id
               /\ account[i].phone = detail.id /\ account[i].owner = user_state
       /\ \A p \in PhoneIds : phone[p] # None /\ phone'[p] = None =>
            modal.kind \in {"remove", "guide"} /\ p = detail.id /\ phone[p].owner = user_state]_vars

\* Row i has been given the values v; a number or an address that is no longer
\* there is left out.
SavedAs(i, v) ==
  \A f \in Fields : \/ Stored(i)[f] = v[f]
                    \/ f = "phone" /\ PhoneByNumber(v.phone) = {None}
                    \/ f = "email" /\ EmailByAddress(v.email) = {None}

\* A form that reports success has saved what it sent, in one new row or in the
\* row it shows, unless that was not the user's any more; what it reports as
\* deleted is gone.  The exceptions are two forms about users: UserRPC takes
\* every answer for a success (user_rpc.cpp:44, 77), so that they report it as
\* well when the session is not valid or when the name is another user's, and
\* nothing has been saved then.
SavedOrGone ==
  [][notice'.nr # notice.nr /\ notice'.told =>
       /\ notice'.form = "edit" /\ dlg_edit.id \in Owned(Caller) =>
            /\ SavedAs(dlg_edit.id, dlg_edit.cur)
            /\ dlg_edit.password # Blank => account'[dlg_edit.id].pwd = dlg_edit.password
       /\ notice'.form = "add" =>
            \E i \in Unused : /\ Owned(Caller)' = Owned(Caller) \cup {i}
                              /\ SavedAs(i, notice'.sent.view) /\ account'[i].pwd = notice'.sent.pwd
       /\ notice'.form = "delete" => ~account'[modal.id].live
       /\ notice'.form = "add phone" =>
            \E p \in FreePhones : /\ PhonesOf(Caller)' = PhonesOf(Caller) \cup {p}
                                  /\ phone'[p].number = notice'.sent
       /\ notice'.form = "phone" /\ detail.id \in PhonesOf(Caller) => phone'[detail.id].number = detail.number
       /\ notice'.form = "delete phone" => detail.id \notin PhonesOf(Caller)'
       /\ notice'.form = "sign up" =>
            \E u \in Users : /\ username[u] \in {None, notice'.sent}
                             /\ username' = [username EXCEPT ![u] = notice'.sent]
       /\ notice'.form = "personal" =>
            \/ Caller # None /\ username'[Caller] = personal.text
            \/ /\ Caller = None \/ \E v \in Users \ {Caller} : username[v] = personal.text
               /\ username' = username]_vars

\* A password is on the screen only while the countdown that clears it runs.
ShownOnlyWhileCounting ==
  modal.kind = "expose" /\ modal.display # Blank => modal.countdown > 0
===============================================================================
