----------------------------- MODULE AccountForms -----------------------------
(***************************************************************************)
(* The account page of the workbench: the table of AccountMgrForm with its  *)
(* filter, DialogAddAccount, DialogEditAccount, DialogDeleteAccount and     *)
(* DialogExposedPwd.  The first three outlive what they show: their widgets *)
(* keep what the last answer put there.                                     *)
(***************************************************************************)
EXTENDS ClientState

CONSTANTS Gone,          \* the text FetchPassword answers for a row that is gone
          ExposeSeconds, \* the countdown of DialogExposedPwd (6 in the code)
          MaxTouched     \* bound: fields changed between two fills of the edit dialog

ASSUME AccountFormsAssumption ==
  /\ Gone \notin Pwds \cup {Blank} /\ ExposeSeconds \in Nat \ {0} /\ MaxTouched \in Nat

VARIABLES
  acc_mgr,  \* table: the ids in table_model_; row: row_of_table_view_; viewer:
            \* the id in coord_viewer_, or None; options: of the filter form;
            \* resorted: history, the header has been clicked since the last answer
  dlg_add,  \* the options of the add dialog
  dlg_edit  \* id: account_id_; base: the view it was filled with; cur: the
            \* widgets; failed, touched: history, the calls that failed at the
            \* fill and the fields changed since

accountVars == <<acc_mgr, dlg_add, dlg_edit>>
tables == <<account, phone, births>>
session == <<username, user_state, expired, stage, habit>>

\* The page and its dialogs as their constructors leave them for the user u,
\* when the calls in failed have failed.
NewAccountMgrForm(u, failed) ==
  [table |-> <<>>, row |-> 0, viewer |-> None, options |-> Options(u, failed), resorted |-> FALSE]
NewDialogAdd(u, failed) == Options(u, failed)
NewDialogEdit ==
  [id |-> None, base |-> BlankView, cur |-> BlankView, options |-> NoOptions, failed |-> {},
   touched |-> {}, readonly |-> TRUE, password |-> Blank, main_key |-> Blank]

AccountFormsTypeOK ==
  /\ acc_mgr.table \in Seq(AccountIds) /\ acc_mgr.row \in -1 .. MaxAccounts
  /\ acc_mgr.viewer \in AccountIds \cup {None}
  /\ dlg_edit.id \in AccountIds \cup {None} /\ dlg_edit.failed \subseteq Reads
  /\ dlg_edit.touched \subseteq Fields /\ DOMAIN dlg_edit.cur = Fields
  /\ dlg_edit.password \in Pwds \cup {Blank} /\ dlg_edit.main_key \in {Blank, "right", "wrong"}

\* The id in column 0 of the row; -1, left by the last deletion, has no item.
Chosen == IF acc_mgr.row + 1 \in DOMAIN acc_mgr.table THEN acc_mgr.table[acc_mgr.row + 1] ELSE None
-------------------------------------------------------------------------------
refresh_filter ==
  /\ Idle /\ \E failed \in ReadFaults : acc_mgr' = [acc_mgr EXCEPT !.options = Options(Caller, failed)]
  /\ UNCHANGED <<tables, clientVars, dlg_add, dlg_edit>>

\* At most one condition at a time; None is the entry for "no value", which no
\* row matches.
Filters == UNION {{f :> v : v \in acc_mgr.options[f] \cup {None}} : f \in DOMAIN NoOptions}

\* The SELECT scans the table: the rows come in the order of insertion.
InsertionOrder(ids) == {s \in SetToSeqs(ids) : \A m, n \in DOMAIN s : m < n => s[m] < s[n]}

\* An empty answer leaves the row chosen before.
list_accounts(filter) ==
  /\ Idle
  /\ \E found \in rpc_list_accounts(filter) :
       \E ids \in InsertionOrder(found) :
           acc_mgr' = [acc_mgr EXCEPT !.table = ids, !.resorted = FALSE,
                                      !.row = IF ids = <<>> THEN @ ELSE 0,
                                      !.viewer = IF ids = <<>> THEN None ELSE Head(ids)]
  /\ UNCHANGED <<tables, clientVars, dlg_add, dlg_edit>>

\* QTableView sorts the rows; neither the row nor the viewer follows.
sort_table ==
  /\ Idle /\ Len(acc_mgr.table) > 1
  /\ acc_mgr' = [acc_mgr EXCEPT !.table = Reverse(@), !.resorted = TRUE]
  /\ UNCHANGED <<tables, clientVars, dlg_add, dlg_edit>>

on_table_view_item_clicked(n) ==
  /\ Idle /\ n \in DOMAIN acc_mgr.table
  /\ acc_mgr' = [acc_mgr EXCEPT !.row = n - 1, !.viewer = acc_mgr.table[n], !.resorted = FALSE]
  /\ UNCHANGED <<tables, clientVars, dlg_add, dlg_edit>>
-------------------------------------------------------------------------------
\* DialogAddAccount.
refresh_add ==
  /\ Idle /\ \E failed \in ReadFaults : dlg_add' = Options(Caller, failed)
  /\ UNCHANGED <<tables, clientVars, acc_mgr, dlg_edit>>

submit_add ==
  /\ Idle /\ MayCall /\ Unused # {}
  /\ \E v \in [username : Names \cup {Blank}, phone : dlg_add.phone, email : dlg_add.email,
               category : IF dlg_add.category = {} THEN {Blank} ELSE dlg_add.category],
        pwd \in Pwds \cup {Blank}, right \in BOOLEAN :
       \E call \in rpc_add_account(v, pwd, right) : ShownOf("add", [view |-> v, pwd |-> pwd], call)
  /\ UNCHANGED <<session, modal, clipboard, accountVars>>
-------------------------------------------------------------------------------
\* Mutated form of InWidgets: the text of the phone is set before its box is filled.
InWidgetsTooEarly(v, offered) ==
  [username |-> v.username, phone |-> Blank,
   email    |-> IF v.email \in offered.email THEN v.email ELSE Blank, category |-> v.category]

\* A combo box shows a text only if it is among its entries; the one for the
\* category has no entry "none", its first is "mail".
InWidgets(v, offered) ==
  [username |-> v.username,
   phone    |-> IF v.phone \in offered.phone THEN v.phone ELSE Blank,
   email    |-> IF v.email \in offered.email THEN v.email ELSE Blank,
   category |-> IF offered.category = {} THEN Blank
                ELSE IF v.category \in offered.category THEN v.category ELSE "mail"]

\* DialogEditAccount::initial_input_widgets.  The password and the main key
\* typed before stay.
initial_input_widgets(i) ==
  \E failed \in ReadFaults :
    LET v == rpc_list_account_by_id(i, failed)
        offered == Options(Caller, failed)
    IN  dlg_edit' = [dlg_edit EXCEPT !.id = i, !.base = v, !.cur = InWidgets(v, offered),
                                     !.options = offered, !.touched = {}, !.readonly = TRUE,
                                     !.failed = IF Caller = None THEN Reads ELSE failed]

on_btn_detail_and_edit_clicked ==
  /\ Idle /\ Chosen # None /\ initial_input_widgets(Chosen)
  /\ UNCHANGED <<tables, clientVars, acc_mgr, dlg_add>>

refresh_edit ==
  /\ Idle /\ dlg_edit.id # None /\ initial_input_widgets(dlg_edit.id)
  /\ UNCHANGED <<tables, clientVars, acc_mgr, dlg_add>>

read_only ==
  /\ Idle /\ dlg_edit.id # None /\ dlg_edit.readonly
  /\ dlg_edit' = [dlg_edit EXCEPT !.readonly = FALSE]
  /\ UNCHANGED <<tables, clientVars, acc_mgr, dlg_add>>

Offered(f) == IF f = "username" THEN Names \cup {Blank} ELSE dlg_edit.options[f]

type_field(f, v) ==
  /\ Idle /\ ~dlg_edit.readonly
  /\ Cardinality(dlg_edit.touched \cup {f}) <= MaxTouched
  /\ dlg_edit' = [dlg_edit EXCEPT !.cur[f] = v, !.touched = @ \cup {f}]
  /\ UNCHANGED <<tables, clientVars, acc_mgr, dlg_add>>

\* update_edit_main_key_state: without a password the main key is cleared.
type_password(pwd, key) ==
  /\ Idle /\ ~dlg_edit.readonly
  /\ dlg_edit' = [dlg_edit EXCEPT !.password = pwd, !.main_key = IF pwd = Blank THEN Blank ELSE key]
  /\ UNCHANGED <<tables, clientVars, acc_mgr, dlg_add>>

\* The dialog stays as it is, whatever the answer.
submit_edit ==
  /\ Idle /\ ~dlg_edit.readonly /\ MayCall
  /\ dlg_edit.password # Blank => dlg_edit.main_key # Blank
  /\ \E call \in rpc_update_account(dlg_edit.id, dlg_edit.cur, dlg_edit.password,
                                   dlg_edit.main_key = "right") : Shown("edit", call)
  /\ UNCHANGED <<session, modal, clipboard, accountVars>>
-------------------------------------------------------------------------------
NewDialogDelete(i) == [kind |-> "delete", id |-> i]

\* on_btn_delete_clicked up to exec(): a row must be highlighted, but that does
\* not tell which one is deleted.
open_delete ==
  /\ Idle /\ Chosen # None
  /\ modal' = NewDialogDelete(Chosen)
  /\ UNCHANGED <<tables, session, notice, clipboard, accountVars>>

\* Mutated form of RowRemoved: the viewer is not updated.
RowRemovedSilently ==
  LET ids == RemoveAt(acc_mgr.table, acc_mgr.row + 1)
  IN  [acc_mgr EXCEPT !.table = ids, !.resorted = FALSE,
                      !.row = IF acc_mgr.row >= Len(ids) THEN Len(ids) - 1 ELSE acc_mgr.row]

\* The connected lambda: the row goes, the next one takes its place.
RowRemoved ==
  LET ids == RemoveAt(acc_mgr.table, acc_mgr.row + 1)
      r == IF acc_mgr.row >= Len(ids) THEN Len(ids) - 1 ELSE acc_mgr.row
  IN  [acc_mgr EXCEPT !.table = ids, !.row = r, !.resorted = FALSE,
                          !.viewer = IF ids = <<>> THEN None ELSE ids[r + 1]]

on_btn_confirm_clicked(right) ==
  /\ modal.kind = "delete" /\ MayCall
  /\ \E call \in rpc_remove_account(modal.id, right) :
       /\ Shown("delete", call)
       /\ IF call.told THEN modal' = NoModal /\ acc_mgr' = RowRemoved ELSE UNCHANGED <<modal, acc_mgr>>
  /\ UNCHANGED <<session, clipboard, dlg_add, dlg_edit>>

cancel_modal ==
  /\ modal.kind \in {"delete", "expose", "guide"} /\ modal' = NoModal
  /\ UNCHANGED <<tables, session, notice, clipboard, accountVars>>
-------------------------------------------------------------------------------
NewDialogExposed(i) == [kind |-> "expose", id |-> i, display |-> Blank, countdown |-> 0]

on_btn_read_passwd_clicked ==
  /\ Idle
  /\ \/ Chosen # None /\ modal' = NewDialogExposed(Chosen)
     \/ dlg_edit.id # None /\ modal' = NewDialogExposed(dlg_edit.id)
  /\ UNCHANGED <<tables, session, notice, clipboard, accountVars>>

\* The texts fetch_password can return; an empty key is not sent.
Plaintexts == rpc_fetch_password(modal.id, Gone)

\* The buttons that show are disabled while the countdown runs.
on_btn_read_clicked ==
  /\ modal.kind = "expose" /\ modal.countdown = 0
  /\ \E text \in Plaintexts, copied \in BOOLEAN :
       /\ modal' = [modal EXCEPT !.display = text, !.countdown = IF text = Blank THEN 0 ELSE ExposeSeconds]
       /\ clipboard' = IF copied /\ text # Blank THEN text ELSE clipboard
  /\ UNCHANGED <<tables, session, notice, accountVars>>

\* The button that only copies is not, and clears the display.
on_btn_copy_clicked ==
  /\ modal.kind = "expose"
  /\ \E text \in Plaintexts :
       /\ modal' = [modal EXCEPT !.display = Blank]
       /\ clipboard' = IF text # Blank THEN text ELSE clipboard
  /\ UNCHANGED <<tables, session, notice, accountVars>>

\* Mutated form of update_button: the display is not cleared at the end.
update_button_text ==
  /\ modal.kind = "expose" /\ modal.countdown > 0
  /\ modal' = [modal EXCEPT !.countdown = @ - 1]
  /\ UNCHANGED <<tables, session, notice, clipboard, accountVars>>

update_button ==
  /\ modal.kind = "expose" /\ modal.countdown > 0
  /\ modal' = [modal EXCEPT !.countdown = @ - 1, !.display = IF modal.countdown = 1 THEN Blank ELSE @]
  /\ UNCHANGED <<tables, session, notice, clipboard, accountVars>>
===============================================================================
