------------------------------ MODULE PhoneForms ------------------------------
(***************************************************************************)
(* The phone page of the workbench: the table of PhoneMgrForm with its      *)
(* filter, DialogAddPhone, PhoneDetailFrame and DeletionGuideDlg.  The      *)
(* frame keeps the phone it was filled with: its buttons act on the id in   *)
(* its widget, whatever the table shows by then.                            *)
(***************************************************************************)
EXTENDS ClientState

VARIABLES
  phone_mgr, \* table: the rows in table_model_, each with its id and birth
             \* (history: which phone of that id it was); options: of the filter
  detail     \* id: the text of edit_id_, None when empty; number: of edit_phone_;
             \* birth: history; fetched: a phone, if an empty one, has been
             \* rendered, which enables the buttons; editing: so is "submit"

phoneVars == <<phone_mgr, detail>>
sessionVars == <<username, user_state, expired, stage, clipboard, habit>>
rows == <<account, phone, births>>

\* The frame and the table as their constructors leave them.
NewPhoneDetail == [id |-> None, number |-> Blank, birth |-> 0, fetched |-> FALSE, editing |-> FALSE]

NewPhoneMgrForm(u, failed) == [table |-> {}, options |-> Options(u, failed).phone]

PhoneFormsTypeOK ==
  /\ \A row \in phone_mgr.table : row.id \in PhoneIds /\ row.birth \in 1 .. MaxBirths
  /\ detail.id \in PhoneIds \cup {0, None} /\ detail.birth \in 0 .. MaxBirths
  /\ detail.number \in Numbers \cup {Blank} /\ {detail.fetched, detail.editing} \subseteq BOOLEAN

\* PhoneMgrForm::list_phones, when the phones are those of the table held.
list_phones(held) ==
  \E n \in phone_mgr.options :
    \E got \in rpc_list_phones(held, n) :
      phone_mgr' = [phone_mgr EXCEPT !.table = {[id |-> p, birth |-> held[p].birth] : p \in got}]

refresh_phone_filter ==
  /\ Idle
  /\ \E failed \in ReadFaults : phone_mgr' = [phone_mgr EXCEPT !.options = Options(Caller, failed).phone]
  /\ UNCHANGED <<rows, clientVars, detail>>

submit_phone_filter ==
  /\ Idle /\ list_phones(phone) /\ UNCHANGED <<rows, clientVars, detail>>

\* DialogAddPhone::on_btn_submit_clicked.
submit_add_phone ==
  /\ Idle /\ MayCall /\ FreePhones # {} /\ births < MaxBirths
  /\ \E n \in Numbers \cup {Blank} : \E call \in rpc_add_phone(n) : ShownOf("add phone", n, call)
  /\ UNCHANGED <<sessionVars, modal, phoneVars>>
-------------------------------------------------------------------------------
\* A click on a row: fetch_phone_by_id and render_phone_to_ui.  What is not
\* found, or not the user's, is rendered as the empty phone with the id 0.
on_phone_clicked(row) ==
  /\ Idle /\ row \in phone_mgr.table
  /\ \E got \in rpc_find_phone_by_id(row.id) :
       detail' = IF got = {}
                   THEN [NewPhoneDetail EXCEPT !.id = 0, !.fetched = TRUE]
                   ELSE [NewPhoneDetail EXCEPT !.id = row.id, !.number = phone[row.id].number,
                                            !.birth = phone[row.id].birth, !.fetched = TRUE]
  /\ UNCHANGED <<rows, clientVars, phone_mgr>>

\* initial_input_widgets, connected to "refresh".
refresh_detail ==
  /\ Idle /\ detail # NewPhoneDetail /\ detail' = NewPhoneDetail
  /\ UNCHANGED <<rows, clientVars, phone_mgr>>

edit_phone ==
  /\ Idle /\ detail.fetched /\ ~detail.editing
  /\ detail' = [detail EXCEPT !.editing = TRUE]
  /\ UNCHANGED <<rows, clientVars, phone_mgr>>

type_number(n) ==
  /\ Idle /\ detail.editing /\ detail' = [detail EXCEPT !.number = n]
  /\ UNCHANGED <<rows, clientVars, phone_mgr>>

submit_phone ==
  /\ Idle /\ detail.editing /\ MayCall
  /\ \E call \in rpc_update_phone_by_id(detail.id, detail.number) : Shown("phone", call)
  /\ UNCHANGED <<sessionVars, modal, phoneVars>>
-------------------------------------------------------------------------------
NewDeletionGuide(p) == [kind |-> "guide", id |-> p]

\* PhoneDetailFrame::on_btn_delete_clicked, until the reference count is there:
\* 0 of a call that fails, -1 of an invalid session.
on_btn_delete_phone_clicked ==
  /\ Idle /\ detail.fetched
  /\ \E count \in rpc_get_reference_count(detail.id) :
       modal' = IF count = 0 THEN [kind |-> "remove", id |-> detail.id] ELSE NewDeletionGuide(detail.id)
  /\ UNCHANGED <<rows, sessionVars, notice, phoneVars>>

\* The second call, with the mode, and sig_update_table if it succeeds.
delete_phone_by_id(mode) ==
  \E call \in rpc_delete_phone_by_id(modal.id, mode) :
    /\ Shown("delete phone", call)
    /\ IF call.told THEN list_phones(call.made.phone) ELSE UNCHANGED phone_mgr

\* No account is bound to the phone.
remove_phone ==
  /\ modal.kind = "remove" /\ MayCall
  /\ delete_phone_by_id(0) /\ modal' = NoModal
  /\ UNCHANGED <<sessionVars, detail>>

\* DeletionGuideDlg: one of its four options; option 1 is never given a phone.
on_btn_ok_clicked(option) ==
  /\ modal.kind = "guide" /\ MayCall
  /\ delete_phone_by_id(option) /\ modal' = NoModal
  /\ UNCHANGED <<sessionVars, detail>>
===============================================================================
