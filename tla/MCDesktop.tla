------------------------------- MODULE MCDesktop -------------------------------
(***************************************************************************)
(* The desktop client for TLC: two users; u1 has a mail account, an account *)
(* bound to it and to a phone, u2 an account with the same address and a    *)
(* phone.                                                                   *)
(***************************************************************************)
EXTENDS Desktop

CONSTANTS u1, u2, w0

Use(parts, calls, changes) == [parts |-> parts, calls |-> calls, others |-> changes]
MCHabits == {Use({"list", "edit", "fields"}, 1, 1), Use({"list", "edit", "fields", "expiry"}, 1, 0),
             Use({"list", "edit", "password", "expiry"}, 2, 0),
             Use({"list", "add", "delete"}, 2, 0), Use({"list", "filter", "delete", "expose", "relogin"}, 1, 1),
             Use({"list", "delete"}, 3, 1), Use({"list", "delete", "phones"}, 2, 0),
             Use({"phones"}, 2, 1), Use({"phones", "expiry"}, 3, 0),
             Use({"list", "expose", "edit", "tools"}, 0, 0),
             Use({"personal", "signup", "relogin", "tools", "expiry"}, 2, 0)}
MCBuild == {{}, Reads}
MCFailed == {{}, {"phones"}, {"emails"}, {"categories"}, {"view"}}
MCRow(u, n, c, p, e) == [live |-> TRUE, owner |-> u, username |-> n, category |-> c,
                         phone |-> p, email |-> e, pwd |-> w0]
MCAccount == <<MCRow(u1, "m", "mail", None, None), MCRow(u1, "n", "other", 1, 1),
               MCRow(u2, "m", "mail", None, None), None>>
MCPhone == <<[owner |-> u1, number |-> "t1", birth |-> 1], [owner |-> u2, number |-> "t2", birth |-> 2]>>

MCInit == /\ account = MCAccount /\ phone = MCPhone /\ births = 2
          /\ username = (u1 :> "l1" @@ u2 :> None)
          /\ InitDesktop
MCSpec == MCInit /\ [][NextDesktop]_vars
===============================================================================
