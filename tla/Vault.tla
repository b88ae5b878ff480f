-------------------------------- MODULE Vault --------------------------------
(***************************************************************************)
(* What the password vault of zinpassd promises its users, with no          *)
(* ciphertext, no statements and no threads: every user has one main key,   *)
(* every account holds one password, changing the key changes no password,  *)
(* and a fetch that presents the current key answers the password that was  *)
(* stored last.  A key change takes its time: whoever asks while it goes on *)
(* may be answered garbage, but not another password.  It may leave         *)
(* accounts behind, which its reply names: such an account keeps its        *)
(* password, but is no longer answered, and a later key change may destroy  *)
(* it, until its user stores a password again.  VaultRefinement shows that  *)
(* the RPC handlers implement this.                                         *)
(***************************************************************************)
CONSTANTS Users, AccountIds, Keys, Passwords,
          Threads,      \* the callers; each has at most one fetch pending
          Garbage,      \* what a destroyed password reads as
          Excuses,      \* the texts answered in place of a password
          Absent        \* the state of an account that does not exist

VARIABLES vkey,      \* vkey[u]: the main key of user u, Absent before registration
          vowner,    \* vowner[i]: the user account i belongs to, or Absent
          vpwd,      \* vpwd[i]: the password stored for account i, or Absent
          vleft,     \* the accounts that a key change has left behind
          vchanging, \* the users whose key change goes on
          vask,      \* vask[c]: what caller c has been let in for, and by which key
          vanswer    \* vanswer[c]: what the last fetch of caller c was answered

\* What a password reads as.
Contents == Passwords \cup {Garbage}
vtables == <<vkey, vowner, vpwd, vleft, vchanging>>
vvars == <<vtables, vask, vanswer>>

VInit == /\ vkey = [u \in Users |-> Absent]
         /\ vowner = [i \in AccountIds |-> Absent]
         /\ vpwd = [i \in AccountIds |-> Absent]
         /\ vleft = {} /\ vchanging = {}
         /\ vask = [c \in Threads |-> Absent]
         /\ vanswer = [c \in Threads |-> Absent]

VRegister(u, k) == /\ vkey[u] = Absent
                   /\ vkey' = [vkey EXCEPT ![u] = k]
                   /\ UNCHANGED <<vowner, vpwd, vleft, vchanging, vask, vanswer>>

\* The key of a user changes, and nothing else does, when a key change begins.
VRotate(u, old, new) == /\ vkey[u] = old /\ u \notin vchanging
                        /\ vkey' = [vkey EXCEPT ![u] = new]
                        /\ vchanging' = vchanging \cup {u}
                        /\ UNCHANGED <<vowner, vpwd, vleft, vask, vanswer>>

VCreate(u, i, p) == /\ vowner[i] = Absent
                    /\ vowner' = [vowner EXCEPT ![i] = u]
                    /\ vpwd' = [vpwd EXCEPT ![i] = p]
                    /\ UNCHANGED <<vkey, vleft, vchanging, vask, vanswer>>

VChange(u, i, p) == /\ vowner[i] = u
                    /\ vpwd' = [vpwd EXCEPT ![i] = p]
                    /\ vleft' = vleft \ {i}
                    /\ UNCHANGED <<vkey, vowner, vchanging, vask, vanswer>>

\* A key change of u ends.  Its reply names the accounts it left behind; some
\* of them may have been deleted meanwhile.
VLeave(u, I) == /\ u \in vchanging /\ vchanging' = vchanging \ {u}
                /\ \A i \in I : vowner[i] \in {u, Absent}
                /\ vleft' = vleft \cup I
                /\ UNCHANGED <<vkey, vowner, vpwd, vask, vanswer>>

\* A later key change destroys the password of an account left behind.
VDestroy(i, x) == /\ i \in vleft
                  /\ vpwd' = [vpwd EXCEPT ![i] = x]
                  /\ UNCHANGED <<vkey, vowner, vleft, vchanging, vask, vanswer>>

VDelete(i) == /\ vowner[i] # Absent
              /\ vowner' = [vowner EXCEPT ![i] = Absent]
              /\ vpwd' = [vpwd EXCEPT ![i] = Absent]
              /\ UNCHANGED <<vkey, vleft, vchanging, vask, vanswer>>

\* Caller c presents the key of u and asks for account i.
VAsk(c, u, i) == /\ vkey[u] # Absent /\ vask[c] = Absent
                 /\ vask' = [vask EXCEPT ![c] = [user |-> u, id |-> i, key |-> vkey[u]]]
                 /\ UNCHANGED <<vtables, vanswer>>

\* A key change of the same user goes on, or has begun since c was let in.
Overtaken(c) == vask[c].user \in vchanging \/ vask[c].key # vkey[vask[c].user]

\* The owner is answered exactly what is stored, unless the account has been
\* left behind or a key change goes on: then the answer may be garbage.
VFetch(c) == /\ vask[c] # Absent /\ vowner[vask[c].id] = vask[c].user
             /\ \E x \in IF vask[c].id \in vleft THEN Contents
                         ELSE {vpwd[vask[c].id]} \cup IF Overtaken(c) THEN {Garbage} ELSE {} :
                  vanswer' = [vanswer EXCEPT ![c] = x]
             /\ vask' = [vask EXCEPT ![c] = Absent]
             /\ UNCHANGED vtables

\* The row is not the caller's, is gone, or cannot be read or decrypted.
VMiss(c) == /\ vask[c] # Absent
            /\ \E x \in Excuses : vanswer' = [vanswer EXCEPT ![c] = x]
            /\ vask' = [vask EXCEPT ![c] = Absent]
            /\ UNCHANGED vtables

\* Caller c has taken its answer.
VForget(c) == /\ vanswer' = [vanswer EXCEPT ![c] = Absent]
              /\ UNCHANGED <<vtables, vask>>

VNext == \/ \E u \in Users, k \in Keys : VRegister(u, k)
         \/ \E u \in Users, old, new \in Keys : VRotate(u, old, new)
         \/ \E u \in Users, i \in AccountIds, p \in Passwords :
               VCreate(u, i, p) \/ VChange(u, i, p)
         \/ \E i \in AccountIds : VDelete(i) \/ \E x \in Contents : VDestroy(i, x)
         \/ \E u \in Users, I \in SUBSET AccountIds : VLeave(u, I)
         \/ \E c \in Threads, u \in Users, i \in AccountIds : VAsk(c, u, i)
         \/ \E c \in Threads : VFetch(c) \/ VMiss(c) \/ VForget(c)

VSpec == VInit /\ [][VNext]_vvars
===============================================================================
