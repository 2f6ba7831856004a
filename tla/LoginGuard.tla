------------------------------ MODULE LoginGuard ------------------------------
(***************************************************************************)
(* The two guards of the login (platform/app/login_guard.py) and the       *)
(* requests that pass through them (login in platform/app/routers/auth.py, *)
(* change_password in platform/app/auth.py).  A login looks at the guards, *)
(* compares the password without holding their lock, and reports the       *)
(* outcome: meanwhile others may have closed an account, or opened it.     *)
(*                                                                         *)
(* All requests come from one address and concern one account.  A lock is  *)
(* the time it has left, an event of the window its age.  An entry with    *)
(* nothing left stays until somebody looks at it.                          *)
(***************************************************************************)
EXTENDS Naturals, SequencesExt

CONSTANTS
    Logins,         \* threads of the Web process
    LockThreshold, LockTime,        \* login_lockout_threshold, _minutes
    IpThreshold, IpWindow, IpBlock  \* login_ip_threshold, _window_, _block_minutes

\* A threshold of 0 switches a guard off, and is excluded.
ASSUME ThresholdsAssumption == LockThreshold \in Nat \ {0} /\ IpThreshold \in Nat \ {0}
ASSUME TimesAssumption == LockTime \in Nat /\ IpWindow \in Nat /\ IpBlock \in Nat

Never == LockTime + IpBlock + 1     \* no "locked_until" in the entry

VARIABLES
    account,        \* _account_state[username]
    address,        \* _ip_state[ip]
    login           \* what each thread is doing

guardVars == <<account, address, login>>

NoAccount == [fails |-> 0, left |-> Never]
NoAddress == [events |-> <<>>, left |-> Never]

Closed(st) == st.left \in 1..(LockTime + IpBlock)

TypeOK ==
    /\ account.fails \in Nat /\ account.left \in 0..Never
    /\ address.events \in Seq(0..IpWindow) /\ address.left \in 0..Never
    /\ login \in [Logins -> {"idle", "address", "before", "after"}]

GuardInit ==
    /\ account = NoAccount
    /\ address = NoAddress
    /\ login = [l \in Logins |-> "idle"]

\* "before": let in by both guards while the account is open; "after" when it
\* has been locked since.
Go(l, to) == login' = [login EXCEPT ![l] = to]

BugForgets == [at |-> NoAccount, open |-> TRUE]    \* drops a lock that runs

\* account_status: an entry whose lock is over is dropped.
account_status ==
    [open |-> ~Closed(account), at |-> IF account.left = 0 THEN NoAccount ELSE account]

\* ip_status
AskAddress(l) ==
    /\ login[l] = "idle"
    /\ Go(l, IF Closed(address) THEN "idle" ELSE "address")
    /\ address' = IF address.left = 0 THEN NoAddress ELSE address
    /\ UNCHANGED account

AskAccount(l) ==
    /\ login[l] = "address"
    /\ Go(l, IF account_status.open THEN "before" ELSE "idle")
    /\ account' = account_status.at
    /\ UNCHANGED address

LetIn(l) == login[l] \in {"before", "after"}

\* record_failure: both guards count under one lock.
record_failure(l) ==
    LET fails == account.fails + 1
        events == Append(SelectSeq(address.events, LAMBDA age : age < IpWindow), 0)
        locks == fails >= LockThreshold /\ account.left = Never
        blocks == Len(events) >= IpThreshold /\ address.left = Never
    IN  /\ LetIn(l)
        /\ account' = [fails |-> fails, left |-> IF locks THEN LockTime ELSE account.left]
        /\ address' = [events |-> events, left |-> IF blocks THEN IpBlock ELSE address.left]
        /\ login' = [k \in Logins |->
              IF k = l THEN "idle"
              ELSE IF locks /\ login[k] = "before" THEN "after"
              ELSE login[k]]

\* record_success after the right password: the account's entry goes, the
\* address keeps its events.
record_success(l) ==
    /\ LetIn(l)
    /\ account' = NoAccount
    /\ Go(l, "idle")
    /\ UNCHANGED address

\* change_password by somebody who is logged in.
change_password ==
    /\ account' = NoAccount
    /\ UNCHANGED <<address, login>>

Tick ==
    /\ account' = [account EXCEPT !.left = IF Closed(account) THEN @ - 1 ELSE @]
    /\ address' = [events |-> [n \in DOMAIN address.events |->
                                 IF address.events[n] < IpWindow
                                 THEN address.events[n] + 1 ELSE IpWindow],
                   left |-> IF Closed(address) THEN address.left - 1 ELSE address.left]
    /\ UNCHANGED login

GuardNext ==
    \/ \E l \in Logins :
          AskAddress(l) \/ AskAccount(l) \/ record_failure(l) \/ record_success(l)
    \/ change_password
    \/ Tick

GuardSpec == GuardInit /\ [][GuardNext]_guardVars

-----------------------------------------------------------------------------
(* Properties.                                                             *)

\* A lock runs its whole time: only the owner of the account lifts it early,
\* by a change of the password or by a login with the right one that had
\* been let in before the account was locked.
LockHolds ==
    [][Closed(account) /\ account'.left # account.left =>
          \/ Tick \/ change_password
          \/ \E l \in Logins : login[l] = "after" /\ record_success(l)]_guardVars

=============================================================================
