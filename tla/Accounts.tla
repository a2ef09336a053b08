------------------------------ MODULE Accounts ------------------------------
(***************************************************************************)
(* Accounts, passwords and sessions: routes_auth.py, routes_platform.py    *)
(* and the session part of auth.py.  A platform account owns workspaces;   *)
(* in each of them it has an owner account that carries a copy of its      *)
(* password.  The members of a workspace have accounts of their own.       *)
(* Verifying a password takes long (Argon2, two at a time) and happens     *)
(* between reading the account and committing what follows, so a login, a  *)
(* password change and the creation of a workspace are two steps each.     *)
(*                                                                         *)
(* A password is a value; which one belongs to whom is what matters.  The  *)
(* permissions of an account are left out, and so are the clock that ends  *)
(* a session (EndSession stands for a logout and for an expiry) and the         *)
(* platform's own sessions: somebody is signed in there at all times.      *)
(***************************************************************************)
EXTENDS Naturals, FiniteSets, FiniteSetsExt

CONSTANTS
    MemberAccounts,       \* accounts of a workspace's people
    Owners,        \* owner accounts: one for each workspace of the platform account
    Secrets,       \* the passwords
    GenerationBatch,  \* ACCOUNT_GENERATION_BATCH_SIZE
    MaxSessions,   \* bound on the sessions there are
    MaxPending     \* bound on the requests between their two steps

ASSUME AccountsAssumption ==
    /\ MemberAccounts \cap Owners = {}
    /\ Secrets # {}
    /\ GenerationBatch \in Nat \ {0}
    /\ MaxSessions \in Nat \ {0} /\ MaxPending \in Nat \ {0}

VARIABLES
    account,    \* each account there is: its password, whether the server keeps it
                \* readable (managed_password), whether it is active
    platform,   \* the platform account's password
    session,    \* the sessions there are
    entering,   \* logins whose password was verified
    changing,   \* password changes whose current password was verified
    founding,   \* workspaces being created, with the password read for them
    behind      \* owners whose workspace was created while the password changed

accountVars == <<account, platform, session, entering, changing, founding,
                behind>>

People == MemberAccounts \cup Owners
Existing == {a \in People : account[a].exists}

Nobody == [exists |-> FALSE, active |-> FALSE, managed |-> FALSE,
           secret |-> CHOOSE secret \in Secrets : TRUE]

Created(secret) == [exists |-> TRUE, active |-> TRUE, managed |-> TRUE, secret |-> secret]

Seeded(secret, before) ==
    /\ platform = secret
    /\ account = [a \in People |->
         IF a \in before THEN [Created(secret) EXCEPT !.managed = FALSE] ELSE Nobody]
    /\ session = {} /\ entering = {} /\ changing = {} /\ founding = {}
    /\ behind = {}

\* Some members may have their accounts from before the server kept a readable copy.
InitAccounts == \E secret \in Secrets, before \in SUBSET MemberAccounts : Seeded(secret, before)

Of(a) == {s \in session : s.account = a}
MayEnter(a) == a \in Existing /\ account[a].active

\* A session carries the password it was opened under; stale says that this
\* password was replaced between its verification and the commit.
Open(a, secret, stale) ==
    LET free == (1 .. MaxSessions) \ {s.number : s \in session \cup changing}
    IN  /\ free # {}
        /\ session' = session \cup {[account |-> a, number |-> Min(free), secret |-> secret,
                                     stale |-> stale]}

HasRoom ==
    Cardinality(entering) + Cardinality(changing) + Cardinality(founding) < MaxPending

-----------------------------------------------------------------------------
(* Sessions.                                                               *)

\* login of routes_auth: the account is read and the password verified ...
VerifyLogin(a) ==
    /\ MayEnter(a)
    /\ HasRoom
    /\ entering' = entering \cup {[account |-> a, secret |-> account[a].secret]}
    /\ UNCHANGED <<account, platform, session, changing, founding, behind>>

\* ... and the session committed; without the account its key refers to nothing.
Enter(login) ==
    /\ entering' = entering \ {login}
    /\ IF login.account \in Existing
       THEN Open(login.account, login.secret, login.secret # account[login.account].secret)
       ELSE UNCHANGED session
    /\ UNCHANGED <<account, platform, changing, founding, behind>>

\* logout of routes_auth, the workspace session that leaves with the platform's
\* (logout of routes_platform), and clear_expired_sessions.
EndSession(s) ==
    /\ session' = session \ {s}
    /\ UNCHANGED <<account, platform, entering, changing, founding, behind>>

-----------------------------------------------------------------------------
(* Passwords.                                                              *)

\* Mutant: the platform account learns the new password, its other workspaces do not.
SharedMut(a, new) == [account EXCEPT ![a].secret = new]

\* _sync_platform_owner_password: the owner's one password in every owned workspace.
Shared(a, new) ==
    [b \in People |-> IF b = a \/ {a, b} \subseteq Owners \cap Existing
                      THEN [account[b] EXCEPT !.secret = new] ELSE account[b]]

NewPassword(a, new) ==
    /\ new # account[a].secret
    /\ account' = [Shared(a, new) EXCEPT ![a].managed = TRUE]
    /\ platform' = IF a \in Owners THEN new ELSE platform
    /\ behind' = IF a \in Owners THEN {} ELSE behind

\* change_password: the person's current password is verified ...
VerifyChange(s) ==
    /\ MayEnter(s.account)
    /\ HasRoom
    /\ changing' = changing \cup {[account |-> s.account, number |-> s.number]}
    /\ UNCHANGED <<account, platform, session, entering, founding, behind>>

\* ... and the new one committed; of the person's sessions only this one goes on.
ChangePassword(s, new) ==
    /\ s.account \in Existing
    /\ NewPassword(s.account, new)
    /\ changing' = changing \ {s}
    /\ session' = (session \ Of(s.account)) \cup
                    {[account |-> own.account, number |-> own.number, secret |-> new,
                      stale |-> FALSE] : own \in {o \in session : o.number = s.number}}
    /\ UNCHANGED <<entering, founding>>

\* The account was deleted in between: the update finds no row.
AbandonChange(s) ==
    /\ s.account \notin Existing
    /\ changing' = changing \ {s}
    /\ UNCHANGED <<account, platform, session, entering, founding, behind>>

\* reset_password, by an administrator or the owner: every session of the account ends.
ResetPassword(a, new) ==
    /\ a \in Existing
    /\ NewPassword(a, new)
    /\ session' = session \ Of(a)
    /\ UNCHANGED <<entering, changing, founding>>

-----------------------------------------------------------------------------
(* Accounts.                                                               *)

\* add_account, add_evaluator with a directory entry.
AddAccount(a, new) ==
    /\ a \in MemberAccounts \ Existing
    /\ account' = [account EXCEPT ![a] = Created(new)]
    /\ UNCHANGED <<platform, session, entering, changing, founding, behind>>

\* generate_missing_accounts, one batch: the active members without a readable
\* password first, then directory entries without an account.
Unmanaged == {a \in MemberAccounts \cap Existing : account[a].active /\ ~account[a].managed}

GenerateMissing(new) ==
    /\ LET resets == Min({GenerationBatch, Cardinality(Unmanaged)})
       IN  \E reset \in kSubset(resets, Unmanaged), missing \in SUBSET (MemberAccounts \ Existing) :
             /\ Cardinality(missing) <= GenerationBatch - resets
             /\ account' = [a \in People |->
                  IF a \in reset \cup missing THEN Created(new) ELSE account[a]]
             /\ session' = session \ UNION {Of(a) : a \in reset}
    /\ UNCHANGED <<platform, entering, changing, founding, behind>>

\* update_account: an owner account stays active whatever is asked.
SetActive(a, active) ==
    /\ a \in MemberAccounts \cap Existing
    /\ account' = [account EXCEPT ![a].active = active]
    /\ UNCHANGED <<platform, session, entering, changing, founding, behind>>

\* delete_account, which no owner account can meet.
DeleteAccount(a) ==
    /\ a \in MemberAccounts \cap Existing
    /\ account' = [account EXCEPT ![a] = Nobody]
    /\ session' = session \ Of(a)
    /\ UNCHANGED <<platform, entering, changing, founding, behind>>

-----------------------------------------------------------------------------
(* Workspaces.                                                             *)

\* create_workspace reads the platform account's password ...
Found(o) ==
    /\ o \in Owners \ Existing
    /\ HasRoom
    /\ \A f \in founding : f.account # o
    /\ founding' = founding \cup {[account |-> o, secret |-> platform]}
    /\ UNCHANGED <<account, platform, session, entering, changing, behind>>

\* ... and commits the owner account with it.
Founded(f) ==
    /\ founding' = founding \ {f}
    /\ account' = [account EXCEPT ![f.account] =
                     [Created(f.secret) EXCEPT !.managed = FALSE]]
    /\ behind' = IF f.secret = platform THEN behind ELSE behind \cup {f.account}
    /\ UNCHANGED <<platform, session, entering, changing>>

\* select_workspace brings the owner's copy up to date and signs the owner in.
SelectWorkspace(o) ==
    /\ o \in Owners \cap Existing
    /\ account' = [account EXCEPT ![o] =
                     [exists |-> TRUE, active |-> TRUE, managed |-> account[o].managed,
                      secret |-> platform]]
    /\ Open(o, platform, FALSE)
    /\ behind' = behind \ {o}
    /\ UNCHANGED <<platform, entering, changing, founding>>

\* delete_workspace: its accounts and their sessions go with it.
DeleteWorkspace(o) ==
    /\ o \in Owners \cap Existing
    /\ account' = [account EXCEPT ![o] = Nobody]
    /\ session' = session \ Of(o)
    /\ behind' = behind \ {o}
    /\ UNCHANGED <<platform, entering, changing, founding>>

NextAccounts ==
    \/ \E a \in People :
         \/ VerifyLogin(a)
         \/ DeleteAccount(a)
         \/ Found(a)
         \/ SelectWorkspace(a)
         \/ DeleteWorkspace(a)
         \/ \E active \in BOOLEAN : SetActive(a, active)
         \/ \E new \in Secrets : ResetPassword(a, new) \/ AddAccount(a, new)
    \/ \E login \in entering : Enter(login)
    \/ \E s \in session : EndSession(s) \/ VerifyChange(s)
    \/ \E s \in changing : AbandonChange(s) \/ \E new \in Secrets : ChangePassword(s, new)
    \/ \E f \in founding : Founded(f)
    \/ \E new \in Secrets : GenerateMissing(new)

SpecAccounts == InitAccounts /\ [][NextAccounts]_accountVars

-----------------------------------------------------------------------------
AccountRows == [exists : BOOLEAN, active : BOOLEAN, managed : BOOLEAN, secret : Secrets]
Sessions == [account : People, number : 1 .. MaxSessions, secret : Secrets, stale : BOOLEAN]

TypeOKAccounts ==
    /\ account \in [People -> AccountRows]
    /\ platform \in Secrets
    /\ session \subseteq Sessions
    /\ changing \subseteq [account : People, number : 1 .. MaxSessions]
    /\ entering \subseteq [account : People, secret : Secrets]
    /\ founding \subseteq [account : Owners, secret : Secrets]
    /\ behind \subseteq Owners

\* A new password replaces the old one everywhere: the platform account and every
\* owner account linked to it agree, and no session of a member's account is left
\* from before the change.  The exceptions are the two transactions that verified
\* or copied the old password before the change and committed after it.
NewPasswordsReachEveryone ==
    /\ \A o \in Owners \cap Existing : o \in behind \/ account[o].secret = platform
    /\ \A s \in session : s.account \in MemberAccounts =>
         s.account \in Existing /\ (s.stale \/ s.secret = account[s.account].secret)
=============================================================================
