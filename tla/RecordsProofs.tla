----------------------------- MODULE RecordsProofs -----------------------------
(***************************************************************************)
(* Proofs about who takes part, and about what is written over the         *)
(* results: the accounts and their passwords, the rosters of the Journees, *)
(* the limits on logging in, the corrections of the management page, and   *)
(* the notes of a profile.                                                 *)
(***************************************************************************)
EXTENDS Accounts, Roster, LoginLimits, ManagementCorrections, ProfileNotes,
        FiniteSetTheorems, TLAPS, WellFoundedInduction

(***************************************************************************)
(* Accounts, passwords and sessions.                                       *)
(***************************************************************************)

LEMMA MinOfNumbers ==
    ASSUME NEW S \in SUBSET Nat, S # {}
    PROVE  Min(S) \in S
<1>1. PICK least \in S : \A y \in S : ~(<<y, least>> \in OpToRel(<, Nat))
  BY NatLessThanWellFounded, WFMin
<1>2. \A y \in S : least <= y
  <2> TAKE y \in S
  <2>1. ~(y < least)
    BY <1>1 DEF OpToRel
  <2>2. QED
    BY <2>1
<1>3. QED
  BY <1>2 DEF Min

(* The owners' copies of the one password.                                   *)
OwnersAgree == \A o \in Owners \cap Existing : o \in behind \/ account[o].secret = platform

(* What a member's session was opened under.                                 *)
SessionsAreCurrent ==
    \A s \in session : s.account \in MemberAccounts =>
       s.account \in Existing /\ (s.stale \/ s.secret = account[s.account].secret)

(* A number stands for one account, in the sessions there are and in those   *)
(* whose password is being changed.                                          *)
NumbersAgree ==
    /\ \A s, t \in session : s.number = t.number => s.account = t.account
    /\ \A s \in session, c \in changing : s.number = c.number => s.account = c.account

AccountsInv == TypeOKAccounts /\ OwnersAgree /\ SessionsAreCurrent /\ NumbersAgree

LEMMA AccountKnown ==
    ASSUME AccountsInv, NEW a \in People
    PROVE  /\ account[a] \in AccountRows /\ account[a].secret \in Secrets
           /\ account[a].exists \in BOOLEAN /\ account[a].managed \in BOOLEAN
BY DEF AccountsInv, TypeOKAccounts, AccountRows

LEMMA MadeTyped ==
    /\ Nobody \in AccountRows /\ ~Nobody.exists
    /\ \A secret \in Secrets : /\ Created(secret) \in AccountRows /\ Created(secret).exists
                               /\ Created(secret).secret = secret
                               /\ [Created(secret) EXCEPT !.managed = FALSE] \in AccountRows
                               /\ [Created(secret) EXCEPT !.managed = FALSE].exists
                               /\ [Created(secret) EXCEPT !.managed = FALSE].secret = secret
<1>1. (CHOOSE secret \in Secrets : TRUE) \in Secrets
  BY AccountsAssumption
<1>2. Nobody \in AccountRows /\ ~Nobody.exists
  BY <1>1 DEF Nobody, AccountRows
<1>3. QED
  BY <1>2 DEF Created, AccountRows

LEMMA InitAccountsInv == InitAccounts => AccountsInv
<1> SUFFICES ASSUME NEW secret \in Secrets, NEW before \in SUBSET MemberAccounts,
                    Seeded(secret, before)
             PROVE  AccountsInv
  BY DEF InitAccounts
<1>1. /\ platform = secret /\ session = {} /\ entering = {} /\ changing = {} /\ founding = {}
      /\ behind = {}
      /\ account = [a \in People |->
            IF a \in before THEN [Created(secret) EXCEPT !.managed = FALSE] ELSE Nobody]
  BY DEF Seeded
<1>2. account \in [People -> AccountRows]
  BY <1>1, MadeTyped
<1>3. \A o \in Owners : ~account[o].exists
  BY <1>1, MadeTyped, AccountsAssumption DEF People
<1>4. QED
  BY <1>1, <1>2, <1>3 DEF AccountsInv, TypeOKAccounts, OwnersAgree, SessionsAreCurrent,
     NumbersAgree, Existing

-----------------------------------------------------------------------------
(* The accounts may change; the sessions that stay keep what they are.       *)
LEMMA AccountsKeepInv ==
    ASSUME AccountsInv,
           account' \in [People -> AccountRows], platform' \in Secrets,
           session' \subseteq Sessions, changing' \subseteq changing,
           entering' \subseteq [account : People, secret : Secrets],
           founding' \subseteq [account : Owners, secret : Secrets],
           behind' \subseteq Owners,
           \A o \in Owners : account'[o].exists => o \in behind' \/ account'[o].secret = platform',
           \A s \in session' :
              /\ \E t \in session : s.number = t.number /\ s.account = t.account
              /\ s.account \in MemberAccounts =>
                    account'[s.account].exists /\ (s.stale \/ s.secret = account'[s.account].secret)
    PROVE  AccountsInv'
<1>1. TypeOKAccounts'
  BY DEF AccountsInv, TypeOKAccounts
<1>2. OwnersAgree'
  BY DEF OwnersAgree, Existing
<1>3. SessionsAreCurrent'
  BY DEF SessionsAreCurrent, Existing, People
<1>4. NumbersAgree'
  BY DEF AccountsInv, NumbersAgree
<1>5. QED
  BY <1>1, <1>2, <1>3, <1>4 DEF AccountsInv

(* What the invariant says of the accounts and sessions there are.           *)
LEMMA InvKnown ==
    ASSUME AccountsInv
    PROVE  /\ account \in [People -> AccountRows] /\ platform \in Secrets
           /\ session \subseteq Sessions
           /\ entering \subseteq [account : People, secret : Secrets]
           /\ founding \subseteq [account : Owners, secret : Secrets] /\ behind \subseteq Owners
           /\ \A o \in Owners : account[o].exists => o \in behind \/ account[o].secret = platform
           /\ \A s \in session :
                 /\ s.account \in People /\ s \in Sessions
                 /\ s.account \in MemberAccounts =>
                       account[s.account].exists /\ (s.stale \/ s.secret = account[s.account].secret)
<1>1. session \subseteq Sessions
  BY DEF AccountsInv, TypeOKAccounts
<1>2. \A s \in session : s.account \in People
  BY <1>1 DEF Sessions
<1>3. QED
  BY <1>1, <1>2 DEF AccountsInv, TypeOKAccounts, OwnersAgree, SessionsAreCurrent, Existing, People

LEMMA OpenKeepsInv ==
    ASSUME AccountsInv, NEW a \in People, NEW secret \in Secrets, NEW stale \in BOOLEAN,
           Open(a, secret, stale),
           a \in MemberAccounts => account[a].exists /\ (stale \/ secret = account[a].secret),
           account' \in [People -> AccountRows],
           \A m \in MemberAccounts : account'[m] = account[m],
           \A o \in Owners : account'[o].exists => o \in behind' \/ account'[o].secret = platform,
           behind' \subseteq Owners, entering' \subseteq entering,
           UNCHANGED <<platform, changing, founding>>
    PROVE  AccountsInv'
<1> DEFINE free == (1 .. MaxSessions) \ {s.number : s \in session \cup changing}
           new == [account |-> a, number |-> Min(free), secret |-> secret, stale |-> stale]
<1>1. free # {} /\ session' = session \cup {new}
  BY DEF Open
<1>2. MaxSessions \in Nat /\ free \in SUBSET Nat
  BY AccountsAssumption
<1>3. Min(free) \in free
  BY <1>1, <1>2, MinOfNumbers
<1>4. new \in Sessions
  BY <1>3 DEF Sessions
<1>5. /\ \A s \in session : s.number # new.number
      /\ \A c \in changing : c.number # new.number
  BY <1>3
<1>6. new.account = a /\ new.secret = secret /\ new.stale = stale
  OBVIOUS
<1> HIDE DEF new, free
<1>7. TypeOKAccounts'
  BY <1>1, <1>4 DEF AccountsInv, TypeOKAccounts
<1>8. OwnersAgree'
  BY DEF OwnersAgree, Existing
<1>9. SessionsAreCurrent'
  <2> SUFFICES ASSUME NEW s \in session', s.account \in MemberAccounts
               PROVE  s.account \in Existing' /\ (s.stale \/ s.secret = account'[s.account].secret)
    BY DEF SessionsAreCurrent
  <2>1. account[s.account].exists /\ (s.stale \/ s.secret = account[s.account].secret)
    BY <1>1, <1>6, InvKnown
  <2>2. QED
    BY <2>1 DEF Existing, People
<1>10. NumbersAgree'
  BY <1>1, <1>5 DEF AccountsInv, NumbersAgree
<1>11. QED
  BY <1>7, <1>8, <1>9, <1>10 DEF AccountsInv

LEMMA EnterKeepsInv ==
    ASSUME AccountsInv, NEW login \in entering, Enter(login)
    PROVE  AccountsInv'
<1>1. login.account \in People /\ login.secret \in Secrets
  BY InvKnown
<1>2. entering' \subseteq entering /\ UNCHANGED <<account, platform, changing, founding, behind>>
  BY DEF Enter
<1>3. CASE login.account \in Existing
  <2> DEFINE stale == login.secret # account[login.account].secret
  <2>1. Open(login.account, login.secret, stale)
    BY <1>3 DEF Enter
  <2>2. stale \in BOOLEAN /\ (stale \/ login.secret = account[login.account].secret)
        /\ account[login.account].exists
    BY <1>3 DEF Existing
  <2> HIDE DEF stale
  <2>3. QED
    BY <1>1, <1>2, <2>1, <2>2, InvKnown, OpenKeepsInv
<1>4. CASE login.account \notin Existing
  <2>1. UNCHANGED session
    BY <1>4 DEF Enter
  <2>2. QED
    BY <1>2, <2>1, InvKnown, AccountsKeepInv
<1>5. QED
  BY <1>3, <1>4

LEMMA SelectWorkspaceKeepsInv ==
    ASSUME AccountsInv, NEW o \in Owners, SelectWorkspace(o)
    PROVE  AccountsInv'
<1> DEFINE row == [exists |-> TRUE, active |-> TRUE, managed |-> account[o].managed,
                   secret |-> platform]
<1>1. /\ account' = [account EXCEPT ![o] = row] /\ Open(o, platform, FALSE)
      /\ behind' = behind \ {o} /\ UNCHANGED <<platform, entering, changing, founding>>
  BY DEF SelectWorkspace
<1>2. o \in People /\ o \notin MemberAccounts
  BY AccountsAssumption DEF People
<1>3. row \in AccountRows /\ row.secret = platform
  BY <1>2, AccountKnown, InvKnown DEF AccountRows
<1> HIDE DEF row
<1>4. account' \in [People -> AccountRows]
  BY <1>1, <1>3, InvKnown
<1>5. \A m \in MemberAccounts : account'[m] = account[m]
  BY <1>1, <1>2, InvKnown DEF People
<1>6. \A p \in Owners : account'[p].exists => p \in behind' \/ account'[p].secret = platform
  <2> TAKE p \in Owners
  <2>1. CASE p = o
    BY <1>1, <1>2, <1>3, <2>1, InvKnown
  <2>2. CASE p # o
    BY <1>1, <1>2, <2>2, InvKnown
  <2>3. QED
    BY <2>1, <2>2
<1>7. QED
  BY <1>1, <1>2, <1>4, <1>5, <1>6, InvKnown, OpenKeepsInv

-----------------------------------------------------------------------------
(* Requests between their two steps, and sessions that end.                  *)
LEMMA QuietKeepsAccounts ==
    ASSUME AccountsInv, UNCHANGED <<account, platform, behind>>, session' \subseteq session,
           changing' \subseteq changing,
           entering' \subseteq [account : People, secret : Secrets],
           founding' \subseteq [account : Owners, secret : Secrets]
    PROVE  AccountsInv'
BY InvKnown, AccountsKeepInv

LEMMA VerifyChangeKeepsInv ==
    ASSUME AccountsInv, NEW s \in session, VerifyChange(s)
    PROVE  AccountsInv'
<1> DEFINE c == [account |-> s.account, number |-> s.number]
<1>1. /\ changing' = changing \cup {c}
      /\ UNCHANGED <<account, platform, session, entering, founding, behind>>
  BY DEF VerifyChange
<1>2. c \in [account : People, number : 1 .. MaxSessions] /\ c.number = s.number /\ c.account = s.account
  BY InvKnown DEF Sessions
<1> HIDE DEF c
<1>3. TypeOKAccounts'
  BY <1>1, <1>2 DEF AccountsInv, TypeOKAccounts
<1>4. OwnersAgree' /\ SessionsAreCurrent'
  BY <1>1 DEF AccountsInv, OwnersAgree, SessionsAreCurrent, Existing
<1>5. NumbersAgree'
  BY <1>1, <1>2 DEF AccountsInv, NumbersAgree
<1>6. QED
  BY <1>3, <1>4, <1>5 DEF AccountsInv

(* A new password is in every owner's account, and in the one it is for.     *)
LEMMA NewPasswordKnown ==
    ASSUME AccountsInv, NEW a \in Existing, NEW new \in Secrets, NewPassword(a, new)
    PROVE  /\ account' \in [People -> AccountRows] /\ platform' \in Secrets /\ behind' \subseteq Owners
           /\ account'[a].secret = new
           /\ \A b \in People : account'[b].exists = account[b].exists
           /\ \A m \in MemberAccounts \ {a} : account'[m] = account[m]
           /\ \A o \in Owners : account'[o].exists => o \in behind' \/ account'[o].secret = platform'
<1>1. a \in People
  BY DEF Existing
<1>2. /\ account' = [Shared(a, new) EXCEPT ![a].managed = TRUE]
      /\ platform' = IF a \in Owners THEN new ELSE platform
      /\ behind' = IF a \in Owners THEN {} ELSE behind
  BY DEF NewPassword
<1>3. ASSUME NEW b \in People
      PROVE  /\ Shared(a, new)[b] \in AccountRows /\ Shared(a, new)[b].exists = account[b].exists
             /\ Shared(a, new)[b] = account[b] \/ Shared(a, new)[b].secret = new
             /\ b = a \/ {a, b} \subseteq Owners \cap Existing => Shared(a, new)[b].secret = new
             /\ ~(b = a \/ {a, b} \subseteq Owners \cap Existing) => Shared(a, new)[b] = account[b]
  <2>1. account[b] \in AccountRows
    BY InvKnown
  <2>2. /\ [account[b] EXCEPT !.secret = new] \in AccountRows
        /\ [account[b] EXCEPT !.secret = new].exists = account[b].exists
        /\ [account[b] EXCEPT !.secret = new].secret = new
    BY <2>1 DEF AccountRows
  <2>3. CASE b = a \/ {a, b} \subseteq Owners \cap Existing
    <3>1. Shared(a, new)[b] = [account[b] EXCEPT !.secret = new]
      BY <2>3 DEF Shared
    <3>2. QED
      BY <2>2, <2>3, <3>1
  <2>4. CASE ~(b = a \/ {a, b} \subseteq Owners \cap Existing)
    <3>1. Shared(a, new)[b] = account[b]
      BY <2>4 DEF Shared
    <3>2. QED
      BY <2>1, <2>4, <3>1
  <2>5. QED
    BY <2>3, <2>4
<1>4. Shared(a, new) \in [People -> AccountRows]
  BY <1>3 DEF Shared
<1> DEFINE old == Shared(a, new)[a]
           row == [old EXCEPT !.managed = TRUE]
<1>5. /\ row \in AccountRows /\ row.exists = account[a].exists /\ row.secret = new
  <2>1. old \in AccountRows /\ old.exists = account[a].exists /\ old.secret = new
    BY <1>1, <1>3
  <2> HIDE DEF old
  <2>2. row \in AccountRows /\ row.exists = old.exists /\ row.secret = old.secret
    BY <2>1 DEF AccountRows
  <2>3. QED
    BY <2>1, <2>2
<1>6. account' = [Shared(a, new) EXCEPT ![a] = row]
  BY <1>1, <1>2, <1>4
<1> HIDE DEF row, old
<1>7. account' \in [People -> AccountRows] /\ account'[a] = row
      /\ \A b \in People \ {a} : account'[b] = Shared(a, new)[b]
  BY <1>1, <1>4, <1>5, <1>6
<1>8. platform' \in Secrets /\ behind' \subseteq Owners
  BY <1>2, InvKnown
<1>9. account'[a].secret = new
  BY <1>5, <1>7
<1>10. \A b \in People : account'[b].exists = account[b].exists
  BY <1>3, <1>5, <1>7
<1>11. \A m \in MemberAccounts \ {a} : account'[m] = account[m]
  BY <1>3, <1>7, AccountsAssumption DEF People
<1>12. ASSUME NEW o \in Owners, account'[o].exists
       PROVE  o \in behind' \/ account'[o].secret = platform'
  <2>1. o \in People /\ o \in Existing
    BY <1>10, <1>12 DEF People, Existing
  <2>2. CASE a \in Owners
    <3>1. CASE o = a
      BY <1>2, <1>9, <2>2, <3>1
    <3>2. CASE o # a
      <4>1. {a, o} \subseteq Owners \cap Existing
        BY <2>1, <2>2
      <4>2. account'[o].secret = new
        BY <1>3, <1>7, <2>1, <3>2, <4>1
      <4>3. QED
        BY <1>2, <2>2, <4>2
    <3>3. QED
      BY <3>1, <3>2
  <2>3. CASE a \notin Owners
    <3>1. account'[o] = account[o]
      BY <1>3, <1>7, <2>1, <2>3
    <3>2. QED
      BY <1>2, <2>1, <2>3, <3>1, InvKnown DEF Existing
  <2>4. QED
    BY <2>2, <2>3
<1>13. QED
  BY <1>7, <1>8, <1>9, <1>10, <1>11, <1>12

(* Of the person's sessions only the one that changed it goes on.            *)
LEMMA ChangePasswordKeepsInv ==
    ASSUME AccountsInv, NEW c \in changing, NEW new \in Secrets, ChangePassword(c, new)
    PROVE  AccountsInv'
<1> DEFINE a == c.account
           Kept(own) == [account |-> own.account, number |-> own.number, secret |-> new, stale |-> FALSE]
           mine == {o \in session : o.number = c.number}
<1>1. /\ a \in Existing /\ NewPassword(a, new) /\ changing' = changing \ {c}
      /\ session' = (session \ Of(a)) \cup {Kept(own) : own \in mine}
      /\ UNCHANGED <<entering, founding>>
  BY DEF ChangePassword
<1>2. a \in People
  BY <1>1 DEF Existing
<1>3. /\ account' \in [People -> AccountRows] /\ platform' \in Secrets /\ behind' \subseteq Owners
      /\ account'[a].secret = new
      /\ \A b \in People : account'[b].exists = account[b].exists
      /\ \A m \in MemberAccounts \ {a} : account'[m] = account[m]
      /\ \A o \in Owners : account'[o].exists => o \in behind' \/ account'[o].secret = platform'
  BY <1>1, NewPasswordKnown
<1>4. ASSUME NEW s \in session'
      PROVE  /\ s \in Sessions
             /\ \E t \in session : s.number = t.number /\ s.account = t.account
             /\ s.account \in MemberAccounts =>
                   account'[s.account].exists /\ (s.stale \/ s.secret = account'[s.account].secret)
  <2>1. CASE s \in session \ Of(a)
    <3>1. s.account # a /\ s \in session
      BY <2>1 DEF Of
    <3>2. QED
      BY <1>3, <3>1, InvKnown
  <2>2. CASE s \in {Kept(own) : own \in mine}
    <3>1. PICK own \in mine : s = Kept(own)
      BY <2>2
    <3>2. own \in session /\ own.account = a /\ own \in Sessions
      BY InvKnown DEF AccountsInv, NumbersAgree
    <3>3. s \in Sessions /\ s.account = a /\ s.number = own.number /\ s.secret = new
      BY <3>1, <3>2 DEF Sessions
    <3>4. account'[a].exists
      BY <1>1, <1>2, <1>3 DEF Existing
    <3>5. QED
      BY <1>3, <3>2, <3>3, <3>4
  <2>3. QED
    BY <1>1, <2>1, <2>2
<1> HIDE DEF a
<1>5. QED
  BY <1>1, <1>3, <1>4, InvKnown, AccountsKeepInv

LEMMA ResetPasswordKeepsInv ==
    ASSUME AccountsInv, NEW a \in People, NEW new \in Secrets, ResetPassword(a, new)
    PROVE  AccountsInv'
<1>1. /\ a \in Existing /\ NewPassword(a, new) /\ session' = session \ Of(a)
      /\ UNCHANGED <<entering, changing, founding>>
  BY DEF ResetPassword
<1>2. /\ account' \in [People -> AccountRows] /\ platform' \in Secrets /\ behind' \subseteq Owners
      /\ \A b \in People : account'[b].exists = account[b].exists
      /\ \A m \in MemberAccounts \ {a} : account'[m] = account[m]
      /\ \A o \in Owners : account'[o].exists => o \in behind' \/ account'[o].secret = platform'
  BY <1>1, NewPasswordKnown
<1>3. \A s \in session' : s \in session /\ s.account # a
  BY <1>1 DEF Of
<1>4. QED
  BY <1>1, <1>2, <1>3, InvKnown, AccountsKeepInv

(* Members' accounts made, changed or deleted: no session of theirs goes on. *)
LEMMA MembersKeepInv ==
    ASSUME AccountsInv, account' \in [People -> AccountRows],
           \A o \in Owners : account'[o] = account[o],
           session' \subseteq session,
           \A s \in session' : s.account \in MemberAccounts =>
              account'[s.account].exists /\ account'[s.account].secret = account[s.account].secret,
           UNCHANGED <<platform, entering, changing, founding, behind>>
    PROVE  AccountsInv'
BY InvKnown, AccountsKeepInv

LEMMA AddAccountKeepsInv ==
    ASSUME AccountsInv, NEW a \in People, NEW new \in Secrets, AddAccount(a, new)
    PROVE  AccountsInv'
<1>1. /\ a \in MemberAccounts /\ ~account[a].exists /\ account' = [account EXCEPT ![a] = Created(new)]
      /\ UNCHANGED <<platform, session, entering, changing, founding, behind>>
  BY DEF AddAccount, Existing
<1>2. account' \in [People -> AccountRows] /\ \A b \in People \ {a} : account'[b] = account[b]
  BY <1>1, MadeTyped, InvKnown
<1>3. \A o \in Owners : account'[o] = account[o]
  BY <1>1, <1>2, AccountsAssumption DEF People
<1>4. \A s \in session : s.account # a
  BY <1>1, InvKnown
<1>5. QED
  BY <1>1, <1>2, <1>3, <1>4, InvKnown, MembersKeepInv

LEMMA GenerateMissingKeepsInv ==
    ASSUME AccountsInv, NEW new \in Secrets, GenerateMissing(new)
    PROVE  AccountsInv'
<1>1. PICK reset \in SUBSET Unmanaged, missing \in SUBSET (MemberAccounts \ Existing) :
         /\ account' = [a \in People |-> IF a \in reset \cup missing THEN Created(new) ELSE account[a]]
         /\ session' = session \ UNION {Of(a) : a \in reset}
  BY DEF GenerateMissing, kSubset
<1>2. UNCHANGED <<platform, entering, changing, founding, behind>>
  BY DEF GenerateMissing
<1>3. reset \subseteq MemberAccounts /\ missing \subseteq MemberAccounts
  BY DEF Unmanaged
<1>4. account' \in [People -> AccountRows]
  BY <1>1, MadeTyped, InvKnown
<1>5. \A o \in Owners : account'[o] = account[o]
  BY <1>1, <1>3, AccountsAssumption DEF People
<1>6. ASSUME NEW s \in session', s.account \in MemberAccounts
      PROVE  account'[s.account].exists /\ account'[s.account].secret = account[s.account].secret
  <2>1. s \in session /\ s.account \in People /\ account[s.account].exists
    BY <1>1, <1>6, InvKnown
  <2>2. s.account \notin reset
    BY <1>1, <2>1 DEF Of
  <2>3. s.account \notin missing
    BY <2>1 DEF Existing
  <2>4. QED
    BY <1>1, <2>1, <2>2, <2>3
<1>7. QED
  BY <1>1, <1>2, <1>4, <1>5, <1>6, MembersKeepInv

LEMMA SetActiveKeepsInv ==
    ASSUME AccountsInv, NEW a \in People, NEW active \in BOOLEAN, SetActive(a, active)
    PROVE  AccountsInv'
<1> DEFINE old == account[a]
           row == [old EXCEPT !.active = active]
<1>1. /\ a \in MemberAccounts /\ account' = [account EXCEPT ![a].active = active]
      /\ UNCHANGED <<platform, session, entering, changing, founding, behind>>
  BY DEF SetActive
<1>2. /\ row \in AccountRows /\ row.exists = account[a].exists /\ row.secret = account[a].secret
  <2>1. old \in AccountRows
    BY InvKnown
  <2> HIDE DEF old
  <2>2. row \in AccountRows /\ row.exists = old.exists /\ row.secret = old.secret
    BY <2>1 DEF AccountRows
  <2>3. QED
    BY <2>2 DEF old
<1>3. account' = [account EXCEPT ![a] = row]
  BY <1>1, InvKnown
<1> HIDE DEF row, old
<1>4. /\ account' \in [People -> AccountRows] /\ account'[a] = row
      /\ \A b \in People \ {a} : account'[b] = account[b]
  BY <1>2, <1>3, InvKnown
<1>5. \A o \in Owners : account'[o] = account[o]
  BY <1>1, <1>4, AccountsAssumption DEF People
<1>6. \A s \in session : s.account \in MemberAccounts =>
         account'[s.account].exists /\ account'[s.account].secret = account[s.account].secret
  BY <1>2, <1>4, InvKnown
<1>7. QED
  BY <1>1, <1>4, <1>5, <1>6, MembersKeepInv

LEMMA DeleteAccountKeepsInv ==
    ASSUME AccountsInv, NEW a \in People, DeleteAccount(a)
    PROVE  AccountsInv'
<1>1. /\ a \in MemberAccounts /\ account' = [account EXCEPT ![a] = Nobody]
      /\ session' = session \ Of(a)
      /\ UNCHANGED <<platform, entering, changing, founding, behind>>
  BY DEF DeleteAccount
<1>2. account' \in [People -> AccountRows] /\ \A b \in People \ {a} : account'[b] = account[b]
  BY <1>1, MadeTyped, InvKnown
<1>3. \A o \in Owners : account'[o] = account[o]
  BY <1>1, <1>2, AccountsAssumption DEF People
<1>4. \A s \in session' : s \in session /\ s.account # a
  BY <1>1 DEF Of
<1>5. QED
  BY <1>1, <1>2, <1>3, <1>4, InvKnown, MembersKeepInv

(* An owner's account made with its workspace, or deleted with it.           *)
LEMMA FoundedKeepsInv ==
    ASSUME AccountsInv, NEW f \in founding, Founded(f)
    PROVE  AccountsInv'
<1> DEFINE o == f.account
           row == [Created(f.secret) EXCEPT !.managed = FALSE]
<1>1. /\ founding' \subseteq founding /\ account' = [account EXCEPT ![o] = row]
      /\ behind' = IF f.secret = platform THEN behind ELSE behind \cup {o}
      /\ UNCHANGED <<platform, session, entering, changing>>
  BY DEF Founded
<1>2. o \in Owners /\ f.secret \in Secrets
  BY InvKnown
<1>3. row \in AccountRows /\ row.secret = f.secret
  BY <1>2, MadeTyped
<1> HIDE DEF row, o
<1>4. /\ account' \in [People -> AccountRows] /\ (o \in People => account'[o] = row)
      /\ \A b \in People \ {o} : account'[b] = account[b]
  BY <1>1, <1>3, InvKnown
<1>5. \A p \in Owners : account'[p].exists => p \in behind' \/ account'[p].secret = platform
  <2> TAKE p \in Owners
  <2>1. CASE p = o
    BY <1>1, <1>3, <1>4, <2>1 DEF People
  <2>2. CASE p # o
    BY <1>1, <1>4, <2>2, InvKnown DEF People
  <2>3. QED
    BY <2>1, <2>2
<1>6. \A m \in MemberAccounts : account'[m] = account[m]
  BY <1>2, <1>4, AccountsAssumption DEF People
<1>7. behind' \subseteq Owners
  BY <1>1, <1>2, InvKnown
<1>8. QED
  BY <1>1, <1>4, <1>5, <1>6, <1>7, InvKnown, AccountsKeepInv

LEMMA DeleteWorkspaceKeepsInv ==
    ASSUME AccountsInv, NEW o \in Owners, DeleteWorkspace(o)
    PROVE  AccountsInv'
<1>1. /\ account' = [account EXCEPT ![o] = Nobody] /\ session' = session \ Of(o)
      /\ behind' = behind \ {o} /\ UNCHANGED <<platform, entering, changing, founding>>
  BY DEF DeleteWorkspace
<1>2. /\ account' \in [People -> AccountRows] /\ account'[o] = Nobody
      /\ \A b \in People \ {o} : account'[b] = account[b]
  BY <1>1, MadeTyped, InvKnown DEF People
<1>3. \A p \in Owners : account'[p].exists => p \in behind' \/ account'[p].secret = platform
  BY <1>1, <1>2, MadeTyped, InvKnown DEF People
<1>4. \A m \in MemberAccounts : account'[m] = account[m]
  BY <1>2, AccountsAssumption DEF People
<1>5. QED
  BY <1>1, <1>2, <1>3, <1>4, InvKnown, AccountsKeepInv

-----------------------------------------------------------------------------
LEMMA AccountsStep == AccountsInv /\ [NextAccounts]_accountVars => AccountsInv'
<1> SUFFICES ASSUME AccountsInv, [NextAccounts]_accountVars
             PROVE  AccountsInv'
  OBVIOUS
<1>1. ASSUME NEW a \in People, VerifyLogin(a)
      PROVE  AccountsInv'
  <2> DEFINE login == [account |-> a, secret |-> account[a].secret]
  <2>1. /\ entering' = entering \cup {login}
        /\ UNCHANGED <<account, platform, session, changing, founding, behind>>
    BY <1>1 DEF VerifyLogin
  <2>2. login \in [account : People, secret : Secrets]
    BY AccountKnown
  <2> HIDE DEF login
  <2>3. QED
    BY <2>1, <2>2, InvKnown, QuietKeepsAccounts
<1>2. ASSUME NEW a \in People, Found(a)
      PROVE  AccountsInv'
  <2> DEFINE f == [account |-> a, secret |-> platform]
  <2>1. /\ a \in Owners /\ founding' = founding \cup {f}
        /\ UNCHANGED <<account, platform, session, entering, changing, behind>>
    BY <1>2 DEF Found
  <2>2. f \in [account : Owners, secret : Secrets]
    BY <2>1, InvKnown
  <2> HIDE DEF f
  <2>3. QED
    BY <2>1, <2>2, InvKnown, QuietKeepsAccounts
<1>3. ASSUME NEW a \in People, SelectWorkspace(a) \/ DeleteWorkspace(a)
      PROVE  AccountsInv'
  <2>1. a \in Owners
    BY <1>3 DEF SelectWorkspace, DeleteWorkspace
  <2>2. QED
    BY <1>3, <2>1, SelectWorkspaceKeepsInv, DeleteWorkspaceKeepsInv
<1>4. ASSUME NEW a \in People,
             \/ DeleteAccount(a)
             \/ \E active \in BOOLEAN : SetActive(a, active)
             \/ \E new \in Secrets : ResetPassword(a, new) \/ AddAccount(a, new)
      PROVE  AccountsInv'
  BY <1>4, DeleteAccountKeepsInv, SetActiveKeepsInv, ResetPasswordKeepsInv, AddAccountKeepsInv
<1>5. ASSUME NEW login \in entering, Enter(login)
      PROVE  AccountsInv'
  BY <1>5, EnterKeepsInv
<1>6. ASSUME NEW s \in session, EndSession(s) \/ VerifyChange(s)
      PROVE  AccountsInv'
  <2>1. CASE EndSession(s)
    BY <2>1, InvKnown, QuietKeepsAccounts DEF EndSession
  <2>2. QED
    BY <1>6, <2>1, VerifyChangeKeepsInv
<1>7. ASSUME NEW s \in changing, AbandonChange(s) \/ \E new \in Secrets : ChangePassword(s, new)
      PROVE  AccountsInv'
  <2>1. CASE AbandonChange(s)
    BY <2>1, InvKnown, QuietKeepsAccounts DEF AbandonChange
  <2>2. QED
    BY <1>7, <2>1, ChangePasswordKeepsInv
<1>8. ASSUME NEW f \in founding, Founded(f)
      PROVE  AccountsInv'
  BY <1>8, FoundedKeepsInv
<1>9. ASSUME NEW new \in Secrets, GenerateMissing(new)
      PROVE  AccountsInv'
  BY <1>9, GenerateMissingKeepsInv
<1>10. CASE UNCHANGED accountVars
  BY <1>10, InvKnown, QuietKeepsAccounts DEF accountVars
<1>11. QED
  BY <1>1, <1>2, <1>3, <1>4, <1>5, <1>6, <1>7, <1>8, <1>9, <1>10 DEF NextAccounts

(* TypeOKAccounts holds for any people, workspaces, accounts and secrets.    *)
THEOREM AccountsTypeCorrect == SpecAccounts => []TypeOKAccounts
<1>1. AccountsInv => TypeOKAccounts
  BY DEF AccountsInv
<1>2. QED
  BY InitAccountsInv, AccountsStep, <1>1, PTL DEF SpecAccounts

LEMMA PasswordsReach == AccountsInv => NewPasswordsReachEveryone
  BY DEF AccountsInv, OwnersAgree, SessionsAreCurrent, NewPasswordsReachEveryone

(* No linked account keeps an old password and no member's session outlives  *)
(* a change of his, but for the two transactions named in the property.      *)
THEOREM PasswordsReachEveryone == SpecAccounts => []NewPasswordsReachEveryone
  BY InitAccountsInv, AccountsStep, PasswordsReach, PTL DEF SpecAccounts

-----------------------------------------------------------------------------
(***************************************************************************)
(* Directory, accounts and rosters.                                        *)
(***************************************************************************)

(* An entry's name is among those it had, and no other entry's.              *)
EntriesAreNamed ==
    /\ \A e \in DOMAIN entries : entries[e].name \in entries[e].names
    /\ \A e, f \in DOMAIN entries : entries[e].name = entries[f].name => e = f

(* An account's entry is active and bears the account's name.                *)
MembersAreLinked ==
    \A m \in members : entries[m.entry].active /\ entries[m.entry].name = m.name

Listed(rows, e, names) == \E row \in rows : row.entry = e \/ row.name \in names

(* The property, and the same of the rosters that are not committed yet.     *)
MembersAreListed ==
    \A m \in members, j \in RosterJournees : phase[j] # "none" =>
       \/ <<j, m.entry>> \in excused
       \/ Listed(roster[j], m.entry, entries[m.entry].names)

RosterInv == TypeOKRoster /\ EntriesAreNamed /\ MembersAreLinked /\ MembersAreListed

LEMMA EntryKnown ==
    ASSUME NEW dir \in Seq(DirectoryEntries), NEW e \in DOMAIN dir
    PROVE  /\ e \in 1..Len(dir) /\ Len(dir) \in Nat /\ dir[e] \in DirectoryEntries
           /\ dir[e].name \in EvaluatorNames
<1>1. e \in 1..Len(dir) /\ Len(dir) \in Nat /\ dir[e] \in DirectoryEntries
  OBVIOUS
<1>2. QED
  BY <1>1 DEF DirectoryEntries

LEMMA MarkedRow ==
    ASSUME NEW row \in RosterRows, NEW active \in BOOLEAN, NEW present \in BOOLEAN
    PROVE  /\ Marked(row, active, present) \in RosterRows
           /\ Marked(row, active, present).entry = row.entry
           /\ Marked(row, active, present).name = row.name
BY DEF Marked, RosterRows

LEMMA AbsentRowTyped ==
    ASSUME NEW e \in 0..MaxRosterWrites, NEW n \in EvaluatorNames
    PROVE  /\ AbsentRow(e, n) \in RosterRows
           /\ AbsentRow(e, n).entry = e /\ AbsentRow(e, n).name = n
BY DEF AbsentRow, RosterRows

LEMMA LinkedRow ==
    ASSUME NEW dir \in Seq(DirectoryEntries), Len(dir) <= MaxRosterWrites, NEW rows,
           NEW row \in RosterRows
    PROVE  /\ Linked(row, rows, dir) \in RosterRows
           /\ Linked(row, rows, dir).name = row.name
           /\ row.entry # 0 => Linked(row, rows, dir).entry = row.entry
<1> DEFINE mine == {e \in ActiveEntries(dir) : dir[e].name = row.name /\ Unlisted(rows, e)}
           found == CHOOSE e \in mine : TRUE
<1>1. CASE row.entry = 0 /\ mine # {}
  <2>1. found \in mine
    BY <1>1
  <2>2. found \in DOMAIN dir
    BY <2>1 DEF ActiveEntries
  <2> HIDE DEF found
  <2>3. found \in 0..MaxRosterWrites
    BY <2>2, EntryKnown, RosterAssumption
  <2>4. /\ [row EXCEPT !.entry = found] \in RosterRows
        /\ [row EXCEPT !.entry = found].name = row.name
    BY <2>3 DEF RosterRows
  <2>5. Linked(row, rows, dir) = [row EXCEPT !.entry = found]
    BY <1>1 DEF Linked, found
  <2>6. QED
    BY <1>1, <2>4, <2>5
<1>2. CASE ~(row.entry = 0 /\ mine # {})
  <2>1. Linked(row, rows, dir) = row
    BY <1>2 DEF Linked
  <2>2. QED
    BY <2>1
<1>3. QED
  BY <1>1, <1>2

(* A roster that was populated lists every active entry, and whom it listed. *)
LEMMA PopulatedLists ==
    ASSUME NEW dir \in Seq(DirectoryEntries), Len(dir) <= MaxRosterWrites,
           NEW rows \in SUBSET RosterRows
    PROVE  /\ Populated(rows, dir) \in SUBSET RosterRows
           /\ \A names : \A e \in ActiveEntries(dir) :
                 dir[e].name \in names => Listed(Populated(rows, dir), e, names)
<1> DEFINE new == {f \in ActiveEntries(dir) : Unlisted(rows, f) /\ ~HasName(rows, dir[f].name)}
<1>1. Populated(rows, dir)
         = {Linked(row, rows, dir) : row \in rows} \cup {AbsentRow(f, dir[f].name) : f \in new}
  BY DEF Populated
<1>2. ASSUME NEW f \in ActiveEntries(dir)
      PROVE  /\ AbsentRow(f, dir[f].name) \in RosterRows /\ AbsentRow(f, dir[f].name).entry = f
             /\ f # 0
  <2>1. f \in DOMAIN dir
    BY DEF ActiveEntries
  <2>2. f \in 1..Len(dir) /\ Len(dir) \in Nat /\ dir[f].name \in EvaluatorNames
    BY <2>1, EntryKnown
  <2>3. f \in 0..MaxRosterWrites /\ f # 0
    BY <2>2, RosterAssumption
  <2>4. QED
    BY <2>2, <2>3, AbsentRowTyped
<1>3. \A row \in rows :
         /\ Linked(row, rows, dir) \in RosterRows /\ Linked(row, rows, dir).name = row.name
         /\ row.entry # 0 => Linked(row, rows, dir).entry = row.entry
  BY LinkedRow
<1>4. Populated(rows, dir) \in SUBSET RosterRows
  BY <1>1, <1>2, <1>3
<1>5. ASSUME NEW e \in ActiveEntries(dir), NEW names, dir[e].name \in names
      PROVE  Listed(Populated(rows, dir), e, names)
  <2>1. CASE e \in new
    <3>1. AbsentRow(e, dir[e].name) \in Populated(rows, dir)
      BY <1>1, <2>1
    <3> HIDE DEF new
    <3>2. QED
      BY <1>2, <3>1 DEF Listed
  <2>2. CASE ~Unlisted(rows, e)
    <3>1. PICK row \in rows : row.entry = e
      BY <2>2 DEF Unlisted
    <3>2. Linked(row, rows, dir).entry = e
      BY <1>2, <1>3, <3>1
    <3>3. Linked(row, rows, dir) \in Populated(rows, dir)
      BY <1>1
    <3>4. QED
      BY <3>2, <3>3 DEF Listed
  <2>3. CASE HasName(rows, dir[e].name)
    <3>1. PICK row \in rows : row.name = dir[e].name
      BY <2>3 DEF HasName
    <3>2. Linked(row, rows, dir).name \in names
      BY <1>3, <1>5, <3>1
    <3>3. Linked(row, rows, dir) \in Populated(rows, dir)
      BY <1>1
    <3>4. QED
      BY <3>2, <3>3 DEF Listed
  <2>4. QED
    BY <2>1, <2>2, <2>3
<1>6. QED
  BY <1>4, <1>5

(* The directory with an entry of that name, active; the others as they were. *)
LEMMA RegisteredKnown ==
    ASSUME NEW dir \in Seq(DirectoryEntries), NEW n \in EvaluatorNames,
           \A e \in DOMAIN dir : dir[e].name \in dir[e].names,
           \A e, f \in DOMAIN dir : dir[e].name = dir[f].name => e = f
    PROVE  LET new == Registered(dir, n)
           IN  /\ new \in Seq(DirectoryEntries) /\ Len(new) \in {Len(dir), Len(dir) + 1}
               /\ EntryOf(new, n) \in DOMAIN new /\ new[EntryOf(new, n)].name = n
               /\ new[EntryOf(new, n)].active
               /\ \A e \in DOMAIN new : new[e].name \in new[e].names
               /\ \A e, f \in DOMAIN new : new[e].name = new[f].name => e = f
               /\ \A e \in DOMAIN dir :
                     /\ e \in DOMAIN new /\ new[e].name = dir[e].name /\ new[e].names = dir[e].names
                     /\ dir[e].active => new[e].active
<1> DEFINE new == Registered(dir, n)
<1>1. Len(dir) \in Nat /\ DOMAIN dir = 1..Len(dir)
  OBVIOUS
<1>2. CASE EntryNamed(dir, n) # {}
  <2>1. new = [e \in DOMAIN dir |->
                  IF dir[e].name = n THEN [dir[e] EXCEPT !.active = TRUE] ELSE dir[e]]
    BY <1>2 DEF Registered
  <2>2. ASSUME NEW e \in DOMAIN dir
        PROVE  /\ new[e] \in DirectoryEntries /\ new[e].name = dir[e].name
               /\ new[e].names = dir[e].names
               /\ dir[e].active => new[e].active
               /\ dir[e].name = n => new[e].active
    <3>1. dir[e] \in DirectoryEntries
      BY EntryKnown
    <3>2. /\ [dir[e] EXCEPT !.active = TRUE] \in DirectoryEntries
          /\ [dir[e] EXCEPT !.active = TRUE].name = dir[e].name
          /\ [dir[e] EXCEPT !.active = TRUE].names = dir[e].names
          /\ [dir[e] EXCEPT !.active = TRUE].active
      BY <3>1 DEF DirectoryEntries
    <3>3. new[e] = IF dir[e].name = n THEN [dir[e] EXCEPT !.active = TRUE] ELSE dir[e]
      BY <2>1
    <3>4. QED
      BY <3>1, <3>2, <3>3
  <2>3. new \in [1..Len(dir) -> DirectoryEntries] /\ DOMAIN new = DOMAIN dir
    BY <1>1, <2>1, <2>2
  <2>4. new \in Seq(DirectoryEntries) /\ Len(new) = Len(dir)
    BY <1>1, <2>3
  <2>5. PICK e \in DOMAIN dir : dir[e].name = n
    BY <1>2 DEF EntryNamed
  <2>6. EntryOf(new, n) \in DOMAIN new /\ new[EntryOf(new, n)].name = n
    BY <2>2, <2>3, <2>5 DEF EntryOf
  <2> HIDE DEF new
  <2>7. new[EntryOf(new, n)].active
    BY <2>2, <2>3, <2>6
  <2>8. QED
    BY <2>2, <2>3, <2>4, <2>6, <2>7 DEF new
<1>3. CASE EntryNamed(dir, n) = {}
  <2> DEFINE entry == [name |-> n, names |-> {n}, active |-> TRUE]
  <2>1. new = Append(dir, entry)
    BY <1>3 DEF Registered
  <2>2. entry \in DirectoryEntries /\ entry.name = n /\ entry.names = {n} /\ entry.active
    BY DEF DirectoryEntries
  <2>3. \A e \in DOMAIN dir : dir[e].name # n
    BY <1>3 DEF EntryNamed
  <2> HIDE DEF entry, new
  <2>4. /\ new \in Seq(DirectoryEntries) /\ Len(new) = Len(dir) + 1
        /\ DOMAIN new = 1..(Len(dir) + 1)
        /\ \A e \in DOMAIN dir : new[e] = dir[e]
        /\ new[Len(dir) + 1] = entry
    BY <1>1, <2>1, <2>2
  <2>5. \A e \in DOMAIN new : e \in DOMAIN dir \/ e = Len(dir) + 1
    BY <1>1, <2>4
  <2>6. Len(dir) + 1 \in DOMAIN new /\ DOMAIN dir \subseteq DOMAIN new
    BY <1>1, <2>4
  <2>7. EntryOf(new, n) \in DOMAIN new /\ new[EntryOf(new, n)].name = n
    BY <2>2, <2>4, <2>6 DEF EntryOf
  <2>8. EntryOf(new, n) = Len(dir) + 1
    BY <2>3, <2>4, <2>5, <2>7
  <2>9. \A e \in DOMAIN new : new[e].name \in new[e].names
    BY <2>2, <2>4, <2>5
  <2>10. \A e, f \in DOMAIN new : new[e].name = new[f].name => e = f
    BY <2>2, <2>3, <2>4, <2>5
  <2>11. QED
    BY <2>2, <2>4, <2>6, <2>7, <2>8, <2>9, <2>10 DEF new
<1>4. QED
  BY <1>2, <1>3

-----------------------------------------------------------------------------
LEMMA InitRosterInv == InitRoster => RosterInv
<1> SUFFICES ASSUME InitRoster
             PROVE  RosterInv
  OBVIOUS
<1>1. entries = <<>> /\ entries \in Seq(DirectoryEntries) /\ Len(entries) = 0 /\ DOMAIN entries = {}
  BY DEF InitRoster
<1>2. QED
  BY <1>1, RosterAssumption DEF InitRoster, RosterInv, TypeOKRoster, EntriesAreNamed,
     MembersAreLinked, MembersAreListed

LEMMA RosterKnown ==
    ASSUME RosterInv
    PROVE  /\ entries \in Seq(DirectoryEntries) /\ Len(entries) \in Nat
           /\ Len(entries) <= rosterWrites /\ rosterWrites \in 0..MaxRosterWrites
           /\ rosterWrites <= MaxRosterWrites /\ Len(entries) <= MaxRosterWrites
           /\ MaxRosterWrites \in Nat
           /\ \A e \in DOMAIN entries : /\ entries[e].name \in entries[e].names
                                        /\ entries[e].name \in EvaluatorNames
                                        /\ e # 0 /\ e \in 0..MaxRosterWrites
           /\ \A e, f \in DOMAIN entries : entries[e].name = entries[f].name => e = f
           /\ \A m \in members : /\ m \in [name : EvaluatorNames, entry : DOMAIN entries]
                                 /\ m.name \in EvaluatorNames /\ m.entry \in DOMAIN entries
                                 /\ entries[m.entry].active /\ entries[m.entry].name = m.name
           /\ \A j \in RosterJournees : roster[j] \in SUBSET RosterRows
<1>1. /\ entries \in Seq(DirectoryEntries) /\ Len(entries) \in Nat
      /\ Len(entries) <= rosterWrites /\ rosterWrites \in 0..MaxRosterWrites
      /\ MaxRosterWrites \in Nat
  BY RosterAssumption DEF RosterInv, TypeOKRoster
<1>2. rosterWrites <= MaxRosterWrites /\ Len(entries) <= MaxRosterWrites
  BY <1>1
<1>3. ASSUME NEW e \in DOMAIN entries
      PROVE  entries[e].name \in EvaluatorNames /\ e # 0 /\ e \in 0..MaxRosterWrites
  <2>1. e \in 1..Len(entries) /\ entries[e].name \in EvaluatorNames
    BY <1>1, EntryKnown
  <2>2. QED
    BY <1>1, <1>2, <2>1
<1>4. \A m \in members : /\ m \in [name : EvaluatorNames, entry : DOMAIN entries]
                         /\ m.name \in EvaluatorNames /\ m.entry \in DOMAIN entries
  BY DEF RosterInv, TypeOKRoster
<1>5. \A j \in RosterJournees : roster[j] \in SUBSET RosterRows
  BY DEF RosterInv, TypeOKRoster
<1>6. QED
  BY <1>1, <1>2, <1>3, <1>4, <1>5 DEF RosterInv, EntriesAreNamed, MembersAreLinked

LEMMA WriteCounted ==
    ASSUME RosterInv, Write
    PROVE  /\ rosterWrites' \in 0..MaxRosterWrites /\ rosterWrites' = rosterWrites + 1
           /\ \A dir : Len(dir) \in {Len(entries), Len(entries) + 1} => Len(dir) <= rosterWrites'
           /\ \A dir : Len(dir) \in {Len(entries), Len(entries) + 1} => Len(dir) <= MaxRosterWrites
BY RosterKnown DEF Write

(* Rosters change, the directory and the accounts do not.                    *)
LEMMA RostersKeepInv ==
    ASSUME RosterInv, UNCHANGED <<entries, members>>, rosterWrites' \in 0..MaxRosterWrites,
           Len(entries) <= rosterWrites',
           phase' \in [RosterJournees -> {"none", "creating", "created"}],
           roster' \in [RosterJournees -> SUBSET RosterRows],
           \A m \in members, j \in RosterJournees : phase'[j] # "none" =>
              \/ <<j, m.entry>> \in excused'
              \/ Listed(roster'[j], m.entry, entries[m.entry].names)
    PROVE  RosterInv'
<1>1. TypeOKRoster'
  BY DEF RosterInv, TypeOKRoster
<1>2. EntriesAreNamed' /\ MembersAreLinked'
  BY DEF RosterInv, EntriesAreNamed, MembersAreLinked
<1>3. MembersAreListed'
  BY DEF MembersAreListed
<1>4. QED
  BY <1>1, <1>2, <1>3 DEF RosterInv

(* Every row of one roster stays, by its entry and its name.                 *)
LEMMA RowsKept ==
    ASSUME RosterInv, UNCHANGED <<entries, members, phase, excused>>, Write,
           NEW j \in RosterJournees, NEW rows \in SUBSET RosterRows,
           roster' = [roster EXCEPT ![j] = rows],
           \A row \in roster[j] : \E kept \in rows : kept.entry = row.entry /\ kept.name = row.name
    PROVE  RosterInv'
<1>1. rosterWrites' \in 0..MaxRosterWrites /\ Len(entries) <= rosterWrites'
  BY WriteCounted, RosterKnown
<1>2. /\ roster \in [RosterJournees -> SUBSET RosterRows]
      /\ phase \in [RosterJournees -> {"none", "creating", "created"}]
  BY DEF RosterInv, TypeOKRoster
<1>3. roster' \in [RosterJournees -> SUBSET RosterRows]
  BY <1>2
<1>4. ASSUME NEW m \in members, NEW k \in RosterJournees, phase[k] # "none"
      PROVE  <<k, m.entry>> \in excused \/ Listed(roster'[k], m.entry, entries[m.entry].names)
  <2>1. <<k, m.entry>> \in excused \/ Listed(roster[k], m.entry, entries[m.entry].names)
    BY <1>4 DEF RosterInv, MembersAreListed
  <2>2. CASE k = j
    <3>1. roster'[k] = rows
      BY <1>2, <2>2
    <3>2. QED
      BY <2>1, <2>2, <3>1 DEF Listed
  <2>3. CASE k # j
    BY <1>2, <2>1, <2>3
  <2>4. QED
    BY <2>2, <2>3
<1>5. QED
  BY <1>1, <1>2, <1>3, <1>4, RostersKeepInv

LEMMA RegisterKeepsInv ==
    ASSUME RosterInv, Write, NEW n \in EvaluatorNames, RegisterEverywhere(n), UNCHANGED phase
    PROVE  RosterInv'
<1> DEFINE dir == Registered(entries, n)
           own == EntryOf(dir, n)
<1>1. /\ dir \in Seq(DirectoryEntries) /\ Len(dir) \in {Len(entries), Len(entries) + 1}
      /\ own \in DOMAIN dir /\ dir[own].name = n /\ dir[own].active
      /\ \A e \in DOMAIN dir : dir[e].name \in dir[e].names
      /\ \A e, f \in DOMAIN dir : dir[e].name = dir[f].name => e = f
      /\ \A e \in DOMAIN entries :
            /\ e \in DOMAIN dir /\ dir[e].name = entries[e].name /\ dir[e].names = entries[e].names
            /\ entries[e].active => dir[e].active
  BY RosterKnown, RegisteredKnown
<1>2. /\ entries' = dir
      /\ members' \in {members, members \cup {[name |-> n, entry |-> own]}}
      /\ roster' = [j \in RosterJournees |->
             IF j \in CreatedJournees THEN Populated(roster[j], dir) ELSE roster[j]]
      /\ excused' = {pair \in excused : pair[1] \notin CreatedJournees} \cup
             {<<j, own>> : j \in {k \in RosterJournees : phase[k] = "creating"}}
  BY DEF RegisterEverywhere
<1> HIDE DEF dir, own
<1>3. rosterWrites' \in 0..MaxRosterWrites /\ Len(dir) <= rosterWrites' /\ Len(dir) <= MaxRosterWrites
  BY <1>1, WriteCounted
<1>4. \A m \in members' : \/ m \in members
                           \/ m = [name |-> n, entry |-> own]
  BY <1>2
<1>5. \A m \in members' : /\ m \in [name : EvaluatorNames, entry : DOMAIN dir]
                          /\ dir[m.entry].active /\ dir[m.entry].name = m.name
                          /\ m.entry \in DOMAIN dir
  BY <1>1, <1>4, RosterKnown
<1>6. \A j \in RosterJournees : roster[j] \in SUBSET RosterRows
  BY RosterKnown
<1>7. \A j \in RosterJournees : Populated(roster[j], dir) \in SUBSET RosterRows
  BY <1>1, <1>3, <1>6, PopulatedLists
<1>8. TypeOKRoster'
  <2>1. roster' \in [RosterJournees -> SUBSET RosterRows]
    BY <1>2, <1>6, <1>7
  <2>2. members' \subseteq [name : EvaluatorNames, entry : DOMAIN dir]
    BY <1>5
  <2>3. QED
    BY <1>1, <1>2, <1>3, <2>1, <2>2 DEF RosterInv, TypeOKRoster
<1>9. EntriesAreNamed' /\ MembersAreLinked'
  BY <1>1, <1>2, <1>5 DEF EntriesAreNamed, MembersAreLinked
<1>10. ASSUME NEW m \in members', NEW j \in RosterJournees, phase[j] # "none"
       PROVE  <<j, m.entry>> \in excused' \/ Listed(roster'[j], m.entry, dir[m.entry].names)
  <2>1. CASE j \in CreatedJournees
    <3>1. roster'[j] = Populated(roster[j], dir)
      BY <1>2, <2>1
    <3>2. m.entry \in ActiveEntries(dir) /\ dir[m.entry].name \in dir[m.entry].names
      BY <1>1, <1>5 DEF ActiveEntries
    <3>3. QED
      BY <1>1, <1>3, <1>6, <3>1, <3>2, PopulatedLists
  <2>2. CASE j \notin CreatedJournees
    <3>1. phase[j] = "creating" /\ roster'[j] = roster[j]
      BY <1>2, <1>10, <2>2 DEF CreatedJournees, RosterInv, TypeOKRoster
    <3>2. CASE m \in members
      <4>1. <<j, m.entry>> \in excused \/ Listed(roster[j], m.entry, entries[m.entry].names)
        BY <1>10, <3>2 DEF RosterInv, MembersAreListed
      <4>2. dir[m.entry].names = entries[m.entry].names
        BY <1>1, <3>2, RosterKnown
      <4>3. <<j, m.entry>>[1] = j
        OBVIOUS
      <4>4. <<j, m.entry>> \in excused => <<j, m.entry>> \in excused'
        BY <1>2, <2>2, <4>3
      <4>5. QED
        BY <3>1, <4>1, <4>2, <4>4
    <3>3. CASE m = [name |-> n, entry |-> own]
      BY <1>2, <3>1, <3>3
    <3>4. QED
      BY <1>4, <3>2, <3>3
  <2>3. QED
    BY <2>1, <2>2
<1>11. MembersAreListed'
  BY <1>2, <1>10 DEF MembersAreListed
<1>12. QED
  BY <1>8, <1>9, <1>11 DEF RosterInv

LEMMA AddToJourneeKeepsInv ==
    ASSUME RosterInv, NEW j \in RosterJournees, NEW n \in EvaluatorNames, AddToJournee(j, n)
    PROVE  RosterInv'
<1> DEFINE known == EntryNamed(entries, n)
           same  == {row \in roster[j] : row.entry \in known}
           found == IF known = {} THEN 0 ELSE EntryOf(entries, n)
           kept(row) == Marked(row, row.active \/ row \in same, row.present)
           new   == IF same # {} THEN {kept(row) : row \in roster[j]}
                    ELSE roster[j] \cup {AbsentRow(found, n)}
<1>1. roster \in [RosterJournees -> SUBSET RosterRows]
  BY DEF RosterInv, TypeOKRoster
<1>2. Write /\ roster' = [roster EXCEPT ![j] = new] /\ UNCHANGED <<entries, members, phase, excused>>
  BY <1>1 DEF AddToJournee
<1>3. found \in 0..MaxRosterWrites
  <2>1. CASE known = {}
    BY <2>1, RosterAssumption
  <2>2. CASE known # {}
    <3>1. PICK e \in DOMAIN entries : entries[e].name = n
      BY <2>2 DEF EntryNamed
    <3>2. EntryOf(entries, n) \in DOMAIN entries
      BY <3>1 DEF EntryOf
    <3>3. QED
      BY <2>2, <3>2, RosterKnown
  <2>3. QED
    BY <2>1, <2>2
<1>4. AbsentRow(found, n) \in RosterRows
  BY <1>3, AbsentRowTyped
<1>5. ASSUME NEW row \in roster[j]
      PROVE  kept(row) \in RosterRows /\ kept(row).entry = row.entry /\ kept(row).name = row.name
  <2>1. row \in RosterRows
    BY <1>1
  <2>2. row.present \in BOOLEAN /\ (row.active \/ row \in same) \in BOOLEAN
    BY <2>1 DEF RosterRows
  <2>3. QED
    BY <2>1, <2>2, MarkedRow
<1> HIDE DEF kept, same, found
<1>6. new \in SUBSET RosterRows
  BY <1>1, <1>4, <1>5
<1>7. \A row \in roster[j] : \E r \in new : r.entry = row.entry /\ r.name = row.name
  BY <1>5
<1> HIDE DEF new
<1>8. QED
  BY <1>2, <1>6, <1>7, RowsKept

LEMMA ReuseKeepsInv ==
    ASSUME RosterInv, NEW j \in RosterJournees, NEW e \in DOMAIN entries, Reuse(j, e)
    PROVE  RosterInv'
<1> DEFINE kept(row) == Marked(row, row.active \/ row.entry = e, row.present)
           new == IF Unlisted(roster[j], e) THEN roster[j] \cup {AbsentRow(e, entries[e].name)}
                  ELSE {kept(row) : row \in roster[j]}
<1>1. roster \in [RosterJournees -> SUBSET RosterRows]
  BY DEF RosterInv, TypeOKRoster
<1>2. Write /\ roster' = [roster EXCEPT ![j] = new] /\ UNCHANGED <<entries, members, phase, excused>>
  BY <1>1 DEF Reuse
<1>3. AbsentRow(e, entries[e].name) \in RosterRows
  BY RosterKnown, AbsentRowTyped
<1>4. ASSUME NEW row \in roster[j]
      PROVE  kept(row) \in RosterRows /\ kept(row).entry = row.entry /\ kept(row).name = row.name
  <2>1. row \in RosterRows
    BY <1>1
  <2>2. row.present \in BOOLEAN /\ (row.active \/ row.entry = e) \in BOOLEAN
    BY <2>1 DEF RosterRows
  <2>3. QED
    BY <2>1, <2>2, MarkedRow
<1> HIDE DEF kept
<1>5. new \in SUBSET RosterRows
  BY <1>1, <1>3, <1>4
<1>6. \A row \in roster[j] : \E r \in new : r.entry = row.entry /\ r.name = row.name
  BY <1>4
<1> HIDE DEF new
<1>7. QED
  BY <1>2, <1>5, <1>6, RowsKept

LEMMA SaveAttendanceKeepsInv ==
    ASSUME RosterInv, NEW j \in RosterJournees, NEW row \in roster[j], NEW active \in BOOLEAN,
           NEW present \in BOOLEAN, SaveAttendance(j, row, active, present)
    PROVE  RosterInv'
<1> DEFINE new == (roster[j] \ {row}) \cup {Marked(row, active, present)}
<1>1. roster \in [RosterJournees -> SUBSET RosterRows] /\ row \in RosterRows
  BY DEF RosterInv, TypeOKRoster
<1>2. Write /\ roster' = [roster EXCEPT ![j] = new] /\ UNCHANGED <<entries, members, phase, excused>>
  BY <1>1 DEF SaveAttendance
<1>3. new \in SUBSET RosterRows
  BY <1>1, MarkedRow
<1>4. \A other \in roster[j] : \E r \in new : r.entry = other.entry /\ r.name = other.name
  BY <1>1, MarkedRow
<1> HIDE DEF new
<1>5. QED
  BY <1>2, <1>3, <1>4, RowsKept

LEMMA RemoveEvaluatorKeepsInv ==
    ASSUME RosterInv, NEW j \in RosterJournees, NEW row \in roster[j], NEW referenced \in BOOLEAN,
           RemoveEvaluator(j, row, referenced)
    PROVE  RosterInv'
<1>1. /\ roster \in [RosterJournees -> SUBSET RosterRows] /\ row \in RosterRows
      /\ phase \in [RosterJournees -> {"none", "creating", "created"}]
  BY DEF RosterInv, TypeOKRoster
<1>2. CASE referenced
  <2> DEFINE new == (roster[j] \ {row}) \cup {Marked(row, FALSE, FALSE)}
  <2>1. Write /\ roster' = [roster EXCEPT ![j] = new] /\ UNCHANGED <<entries, members, phase, excused>>
    BY <1>1, <1>2 DEF RemoveEvaluator
  <2>2. new \in SUBSET RosterRows
    BY <1>1, MarkedRow
  <2>3. \A other \in roster[j] : \E r \in new : r.entry = other.entry /\ r.name = other.name
    BY <1>1, MarkedRow
  <2> HIDE DEF new
  <2>4. QED
    BY <2>1, <2>2, <2>3, RowsKept
<1>3. CASE ~referenced
  <2> DEFINE gone == {f \in DOMAIN entries : f = row.entry \/ row.name \in entries[f].names}
  <2>1. /\ Write /\ UNCHANGED <<entries, members, phase>>
        /\ roster' = [roster EXCEPT ![j] = roster[j] \ {row}]
        /\ excused' = excused \cup {<<j, e>> : e \in gone}
    BY <1>1, <1>3 DEF RemoveEvaluator
  <2>2. rosterWrites' \in 0..MaxRosterWrites /\ Len(entries) <= rosterWrites'
    BY <2>1, WriteCounted, RosterKnown
  <2>3. roster' \in [RosterJournees -> SUBSET RosterRows]
    BY <1>1, <2>1
  <2>4. ASSUME NEW m \in members, NEW k \in RosterJournees, phase[k] # "none"
        PROVE  <<k, m.entry>> \in excused' \/ Listed(roster'[k], m.entry, entries[m.entry].names)
    <3>1. <<k, m.entry>> \in excused \/ Listed(roster[k], m.entry, entries[m.entry].names)
      BY <2>4 DEF RosterInv, MembersAreListed
    <3>2. m.entry \in DOMAIN entries
      BY RosterKnown
    <3>3. CASE k = j
      <4>1. roster'[k] = roster[j] \ {row}
        BY <1>1, <2>1, <3>3
      <4>2. m.entry \in gone => <<k, m.entry>> \in excused'
        BY <2>1, <3>3
      <4>3. m.entry \notin gone => row.entry # m.entry /\ row.name \notin entries[m.entry].names
        BY <3>2
      <4> HIDE DEF gone
      <4>4. QED
        BY <2>1, <3>1, <3>3, <4>1, <4>2, <4>3 DEF Listed
    <3>4. CASE k # j
      BY <1>1, <2>1, <3>1, <3>4
    <3>5. QED
      BY <3>3, <3>4
  <2>5. QED
    BY <1>1, <2>1, <2>2, <2>3, <2>4, RostersKeepInv
<1>4. QED
  BY <1>2, <1>3

LEMMA ImportKeepsInv ==
    ASSUME RosterInv, NEW j \in RosterJournees, NEW n \in EvaluatorNames, Import(j, n)
    PROVE  RosterInv'
<1> DEFINE dir == IF EntryNamed(entries, n) # {} THEN entries ELSE Registered(entries, n)
           own == EntryOf(dir, n)
<1>1. /\ Write /\ UNCHANGED <<members, phase, excused>> /\ entries' = dir
      /\ roster' = [roster EXCEPT ![j] = roster[j] \cup {AbsentRow(own, n)}]
  <2>1. roster \in [RosterJournees -> SUBSET RosterRows]
    BY DEF RosterInv, TypeOKRoster
  <2>2. QED
    BY <2>1 DEF Import
<1>2. /\ dir \in Seq(DirectoryEntries) /\ Len(dir) \in {Len(entries), Len(entries) + 1}
      /\ own \in DOMAIN dir
      /\ \A e \in DOMAIN dir : dir[e].name \in dir[e].names
      /\ \A e, f \in DOMAIN dir : dir[e].name = dir[f].name => e = f
      /\ \A e \in DOMAIN entries :
            /\ e \in DOMAIN dir /\ dir[e].name = entries[e].name /\ dir[e].names = entries[e].names
            /\ entries[e].active => dir[e].active
  <2>1. CASE EntryNamed(entries, n) # {}
    <3>1. PICK e \in DOMAIN entries : entries[e].name = n
      BY <2>1 DEF EntryNamed
    <3>2. EntryOf(entries, n) \in DOMAIN entries
      BY <3>1 DEF EntryOf
    <3>3. dir = entries
      BY <2>1
    <3>4. QED
      BY <3>2, <3>3, RosterKnown
  <2>2. CASE EntryNamed(entries, n) = {}
    <3>1. dir = Registered(entries, n)
      BY <2>2
    <3>2. QED
      BY <3>1, RosterKnown, RegisteredKnown
  <2>3. QED
    BY <2>1, <2>2
<1> HIDE DEF dir, own
<1>3. rosterWrites' \in 0..MaxRosterWrites /\ Len(dir) <= rosterWrites' /\ Len(dir) <= MaxRosterWrites
  BY <1>1, <1>2, WriteCounted
<1>4. own \in 0..MaxRosterWrites
  <2>1. own \in 1..Len(dir)
    BY <1>2
  <2>2. QED
    BY <1>2, <1>3, <2>1, RosterAssumption
<1>5. /\ roster \in [RosterJournees -> SUBSET RosterRows]
      /\ roster' \in [RosterJournees -> SUBSET RosterRows]
  BY <1>1, <1>4, AbsentRowTyped DEF RosterInv, TypeOKRoster
<1>6. \A m \in members : /\ m \in [name : EvaluatorNames, entry : DOMAIN dir]
                         /\ dir[m.entry].active /\ dir[m.entry].name = m.name
                         /\ dir[m.entry].names = entries[m.entry].names
  BY <1>2, RosterKnown
<1>7. TypeOKRoster'
  BY <1>1, <1>2, <1>3, <1>5, <1>6 DEF RosterInv, TypeOKRoster
<1>8. EntriesAreNamed' /\ MembersAreLinked'
  BY <1>1, <1>2, <1>6 DEF EntriesAreNamed, MembersAreLinked
<1>9. \A k \in RosterJournees : roster[k] \subseteq roster'[k]
  BY <1>1, <1>5
<1>10. MembersAreListed'
  BY <1>1, <1>6, <1>9 DEF RosterInv, MembersAreListed, Listed
<1>11. QED
  BY <1>7, <1>8, <1>10 DEF RosterInv

LEMMA RenameKeepsInv ==
    ASSUME RosterInv, NEW m \in members, NEW n \in EvaluatorNames, Rename(m, n)
    PROVE  RosterInv'
<1> DEFINE e   == m.entry
           row == [name |-> n, names |-> entries[e].names \cup {n}, active |-> entries[e].active]
           new == [name |-> n, entry |-> m.entry]
<1>1. e \in DOMAIN entries /\ entries[e].active /\ entries[e].name = m.name
  BY RosterKnown
<1>2. /\ Write /\ UNCHANGED <<phase, roster, excused>>
      /\ EntryNamed(entries, n) \subseteq {e}
      /\ members' = (members \ {m}) \cup {new}
      /\ entries' = [entries EXCEPT ![e] = row]
  BY <1>1 DEF Rename
<1>3. row \in DirectoryEntries /\ row.name = n /\ row.names = entries[e].names \cup {n} /\ row.active
  BY <1>1, EntryKnown, RosterKnown DEF DirectoryEntries
<1> HIDE DEF row
<1>4. /\ entries' \in Seq(DirectoryEntries) /\ Len(entries') = Len(entries)
      /\ DOMAIN entries' = DOMAIN entries
      /\ \A f \in DOMAIN entries : f # e => entries'[f] = entries[f]
      /\ entries'[e] = row
  BY <1>1, <1>2, <1>3, RosterKnown
<1>5. rosterWrites' \in 0..MaxRosterWrites /\ Len(entries') <= rosterWrites'
  BY <1>2, <1>4, WriteCounted, RosterKnown
<1>6. \A f \in DOMAIN entries : entries[f].name = n => f = e
  BY <1>2 DEF EntryNamed
<1>7. EntriesAreNamed'
  <2>1. \A f \in DOMAIN entries : entries'[f].name \in entries'[f].names
    BY <1>3, <1>4, RosterKnown
  <2>2. \A f, g \in DOMAIN entries : entries'[f].name = entries'[g].name => f = g
    BY <1>3, <1>4, <1>6, RosterKnown
  <2>3. QED
    BY <1>4, <2>1, <2>2 DEF EntriesAreNamed
<1>8. \A other \in members : other # m => other.entry # e
  <2>1. ASSUME NEW other \in members, other.entry = e
        PROVE  other = m
    <3>1. other.name = m.name /\ other.entry = m.entry
      BY <1>1, <2>1, RosterKnown
    <3>2. /\ other \in [name : EvaluatorNames, entry : DOMAIN entries]
          /\ m \in [name : EvaluatorNames, entry : DOMAIN entries]
      BY RosterKnown
    <3>3. QED
      BY <3>1, <3>2
  <2>2. QED
    BY <2>1
<1>9. ASSUME NEW other \in members'
      PROVE  /\ other \in [name : EvaluatorNames, entry : DOMAIN entries']
             /\ entries'[other.entry].active /\ entries'[other.entry].name = other.name
             /\ \E old \in members : /\ old.entry = other.entry
                                     /\ entries[old.entry].names \subseteq entries'[other.entry].names
  <2>1. CASE other = new
    BY <1>1, <1>3, <1>4, <2>1
  <2>2. CASE other \in members /\ other # m
    BY <1>4, <1>8, <2>2, RosterKnown
  <2>3. QED
    BY <1>2, <2>1, <2>2
<1>10. TypeOKRoster'
  BY <1>2, <1>4, <1>5, <1>9 DEF RosterInv, TypeOKRoster
<1>11. MembersAreLinked'
  BY <1>9 DEF MembersAreLinked
<1>12. MembersAreListed'
  <2>1. ASSUME NEW other \in members', NEW j \in RosterJournees, phase[j] # "none"
        PROVE  \/ <<j, other.entry>> \in excused
               \/ Listed(roster[j], other.entry, entries'[other.entry].names)
    <3>1. PICK old \in members : /\ old.entry = other.entry
                                /\ entries[old.entry].names \subseteq entries'[other.entry].names
      BY <1>9
    <3>2. <<j, old.entry>> \in excused \/ Listed(roster[j], old.entry, entries[old.entry].names)
      BY <2>1 DEF RosterInv, MembersAreListed
    <3>3. QED
      BY <3>1, <3>2 DEF Listed
  <2>2. QED
    BY <1>2, <2>1 DEF MembersAreListed
<1>13. QED
  BY <1>7, <1>10, <1>11, <1>12 DEF RosterInv

LEMMA DeleteKeepsInv ==
    ASSUME RosterInv, NEW m \in members, NEW running, DeleteEvaluatorAccount(m, running)
    PROVE  RosterInv'
<1> DEFINE e   == m.entry
           row == [entries[e] EXCEPT !.active = FALSE]
<1>1. e \in DOMAIN entries /\ entries[e].name = m.name
  BY RosterKnown
<1>2. /\ Write /\ UNCHANGED <<phase, roster, excused>>
      /\ members' = members \ {m}
      /\ entries' = [entries EXCEPT ![e] = row]
  BY <1>1 DEF DeleteEvaluatorAccount
<1>3. row \in DirectoryEntries /\ row.name = entries[e].name /\ row.names = entries[e].names
  <2>1. entries[e] \in DirectoryEntries
    BY <1>1, EntryKnown, RosterKnown
  <2>2. QED
    BY <2>1 DEF DirectoryEntries
<1> HIDE DEF row
<1>4. /\ entries' \in Seq(DirectoryEntries) /\ Len(entries') = Len(entries)
      /\ DOMAIN entries' = DOMAIN entries
      /\ \A f \in DOMAIN entries : f # e => entries'[f] = entries[f]
      /\ \A f \in DOMAIN entries : /\ entries'[f].name = entries[f].name
                                  /\ entries'[f].names = entries[f].names
  BY <1>1, <1>2, <1>3, RosterKnown
<1>5. rosterWrites' \in 0..MaxRosterWrites /\ Len(entries') <= rosterWrites'
  BY <1>2, <1>4, WriteCounted, RosterKnown
<1>6. ASSUME NEW other \in members'
      PROVE  /\ other \in members
             /\ other \in [name : EvaluatorNames, entry : DOMAIN entries']
             /\ entries'[other.entry].active /\ entries'[other.entry].name = other.name
             /\ entries'[other.entry].names = entries[other.entry].names
  <2>1. other \in members /\ other # m
    BY <1>2
  <2>2. other.entry # e
    <3>1. SUFFICES ASSUME other.entry = e PROVE FALSE
      OBVIOUS
    <3>2. other.name = m.name /\ other.entry = m.entry
      BY <1>1, <2>1, <3>1, RosterKnown
    <3>3. /\ other \in [name : EvaluatorNames, entry : DOMAIN entries]
          /\ m \in [name : EvaluatorNames, entry : DOMAIN entries]
      BY <2>1, RosterKnown
    <3>4. QED
      BY <2>1, <3>2, <3>3
  <2>3. QED
    BY <1>4, <2>1, <2>2, RosterKnown
<1>7. TypeOKRoster'
  BY <1>2, <1>4, <1>5, <1>6 DEF RosterInv, TypeOKRoster
<1>8. EntriesAreNamed' /\ MembersAreLinked'
  BY <1>4, <1>6, RosterKnown DEF EntriesAreNamed, MembersAreLinked
<1>9. MembersAreListed'
  BY <1>2, <1>6 DEF RosterInv, MembersAreListed
<1>10. QED
  BY <1>7, <1>8, <1>9 DEF RosterInv

LEMMA BeginKeepsInv ==
    ASSUME RosterInv, NEW j \in RosterJournees, NEW source \in RosterJournees \cup {NoSource},
           BeginRoster(j, source)
    PROVE  RosterInv'
<1> DEFINE own    == Populated({}, entries)
           copied == IF source = NoSource THEN {} ELSE
                         {row \in roster[source] : row.active /\ ~HasName(own, row.name) /\
                             (row.entry = 0 \/ Unlisted(own, row.entry))}
           new    == own \cup {AbsentRow(row.entry, row.name) : row \in copied}
<1>1. /\ roster \in [RosterJournees -> SUBSET RosterRows]
      /\ phase \in [RosterJournees -> {"none", "creating", "created"}]
  BY DEF RosterInv, TypeOKRoster
<1>2. /\ Write /\ phase' = [phase EXCEPT ![j] = "creating"]
      /\ roster' = [roster EXCEPT ![j] = new] /\ UNCHANGED <<entries, members, excused>>
  BY <1>1 DEF BeginRoster
<1>3. \A row \in copied : row \in RosterRows
  BY <1>1
<1>4. ASSUME NEW row \in copied
      PROVE  AbsentRow(row.entry, row.name) \in RosterRows
  <2>1. row.entry \in 0..MaxRosterWrites /\ row.name \in EvaluatorNames
    BY <1>3 DEF RosterRows
  <2>2. QED
    BY <2>1, AbsentRowTyped
<1> HIDE DEF copied
<1>5. /\ own \in SUBSET RosterRows
      /\ \A names : \A e \in ActiveEntries(entries) :
            entries[e].name \in names => Listed(own, e, names)
  BY RosterKnown, PopulatedLists
<1> HIDE DEF own
<1>6. new \in SUBSET RosterRows /\ own \subseteq new
  BY <1>4, <1>5
<1> HIDE DEF new
<1>7. rosterWrites' \in 0..MaxRosterWrites /\ Len(entries) <= rosterWrites'
  BY <1>2, WriteCounted, RosterKnown
<1>8. ASSUME NEW m \in members, NEW k \in RosterJournees, phase'[k] # "none"
      PROVE  <<k, m.entry>> \in excused' \/ Listed(roster'[k], m.entry, entries[m.entry].names)
  <2>1. CASE k = j
    <3>1. /\ m.entry \in ActiveEntries(entries)
          /\ entries[m.entry].name \in entries[m.entry].names
      BY RosterKnown DEF ActiveEntries
    <3>2. Listed(own, m.entry, entries[m.entry].names)
      BY <1>5, <3>1
    <3>3. roster'[k] = new
      BY <1>1, <1>2, <2>1
    <3>4. QED
      BY <1>6, <3>2, <3>3 DEF Listed
  <2>2. CASE k # j
    <3>1. phase[k] # "none" /\ roster'[k] = roster[k] /\ excused' = excused
      BY <1>1, <1>2, <1>8, <2>2
    <3>2. QED
      BY <3>1 DEF RosterInv, MembersAreListed
  <2>3. QED
    BY <2>1, <2>2
<1>9. /\ phase' \in [RosterJournees -> {"none", "creating", "created"}]
      /\ roster' \in [RosterJournees -> SUBSET RosterRows]
  BY <1>1, <1>2, <1>6
<1>10. QED
  BY <1>2, <1>7, <1>8, <1>9, RostersKeepInv

LEMMA CommitKeepsInv ==
    ASSUME RosterInv, NEW j \in RosterJournees, CommitRoster(j)
    PROVE  RosterInv'
<1>1. /\ roster \in [RosterJournees -> SUBSET RosterRows]
      /\ phase \in [RosterJournees -> {"none", "creating", "created"}]
  BY DEF RosterInv, TypeOKRoster
<1>2. /\ phase[j] = "creating" /\ phase' = [phase EXCEPT ![j] = "created"]
      /\ UNCHANGED <<entries, members, roster, excused, rosterWrites>>
  BY DEF CommitRoster
<1>3. \A k \in RosterJournees : phase'[k] # "none" => phase[k] # "none"
  BY <1>1, <1>2
<1>4. \A m \in members, k \in RosterJournees : phase'[k] # "none" =>
         <<k, m.entry>> \in excused' \/ Listed(roster'[k], m.entry, entries[m.entry].names)
  BY <1>2, <1>3 DEF RosterInv, MembersAreListed
<1>5. phase' \in [RosterJournees -> {"none", "creating", "created"}]
  BY <1>1, <1>2
<1>6. QED
  BY <1>1, <1>2, <1>4, <1>5, RosterKnown, RostersKeepInv

LEMMA RosterStep == RosterInv /\ [NextRoster]_rosterVars => RosterInv'
<1> SUFFICES ASSUME RosterInv, [NextRoster]_rosterVars
             PROVE  RosterInv'
  OBVIOUS
<1>1. ASSUME NEW n \in EvaluatorNames, CreateAccount(n)
      PROVE  RosterInv'
  BY <1>1, RegisterKeepsInv DEF CreateAccount
<1>2. ASSUME NEW j \in RosterJournees, NEW n \in EvaluatorNames, AddEvaluator(j, n)
      PROVE  RosterInv'
  BY <1>2, RegisterKeepsInv DEF AddEvaluator
<1>3. ASSUME UNCHANGED rosterVars
      PROVE  RosterInv'
  BY <1>3 DEF rosterVars, RosterInv, TypeOKRoster, EntriesAreNamed, MembersAreLinked,
     MembersAreListed
<1>4. QED
  BY <1>1, <1>2, <1>3, AddToJourneeKeepsInv, ImportKeepsInv, ReuseKeepsInv,
     SaveAttendanceKeepsInv, RemoveEvaluatorKeepsInv, RenameKeepsInv, DeleteKeepsInv,
     BeginKeepsInv, CommitKeepsInv DEF NextRoster

(* The rosters' inductive invariant.                                         *)
THEOREM RosterInvariant == SpecRoster => []RosterInv
BY InitRosterInv, RosterStep, PTL DEF SpecRoster

(* Directory, accounts and rosters are of their types whatever happens: a    *)
(* roster row never names an entry number out of the directory's range.      *)
THEOREM RosterTypeCorrect == SpecRoster => []TypeOKRoster
<1>1. RosterInv => TypeOKRoster
  BY DEF RosterInv
<1>2. QED
  BY <1>1, RosterInvariant, PTL

LEMMA RostersList == RosterInv => AccountsAreOnEveryRoster
  BY DEF RosterInv, MembersAreListed, AccountsAreOnEveryRoster, CreatedJournees, Listed

(* Whatever the order of creations, deletions, renamings, imports, removals  *)
(* and new Journees, the evaluator of an account is on every roster, but for *)
(* the exceptions the property names.                                        *)
THEOREM AccountsStayOnEveryRoster == SpecRoster => []AccountsAreOnEveryRoster
  BY RostersList, RosterInvariant, PTL

-----------------------------------------------------------------------------
(***************************************************************************)
(* The login limits.                                                       *)
(***************************************************************************)

(* What was let in within the window is in the buckets, for the address and, *)
(* since its last success, for the key, whatever was pruned.                 *)
HistoryIsInBuckets ==
    /\ \A address \in Addresses : spent[address] = StampsOf(addressAttempts, address, clock)
    /\ \A key \in Keys : tries[key] = StampsOf(keyAttempts, key, clock)

AllFinite ==
    /\ IsFiniteSet(DOMAIN keyAttempts) /\ IsFiniteSet(DOMAIN addressAttempts)
    /\ \A address \in Addresses : IsFiniteSet(spent[address])
    /\ \A key \in Keys : IsFiniteSet(tries[key])

LoginInv == TypeOKLogin /\ HistoryIsInBuckets /\ AllFinite /\ LoginBudgetsHold

LEMMA Numbers ==
    /\ Window \in Nat /\ PruneInterval \in Nat /\ MaxBuckets \in Nat /\ LastTick \in Nat
    /\ AccountAttempts \in Nat /\ AddressAttempts \in Nat
    /\ Window > 0 /\ AccountAttempts > 0 /\ AddressAttempts > 0
BY LoginAssumption

LEMMA KeyKnown ==
    ASSUME NEW key \in Keys
    PROVE  key[1] \in Addresses
BY DEF Keys

(* Pruning forgets nothing that is still in the window.                      *)
LEMMA RetainedStamps ==
    ASSUME NEW buckets, NEW now, NEW x
    PROVE  /\ StampsOf(Retained(buckets, now), x, now) = StampsOf(buckets, x, now)
           /\ DOMAIN Retained(buckets, now) \subseteq DOMAIN buckets
<1>1. DOMAIN Retained(buckets, now) = {k \in DOMAIN buckets : Recent(buckets[k], now) # {}}
  BY DEF Retained
<1>2. ASSUME x \in DOMAIN Retained(buckets, now)
      PROVE  /\ Retained(buckets, now)[x] = Recent(buckets[x], now)
             /\ Recent(Recent(buckets[x], now), now) = Recent(buckets[x], now)
  BY <1>1, <1>2 DEF Retained, Recent
<1>3. QED
  BY <1>1, <1>2 DEF StampsOf

LEMMA PrunedStamps ==
    /\ \A x : StampsOf(KeysPruned, x, clock) = StampsOf(keyAttempts, x, clock)
    /\ \A x : StampsOf(AddressesPruned, x, clock) = StampsOf(addressAttempts, x, clock)
    /\ DOMAIN KeysPruned \subseteq DOMAIN keyAttempts
    /\ DOMAIN AddressesPruned \subseteq DOMAIN addressAttempts
BY RetainedStamps DEF KeysPruned, AddressesPruned

LEMMA PrunedTyped ==
    ASSUME TypeOKLogin
    PROVE  /\ \A key \in DOMAIN KeysPruned : KeysPruned[key] \subseteq Stamps
           /\ \A address \in DOMAIN AddressesPruned : AddressesPruned[address] \subseteq Stamps
<1>1. \A key \in DOMAIN Retained(keyAttempts, clock) :
         key \in DOMAIN keyAttempts /\ Retained(keyAttempts, clock)[key] \subseteq keyAttempts[key]
  BY DEF Retained, Recent
<1>2. \A address \in DOMAIN Retained(addressAttempts, clock) :
         /\ address \in DOMAIN addressAttempts
         /\ Retained(addressAttempts, clock)[address] \subseteq addressAttempts[address]
  BY DEF Retained, Recent
<1>3. QED
  BY <1>1, <1>2 DEF KeysPruned, AddressesPruned, TypeOKLogin

(* An attempt that may enter its address's bucket has a stamp of its own.    *)
LEMMA StampIsNew ==
    ASSUME LoginInv, NEW address \in Addresses,
           Cardinality(StampsOf(AddressesPruned, address, clock)) < AddressAttempts
    PROVE  /\ NewStamp(address) \in Stamps
           /\ NewStamp(address) \notin StampsOf(AddressesPruned, address, clock)
           /\ NewStamp(address)[1] = clock
<1> DEFINE bucket == StampsOf(AddressesPruned, address, clock)
           number == CHOOSE n \in 0 .. AddressAttempts : <<clock, n>> \notin bucket
           stamp(n) == <<clock, n>>
           all == {stamp(n) : n \in 0 .. AddressAttempts}
<1>1. IsFiniteSet(bucket)
  BY PrunedStamps DEF LoginInv, AllFinite, HistoryIsInBuckets
<1>2. \E n \in 0 .. AddressAttempts : <<clock, n>> \notin bucket
  <2> SUFFICES ASSUME \A n \in 0 .. AddressAttempts : stamp(n) \in bucket
               PROVE  FALSE
    OBVIOUS
  <2>1. all \subseteq bucket
    OBVIOUS
  <2>2. IsFiniteSet(all) /\ Cardinality(all) <= Cardinality(bucket)
    BY <1>1, <2>1, FS_Subset
  <2>3. Cardinality(0 .. AddressAttempts) = AddressAttempts + 1 /\ IsFiniteSet(0 .. AddressAttempts)
    BY Numbers, FS_Interval
  <2> DEFINE f == [s \in all |-> s[2]]
  <2>4. f \in Surjection(all, 0 .. AddressAttempts)
    <3>1. f \in [all -> 0 .. AddressAttempts]
      OBVIOUS
    <3>2. \A n \in 0 .. AddressAttempts : stamp(n) \in all /\ f[stamp(n)] = n
      OBVIOUS
    <3>3. QED
      BY <3>1, <3>2 DEF Surjection
  <2>5. Cardinality(0 .. AddressAttempts) <= Cardinality(all)
    BY <2>2, <2>4, FS_Surjection
  <2>6. Cardinality(bucket) \in Nat /\ Cardinality(all) \in Nat
    BY <1>1, <2>2, FS_CardinalityType
  <2> HIDE DEF bucket, all
  <2>7. QED
    BY <2>2, <2>3, <2>5, <2>6, Numbers DEF bucket
<1>3. number \in 0 .. AddressAttempts /\ <<clock, number>> \notin bucket
  BY <1>2
<1>4. clock \in Ticks
  BY DEF LoginInv, TypeOKLogin
<1>5. NewStamp(address) = <<clock, number>>
  BY DEF NewStamp
<1> HIDE DEF number, bucket
<1>6. QED
  BY <1>3, <1>4, <1>5 DEF Stamps, bucket

LEMMA StampedDomain ==
    ASSUME NEW buckets, NEW x, NEW stamp
    PROVE  DOMAIN Stamped(buckets, x, stamp) = DOMAIN buckets \cup {x}
BY DEF Stamped

LEMMA StampedHere ==
    ASSUME NEW buckets, NEW x, NEW stamp \in Stamps
    PROVE  StampsOf(Stamped(buckets, x, stamp), x, stamp[1]) = StampsOf(buckets, x, stamp[1]) \cup {stamp}
<1> DEFINE new == Stamped(buckets, x, stamp)
<1>1. x \in DOMAIN new /\ new[x] = StampsOf(buckets, x, stamp[1]) \cup {stamp}
  BY DEF Stamped
<1>2. stamp[1] > stamp[1] - Window
  BY Numbers DEF Stamps, Ticks
<1>3. Recent(StampsOf(buckets, x, stamp[1]) \cup {stamp}, stamp[1])
        = StampsOf(buckets, x, stamp[1]) \cup {stamp}
  BY <1>2 DEF Recent, StampsOf
<1>4. QED
  BY <1>1, <1>3 DEF StampsOf

LEMMA StampedElsewhere ==
    ASSUME NEW buckets, NEW x, NEW stamp, NEW now, NEW y, y # x
    PROVE  StampsOf(Stamped(buckets, x, stamp), y, now) = StampsOf(buckets, y, now)
BY DEF Stamped, StampsOf

LEMMA StampedTyped ==
    ASSUME NEW buckets, NEW x, NEW stamp \in Stamps,
           \A y \in DOMAIN buckets : buckets[y] \subseteq Stamps
    PROVE  \A y \in DOMAIN Stamped(buckets, x, stamp) : Stamped(buckets, x, stamp)[y] \subseteq Stamps
<1>1. StampsOf(buckets, x, stamp[1]) \subseteq Stamps
  BY DEF StampsOf, Recent
<1>2. QED
  BY <1>1 DEF Stamped

LEMMA OneMore ==
    ASSUME NEW S, IsFiniteSet(S), NEW x
    PROVE  /\ IsFiniteSet(S \cup {x}) /\ Cardinality(S) \in Nat
           /\ Cardinality(S \cup {x}) = Cardinality(S) + Cardinality({x} \ S)
           /\ Cardinality(S \cup {x}) <= Cardinality(S) + 1
<1>1. Cardinality(S) \in Nat
  BY FS_CardinalityType
<1>2. CASE x \in S
  <2>1. S \cup {x} = S /\ {x} \ S = {}
    BY <1>2
  <2>2. Cardinality({x} \ S) = 0
    BY <2>1, FS_EmptySet
  <2>3. IsFiniteSet(S \cup {x}) /\ Cardinality(S \cup {x}) = Cardinality(S)
    BY <2>1
  <2>4. QED
    BY <1>1, <2>2, <2>3
<1>3. CASE x \notin S
  <2>1. {x} \ S = {x}
    BY <1>3
  <2>2. Cardinality({x} \ S) = 1
    BY <2>1, FS_Singleton
  <2>3. IsFiniteSet(S \cup {x}) /\ Cardinality(S \cup {x}) = Cardinality(S) + 1
    BY <1>3, FS_AddElement
  <2>4. QED
    BY <1>1, <2>2, <2>3
<1>4. QED
  BY <1>2, <1>3

-----------------------------------------------------------------------------
LEMMA InitLoginInv == InitLogin => LoginInv
<1> SUFFICES ASSUME InitLogin
             PROVE  LoginInv
  OBVIOUS
<1>1. DOMAIN NoBuckets = {} /\ IsFiniteSet({}) /\ Cardinality({}) = 0
  BY FS_EmptySet DEF NoBuckets
<1>2. \A x : StampsOf(NoBuckets, x, clock) = {}
  BY <1>1 DEF StampsOf
<1>3. TypeOKLogin
  BY <1>1, Numbers DEF InitLogin, TypeOKLogin, Ticks
<1>4. HistoryIsInBuckets
  BY <1>2 DEF InitLogin, HistoryIsInBuckets
<1>5. AllFinite
  BY <1>1 DEF InitLogin, AllFinite
<1>6. BucketCount(keyAttempts, addressAttempts) = 0 + 0
  BY <1>1 DEF InitLogin, BucketCount
<1>7. LoginBudgetsHold
  BY <1>1, <1>6, Numbers DEF InitLogin, LoginBudgetsHold
<1>8. QED
  BY <1>3, <1>4, <1>5, <1>7 DEF LoginInv

LEMMA PrunedFits ==
    ASSUME LoginInv
    PROVE  /\ IsFiniteSet(DOMAIN KeysPruned) /\ IsFiniteSet(DOMAIN AddressesPruned)
           /\ Cardinality(DOMAIN KeysPruned) \in Nat /\ Cardinality(DOMAIN AddressesPruned) \in Nat
           /\ BucketCount(KeysPruned, AddressesPruned) <= MaxBuckets
<1>1. /\ IsFiniteSet(DOMAIN KeysPruned) /\ IsFiniteSet(DOMAIN AddressesPruned)
      /\ Cardinality(DOMAIN KeysPruned) <= Cardinality(DOMAIN keyAttempts)
      /\ Cardinality(DOMAIN AddressesPruned) <= Cardinality(DOMAIN addressAttempts)
  BY PrunedStamps, FS_Subset DEF LoginInv, AllFinite
<1>2. /\ Cardinality(DOMAIN KeysPruned) \in Nat /\ Cardinality(DOMAIN AddressesPruned) \in Nat
      /\ Cardinality(DOMAIN keyAttempts) \in Nat /\ Cardinality(DOMAIN addressAttempts) \in Nat
  BY <1>1, FS_CardinalityType DEF LoginInv, AllFinite
<1>3. Cardinality(DOMAIN keyAttempts) + Cardinality(DOMAIN addressAttempts) <= MaxBuckets
  BY DEF LoginInv, LoginBudgetsHold, BucketCount
<1>4. QED
  BY <1>1, <1>2, <1>3, Numbers DEF BucketCount

LEMMA LetInKeepsInv ==
    ASSUME LoginInv, NEW key \in Keys, Attempt(key), LetIn(key)
    PROVE  LoginInv'
<1> DEFINE stamp == NewStamp(key[1])
<1>1. /\ lastPruned' \in {clock, lastPruned} /\ clock' = clock
      /\ keyAttempts' = Stamped(KeysPruned, key, stamp)
      /\ addressAttempts' = Stamped(AddressesPruned, key[1], stamp)
      /\ verifying' = verifying \cup {key}
      /\ spent' = [spent EXCEPT ![key[1]] = @ \cup {stamp}]
      /\ tries' = [tries EXCEPT ![key] = @ \cup {stamp}]
  BY DEF Attempt
<1>2. key[1] \in Addresses
  BY KeyKnown
<1>3. stamp \in Stamps /\ stamp[1] = clock
  BY <1>2, StampIsNew DEF LetIn
<1> HIDE DEF stamp
<1>4. TypeOKLogin /\ clock \in Nat
  BY Numbers DEF LoginInv, TypeOKLogin, Ticks
<1>5. /\ DOMAIN keyAttempts' = DOMAIN KeysPruned \cup {key}
      /\ DOMAIN addressAttempts' = DOMAIN AddressesPruned \cup {key[1]}
  BY <1>1, StampedDomain
<1>6. /\ StampsOf(keyAttempts', key, clock) = StampsOf(keyAttempts, key, clock) \cup {stamp}
      /\ StampsOf(addressAttempts', key[1], clock) = StampsOf(addressAttempts, key[1], clock) \cup {stamp}
      /\ \A y : y # key => StampsOf(keyAttempts', y, clock) = StampsOf(keyAttempts, y, clock)
      /\ \A y : y # key[1] => StampsOf(addressAttempts', y, clock) = StampsOf(addressAttempts, y, clock)
  <2>1. /\ StampsOf(keyAttempts', key, clock) = StampsOf(KeysPruned, key, clock) \cup {stamp}
        /\ StampsOf(addressAttempts', key[1], clock)
             = StampsOf(AddressesPruned, key[1], clock) \cup {stamp}
    BY <1>1, <1>3, StampedHere
  <2>2. /\ \A y : y # key => StampsOf(keyAttempts', y, clock) = StampsOf(KeysPruned, y, clock)
        /\ \A y : y # key[1] =>
              StampsOf(addressAttempts', y, clock) = StampsOf(AddressesPruned, y, clock)
    BY <1>1, StampedElsewhere
  <2>3. QED
    BY <2>1, <2>2, PrunedStamps
<1>7. TypeOKLogin'
  <2>1. /\ \A k \in DOMAIN keyAttempts' : keyAttempts'[k] \subseteq Stamps
        /\ \A a \in DOMAIN addressAttempts' : addressAttempts'[a] \subseteq Stamps
    BY <1>1, <1>3, <1>4, PrunedTyped, StampedTyped
  <2>2. DOMAIN keyAttempts' \subseteq Keys /\ DOMAIN addressAttempts' \subseteq Addresses
    BY <1>2, <1>4, <1>5, PrunedStamps DEF TypeOKLogin
  <2>3. spent' \in [Addresses -> SUBSET Stamps] /\ tries' \in [Keys -> SUBSET Stamps]
    BY <1>1, <1>2, <1>3, <1>4 DEF TypeOKLogin
  <2>4. QED
    BY <1>1, <1>4, <2>1, <2>2, <2>3 DEF TypeOKLogin
<1>8. HistoryIsInBuckets'
  <2>1. \A a \in Addresses : spent'[a] = StampsOf(addressAttempts', a, clock)
    BY <1>1, <1>2, <1>4, <1>6 DEF LoginInv, HistoryIsInBuckets, TypeOKLogin
  <2>2. \A k \in Keys : tries'[k] = StampsOf(keyAttempts', k, clock)
    BY <1>1, <1>4, <1>6 DEF LoginInv, HistoryIsInBuckets, TypeOKLogin
  <2>3. QED
    BY <1>1, <2>1, <2>2 DEF HistoryIsInBuckets
<1>9. /\ IsFiniteSet(spent'[key[1]]) /\ Cardinality(spent'[key[1]]) <= AddressAttempts
      /\ IsFiniteSet(tries'[key]) /\ Cardinality(tries'[key]) <= AccountAttempts
  <2>1. spent'[key[1]] = spent[key[1]] \cup {stamp} /\ tries'[key] = tries[key] \cup {stamp}
    BY <1>1, <1>2, <1>4 DEF TypeOKLogin
  <2>2. /\ IsFiniteSet(spent[key[1]]) /\ Cardinality(spent[key[1]]) < AddressAttempts
        /\ IsFiniteSet(tries[key]) /\ Cardinality(tries[key]) < AccountAttempts
    BY <1>2, PrunedStamps DEF LetIn, LoginInv, AllFinite, HistoryIsInBuckets
  <2>3. /\ IsFiniteSet(spent'[key[1]]) /\ Cardinality(spent[key[1]]) \in Nat
        /\ Cardinality(spent'[key[1]]) <= Cardinality(spent[key[1]]) + 1
        /\ Cardinality(spent'[key[1]]) \in Nat
    <3>1. /\ IsFiniteSet(spent[key[1]] \cup {stamp}) /\ Cardinality(spent[key[1]]) \in Nat
          /\ Cardinality(spent[key[1]] \cup {stamp}) <= Cardinality(spent[key[1]]) + 1
      BY <2>2, OneMore
    <3>2. QED
      BY <2>1, <3>1, FS_CardinalityType
  <2>4. /\ IsFiniteSet(tries'[key]) /\ Cardinality(tries[key]) \in Nat
        /\ Cardinality(tries'[key]) <= Cardinality(tries[key]) + 1
        /\ Cardinality(tries'[key]) \in Nat
    <3>1. /\ IsFiniteSet(tries[key] \cup {stamp}) /\ Cardinality(tries[key]) \in Nat
          /\ Cardinality(tries[key] \cup {stamp}) <= Cardinality(tries[key]) + 1
      BY <2>2, OneMore
    <3>2. QED
      BY <2>1, <3>1, FS_CardinalityType
  <2>5. QED
    BY <2>2, <2>3, <2>4, Numbers
<1>10. /\ \A a \in Addresses : a # key[1] => spent'[a] = spent[a]
       /\ \A k \in Keys : k # key => tries'[k] = tries[k]
  BY <1>1, <1>4 DEF TypeOKLogin
<1>11. /\ IsFiniteSet(DOMAIN keyAttempts') /\ IsFiniteSet(DOMAIN addressAttempts')
       /\ Cardinality(DOMAIN keyAttempts') + Cardinality(DOMAIN addressAttempts') <= MaxBuckets
  <2>1. /\ IsFiniteSet(DOMAIN keyAttempts') /\ IsFiniteSet(DOMAIN addressAttempts')
        /\ Cardinality(DOMAIN keyAttempts')
             = Cardinality(DOMAIN KeysPruned) + Cardinality({key} \ DOMAIN KeysPruned)
        /\ Cardinality(DOMAIN addressAttempts')
             = Cardinality(DOMAIN AddressesPruned) + Cardinality({key[1]} \ DOMAIN AddressesPruned)
    <3>1. /\ IsFiniteSet(DOMAIN KeysPruned \cup {key})
          /\ Cardinality(DOMAIN KeysPruned \cup {key})
               = Cardinality(DOMAIN KeysPruned) + Cardinality({key} \ DOMAIN KeysPruned)
      BY OneMore, PrunedFits
    <3>2. /\ IsFiniteSet(DOMAIN AddressesPruned \cup {key[1]})
          /\ Cardinality(DOMAIN AddressesPruned \cup {key[1]})
               = Cardinality(DOMAIN AddressesPruned) + Cardinality({key[1]} \ DOMAIN AddressesPruned)
      BY OneMore, PrunedFits
    <3>3. QED
      BY <1>5, <3>1, <3>2
  <2>2. /\ IsFiniteSet({key} \ DOMAIN KeysPruned) /\ IsFiniteSet({key[1]} \ DOMAIN AddressesPruned)
    BY FS_Singleton, FS_Difference
  <2>3. /\ Cardinality({key} \ DOMAIN KeysPruned) \in Nat
        /\ Cardinality({key[1]} \ DOMAIN AddressesPruned) \in Nat
    BY <2>2, FS_CardinalityType
  <2>4. BucketCount(KeysPruned, AddressesPruned) + Needed(key) <= MaxBuckets
    BY DEF LetIn
  <2>5. QED
    BY <2>1, <2>3, <2>4, PrunedFits, Numbers DEF BucketCount, Needed
<1>12. AllFinite'
  <2>1. \A a \in Addresses : IsFiniteSet(spent'[a])
    BY <1>9, <1>10 DEF LoginInv, AllFinite
  <2>2. \A k \in Keys : IsFiniteSet(tries'[k])
    BY <1>9, <1>10 DEF LoginInv, AllFinite
  <2>3. QED
    BY <1>11, <2>1, <2>2 DEF AllFinite
<1>13. LoginBudgetsHold'
  <2>1. \A a \in Addresses : Cardinality(spent'[a]) <= AddressAttempts
    BY <1>9, <1>10 DEF LoginInv, LoginBudgetsHold
  <2>2. \A k \in Keys : Cardinality(tries'[k]) <= AccountAttempts
    BY <1>9, <1>10 DEF LoginInv, LoginBudgetsHold
  <2>3. QED
    BY <1>11, <2>1, <2>2 DEF LoginBudgetsHold, BucketCount
<1>14. QED
  BY <1>7, <1>8, <1>12, <1>13 DEF LoginInv

LEMMA RefusedKeepsInv ==
    ASSUME LoginInv, NEW key \in Keys, Attempt(key), ~LetIn(key)
    PROVE  LoginInv'
<1>1. /\ lastPruned' \in {clock, lastPruned} /\ UNCHANGED <<clock, verifying, spent, tries>>
      /\ keyAttempts' = KeysPruned /\ addressAttempts' = AddressesPruned
  BY DEF Attempt
<1>2. TypeOKLogin'
  BY <1>1, PrunedTyped, PrunedStamps DEF LoginInv, TypeOKLogin
<1>3. HistoryIsInBuckets'
  <2>1. \A a \in Addresses : spent'[a] = StampsOf(addressAttempts', a, clock)
    BY <1>1, PrunedStamps DEF LoginInv, HistoryIsInBuckets
  <2>2. \A k \in Keys : tries'[k] = StampsOf(keyAttempts', k, clock)
    BY <1>1, PrunedStamps DEF LoginInv, HistoryIsInBuckets
  <2>3. QED
    BY <1>1, <2>1, <2>2 DEF HistoryIsInBuckets
<1>4. AllFinite' /\ LoginBudgetsHold'
  BY <1>1, PrunedFits DEF LoginInv, AllFinite, LoginBudgetsHold, BucketCount
<1>5. QED
  BY <1>2, <1>3, <1>4 DEF LoginInv

LEMMA SucceedKeepsInv ==
    ASSUME LoginInv, NEW key \in Keys, Succeed(key)
    PROVE  LoginInv'
<1>1. /\ UNCHANGED <<clock, addressAttempts, lastPruned, spent>>
      /\ verifying' = verifying \ {key}
      /\ keyAttempts' = [k \in DOMAIN keyAttempts \ {key} |-> keyAttempts[k]]
      /\ tries' = [tries EXCEPT ![key] = {}]
  BY DEF Succeed
<1>2. TypeOKLogin'
  BY <1>1 DEF LoginInv, TypeOKLogin
<1>3. HistoryIsInBuckets'
  <2>1. \A a \in Addresses : spent'[a] = StampsOf(addressAttempts', a, clock)
    BY <1>1 DEF LoginInv, HistoryIsInBuckets
  <2>2. \A k \in Keys : tries'[k] = StampsOf(keyAttempts', k, clock)
    BY <1>1 DEF LoginInv, HistoryIsInBuckets, TypeOKLogin, StampsOf
  <2>3. QED
    BY <1>1, <2>1, <2>2 DEF HistoryIsInBuckets
<1>4. /\ IsFiniteSet(DOMAIN keyAttempts') /\ IsFiniteSet(DOMAIN addressAttempts')
      /\ Cardinality(DOMAIN keyAttempts') + Cardinality(DOMAIN addressAttempts') <= MaxBuckets
  <2>1. DOMAIN keyAttempts' \subseteq DOMAIN keyAttempts
    BY <1>1
  <2>2. /\ IsFiniteSet(DOMAIN keyAttempts') /\ IsFiniteSet(DOMAIN addressAttempts')
        /\ Cardinality(DOMAIN keyAttempts') <= Cardinality(DOMAIN keyAttempts)
    BY <1>1, <2>1, FS_Subset DEF LoginInv, AllFinite
  <2>3. /\ Cardinality(DOMAIN keyAttempts') \in Nat /\ Cardinality(DOMAIN keyAttempts) \in Nat
        /\ Cardinality(DOMAIN addressAttempts) \in Nat
    BY <1>1, <2>2, FS_CardinalityType DEF LoginInv, AllFinite
  <2>4. Cardinality(DOMAIN keyAttempts) + Cardinality(DOMAIN addressAttempts) <= MaxBuckets
    BY DEF LoginInv, LoginBudgetsHold, BucketCount
  <2>5. addressAttempts' = addressAttempts
    BY <1>1
  <2>6. QED
    BY <2>2, <2>3, <2>4, <2>5, Numbers
<1>5. \A k \in Keys : /\ IsFiniteSet(tries'[k])
                      /\ Cardinality(tries'[k]) <= AccountAttempts
  <2>1. \A k \in Keys : tries'[k] = IF k = key THEN {} ELSE tries[k]
    BY <1>1 DEF LoginInv, TypeOKLogin
  <2>2. IsFiniteSet({}) /\ Cardinality({}) = 0
    BY FS_EmptySet
  <2>3. QED
    BY <2>1, <2>2, Numbers DEF LoginInv, AllFinite, LoginBudgetsHold
<1>6. AllFinite' /\ LoginBudgetsHold'
  BY <1>1, <1>4, <1>5 DEF LoginInv, AllFinite, LoginBudgetsHold, BucketCount
<1>7. QED
  BY <1>2, <1>3, <1>6 DEF LoginInv

LEMMA TickKeepsInv ==
    ASSUME LoginInv, Tick
    PROVE  LoginInv'
<1> DEFINE kept(stamps) == Recent(stamps, clock + 1)
<1>1. /\ clock < LastTick /\ clock' = clock + 1
      /\ spent' = [address \in Addresses |-> kept(spent[address])]
      /\ tries' = [key \in Keys |-> kept(tries[key])]
      /\ UNCHANGED <<keyAttempts, addressAttempts, lastPruned, verifying>>
  BY DEF Tick
<1>2. TypeOKLogin'
  <2>1. clock' \in Ticks
    BY <1>1, Numbers DEF LoginInv, TypeOKLogin, Ticks
  <2>2. \A stamps \in SUBSET Stamps : kept(stamps) \in SUBSET Stamps
    BY DEF Recent
  <2> HIDE DEF kept
  <2>3. spent' \in [Addresses -> SUBSET Stamps] /\ tries' \in [Keys -> SUBSET Stamps]
    BY <1>1, <2>2 DEF LoginInv, TypeOKLogin
  <2>4. QED
    BY <1>1, <2>1, <2>3 DEF LoginInv, TypeOKLogin
<1>3. clock \in Int /\ Window \in Int
  BY Numbers DEF LoginInv, TypeOKLogin, Ticks
<1>4. ASSUME NEW stamps \in SUBSET Stamps
      PROVE  kept(Recent(stamps, clock)) = kept(stamps)
  <2>1. \A stamp \in stamps : stamp[1] \in Int
    BY Numbers DEF Stamps, Ticks
  <2>2. \A stamp \in stamps : stamp[1] > clock + 1 - Window => stamp[1] > clock - Window
    BY <1>3, <2>1
  <2>3. ASSUME NEW stamp \in stamps
        PROVE  stamp \in kept(Recent(stamps, clock)) <=> stamp \in kept(stamps)
    <3>1. stamp \in kept(stamps) <=> stamp[1] > clock + 1 - Window
      BY <1>3, <2>1 DEF Recent
    <3>2. stamp \in Recent(stamps, clock) <=> stamp[1] > clock - Window
      BY <1>3, <2>1 DEF Recent
    <3>3. stamp \in kept(Recent(stamps, clock))
            <=> stamp \in Recent(stamps, clock) /\ stamp[1] > clock + 1 - Window
      BY <1>3, <2>1 DEF Recent
    <3>4. QED
      BY <2>2, <3>1, <3>2, <3>3
  <2>4. kept(Recent(stamps, clock)) \subseteq stamps /\ kept(stamps) \subseteq stamps
    BY DEF Recent
  <2> HIDE DEF kept
  <2>5. QED
    BY <2>3, <2>4
<1>5. HistoryIsInBuckets'
  <2>1. ASSUME NEW a \in Addresses
        PROVE  spent'[a] = StampsOf(addressAttempts, a, clock + 1)
    <3>1. spent'[a] = kept(StampsOf(addressAttempts, a, clock))
      BY <1>1 DEF LoginInv, HistoryIsInBuckets
    <3>2. CASE a \in DOMAIN addressAttempts
      <4>1. addressAttempts[a] \in SUBSET Stamps
        BY <3>2 DEF LoginInv, TypeOKLogin
      <4>2. QED
        BY <1>4, <3>1, <3>2, <4>1 DEF StampsOf
    <3>3. CASE a \notin DOMAIN addressAttempts
      BY <3>1, <3>3 DEF StampsOf, Recent
    <3>4. QED
      BY <3>2, <3>3
  <2>2. ASSUME NEW k \in Keys
        PROVE  tries'[k] = StampsOf(keyAttempts, k, clock + 1)
    <3>1. tries'[k] = kept(StampsOf(keyAttempts, k, clock))
      BY <1>1 DEF LoginInv, HistoryIsInBuckets
    <3>2. CASE k \in DOMAIN keyAttempts
      <4>1. keyAttempts[k] \in SUBSET Stamps
        BY <3>2 DEF LoginInv, TypeOKLogin
      <4>2. QED
        BY <1>4, <3>1, <3>2, <4>1 DEF StampsOf
    <3>3. CASE k \notin DOMAIN keyAttempts
      BY <3>1, <3>3 DEF StampsOf, Recent
    <3>4. QED
      BY <3>2, <3>3
  <2>3. QED
    BY <1>1, <2>1, <2>2 DEF HistoryIsInBuckets
<1>6. ASSUME NEW S, IsFiniteSet(S), NEW n \in Nat, Cardinality(S) <= n
      PROVE  IsFiniteSet(kept(S)) /\ Cardinality(kept(S)) <= n
  <2>1. kept(S) \subseteq S
    BY DEF Recent
  <2> HIDE DEF kept
  <2>2. IsFiniteSet(kept(S)) /\ Cardinality(kept(S)) <= Cardinality(S)
    BY <1>6, <2>1, FS_Subset
  <2>3. Cardinality(kept(S)) \in Nat /\ Cardinality(S) \in Nat
    BY <1>6, <2>2, FS_CardinalityType
  <2>4. QED
    BY <1>6, <2>2, <2>3
<1>7. \A a \in Addresses : IsFiniteSet(spent'[a]) /\ Cardinality(spent'[a]) <= AddressAttempts
  <2>1. \A a \in Addresses : spent'[a] = kept(spent[a])
    BY <1>1
  <2>2. \A a \in Addresses : IsFiniteSet(spent[a]) /\ Cardinality(spent[a]) <= AddressAttempts
    BY DEF LoginInv, AllFinite, LoginBudgetsHold
  <2> HIDE DEF kept
  <2>3. QED
    BY <1>6, <2>1, <2>2, Numbers
<1>8. \A k \in Keys : IsFiniteSet(tries'[k]) /\ Cardinality(tries'[k]) <= AccountAttempts
  <2>1. \A k \in Keys : tries'[k] = kept(tries[k])
    BY <1>1
  <2>2. \A k \in Keys : IsFiniteSet(tries[k]) /\ Cardinality(tries[k]) <= AccountAttempts
    BY DEF LoginInv, AllFinite, LoginBudgetsHold
  <2> HIDE DEF kept
  <2>3. QED
    BY <1>6, <2>1, <2>2, Numbers
<1>9. AllFinite' /\ LoginBudgetsHold'
  BY <1>1, <1>7, <1>8 DEF LoginInv, AllFinite, LoginBudgetsHold, BucketCount
<1>10. QED
  BY <1>2, <1>5, <1>9 DEF LoginInv

LEMMA StillKeepsInv ==
    ASSUME LoginInv, verifying' \subseteq verifying,
           UNCHANGED <<clock, keyAttempts, addressAttempts, lastPruned, spent, tries>>
    PROVE  LoginInv'
BY DEF LoginInv, TypeOKLogin, HistoryIsInBuckets, AllFinite, LoginBudgetsHold, BucketCount

LEMMA LoginStep == LoginInv /\ [NextLogin]_loginVars => LoginInv'
<1> SUFFICES ASSUME LoginInv, [NextLogin]_loginVars
             PROVE  LoginInv'
  OBVIOUS
<1>1. ASSUME NEW key \in Keys, FailLogin(key)
      PROVE  LoginInv'
  BY <1>1, StillKeepsInv DEF FailLogin
<1>2. CASE UNCHANGED loginVars
  BY <1>2, StillKeepsInv DEF loginVars
<1>3. ASSUME NEW key \in Keys, Attempt(key)
      PROVE  LoginInv'
  BY <1>3, LetInKeepsInv, RefusedKeepsInv
<1>4. QED
  BY <1>1, <1>2, <1>3, SucceedKeepsInv, TickKeepsInv DEF NextLogin

(* The attempt tables' inductive invariant.                                  *)
THEOREM LoginInvariant == SpecLogin => []LoginInv
BY InitLoginInv, LoginStep, PTL DEF SpecLogin

(* The attempt tables are of their types whatever is attempted, pruned and   *)
(* forgotten.                                                                *)
THEOREM LoginTypeCorrect == SpecLogin => []TypeOKLogin
<1>1. LoginInv => TypeOKLogin
  BY DEF LoginInv
<1>2. QED
  BY <1>1, LoginInvariant, PTL

(* For every window, budget and cap: no address and nobody is let in more    *)
(* often than their budget, and the buckets never outgrow the cap.           *)
THEOREM LoginBudgetsAlwaysHold == SpecLogin => []LoginBudgetsHold
<1>1. LoginInv => LoginBudgetsHold
  BY DEF LoginInv
<1>2. QED
  BY <1>1, LoginInvariant, PTL

-----------------------------------------------------------------------------
(***************************************************************************)
(* Management corrections.                                                 *)
(***************************************************************************)

(* What the state is made of: rows of the results, what a correction leaves, *)
(* what an editor asks for, and the editor in each phase.                    *)
Tint == Colors \cup {NoColor}
GradeRows == [Criteria -> Grades \cup {NoGrade}]
Results == [grades : GradeRows \cup {Blank}, automatic : GradeRows \cup {Blank},
            adjusted : SUBSET Criteria, color : Tint]
Previews == [before : Results, after : Results]
Leavings == [values : Overrides, color : Tint]
Saves == [values : Overrides, color : Tint, revision : 0..MaxCorrections]
Requests == [kind : {"set"}, grades : Overrides]
            \cup [kind : {"restore"}, target : Targets]
            \cup [kind : {"color"}, color : Tint]
            \cup [kind : {"undo"}, event : Nat]
HistoryEntries == [before : Saves, after : Saves, signature : Configurations,
            approved : Previews, applied : Previews]
Editors == [phase : {"closed"}]
           \cup [phase : {"open"}, revision : 0..MaxCorrections, signature : Configurations]
           \cup [phase : {"approving"}, revision : 0..MaxCorrections, signature : Configurations,
                 op : Requests, shown : Previews,
                 fingerprint : [row : Results, revision : 0..MaxCorrections,
                                signature : Configurations]]
           \cup [phase : {"applying"}, revision : 0..MaxCorrections, signature : Configurations,
                 shown : Previews, found : Previews, before : Saves, after : Leavings]

CorrectionsTyped ==
    /\ signature \in Configurations
    /\ automatic \in GradeRows
    /\ attends \in BOOLEAN
    /\ correction \in [revision : 0..MaxCorrections, values : Overrides, color : Tint,
                       signature : Configurations \cup {NoColor}]
    /\ trail \in Seq(HistoryEntries)
    /\ editor \in [Managers -> Editors]
    /\ scores \in 0..MaxScores /\ publications \in 0..MaxConfigurations

(* What is saved, as a history entry describes it.                           *)
Nothing == [values |-> Blank, color |-> NoColor, revision |-> 0]
InForce == [values |-> correction.values, color |-> correction.color,
            revision |-> correction.revision]

(* Row and Preview of a recruit who attends, for any automatic grades and    *)
(* any correction in force.                                                  *)
RowOf(auto, values, color) ==
    [grades |-> [c \in Criteria |-> IF c \in DOMAIN values THEN values[c] ELSE auto[c]],
     automatic |-> auto, adjusted |-> DOMAIN values, color |-> color]

ChangeOf(history, values, color, op) ==
    CASE op.kind = "set" -> [values |-> Overlaid(values, op.grades), color |-> color]
      [] op.kind = "restore" ->
            [values |-> Restrict(values, DOMAIN values \ op.target), color |-> color]
      [] op.kind = "color" -> [values |-> values, color |-> op.color]
      [] op.kind = "undo" -> [values |-> history[op.event].before.values,
                              color |-> history[op.event].before.color]

PreviewOf(history, auto, values, color, op) ==
    [before |-> RowOf(auto, values, color),
     after |-> RowOf(auto, ChangeOf(history, values, color, op).values,
                           ChangeOf(history, values, color, op).color)]

(* What a manager who approves was shown was computed from one state, the    *)
(* one whose row is fingerprinted; and the history entry to undo is there.   *)
Fingerprinted(e, history) ==
    /\ \E auto \in GradeRows, values \in Overrides, color \in Tint :
          /\ e.fingerprint.row = RowOf(auto, values, color)
          /\ e.shown = PreviewOf(history, auto, values, color, e.op)
    /\ e.op.kind = "undo" => e.op.event \in DOMAIN history
    /\ e.fingerprint.revision < MaxCorrections

ShownIsFingerprinted ==
    \A m \in Managers : editor[m].phase = "approving" => Fingerprinted(editor[m], trail)

(* A transaction that is to commit found what was shown; unless another      *)
(* correction was committed since, it starts from the one in force.          *)
Old(e, inforce) ==
    /\ e.shown = e.found
    /\ e.before.revision < MaxCorrections
    /\ e.before.revision <= inforce.revision
    /\ e.before.revision = inforce.revision => e.before = inforce

SnapshotsAreOld ==
    \A m \in Managers : editor[m].phase = "applying" => Old(editor[m], InForce)

CorrectionsInv ==
    /\ CorrectionsTyped
    /\ Len(trail) = correction.revision
    /\ HistoryIsAChain
    /\ AppliedAsPreviewed
    /\ ShownIsFingerprinted
    /\ SnapshotsAreOld

-----------------------------------------------------------------------------
LEMMA BlankIsAnOverride == Blank \in Overrides
<1>1. {} \in SUBSET Criteria
  OBVIOUS
<1>2. Blank \in [{} -> Asked]
  BY DEF Blank
<1>3. QED
  BY <1>1, <1>2 DEF Overrides

LEMMA OverridesAreFunctions ==
    ASSUME NEW f
    PROVE  f \in Overrides <=> /\ f = [c \in DOMAIN f |-> f[c]]
                               /\ DOMAIN f \subseteq Criteria
                               /\ \A c \in DOMAIN f : f[c] \in Asked
  BY DEF Overrides

(* Every operation leaves a correction.                                      *)
LEMMA GradingsAreOverrides == Gradings \subseteq Overrides
<1>1. ASSUME NEW t \in Targets, NEW f \in [t -> Asked]
      PROVE  f \in Overrides
  <2>1. t \subseteq Criteria
    BY DEF Criteria
  <2>2. QED
    BY <2>1 DEF Overrides
<1>2. ASSUME NEW t \in Targets, NEW g \in Asked, NEW f \in [t -> {g}]
      PROVE  f \in Overrides
  <2>1. f \in [t -> Asked]
    OBVIOUS
  <2>2. QED
    BY <1>1, <2>1
<1>3. ASSUME NEW f \in Gradings
      PROVE  f \in Overrides
  <2>1. CASE f \in UNION {[t -> {g}] : t \in Targets, g \in Asked}
    <3>1. PICK S \in {[t -> {g}] : t \in Targets, g \in Asked} : f \in S
      BY <2>1
    <3>2. PICK t \in Targets, g \in Asked : S = [t -> {g}]
      BY <3>1
    <3>3. QED
      BY <1>2, <3>1, <3>2
  <2>2. CASE f \in UNION {[t -> Asked] : t \in Complete}
    <3>1. PICK S \in {[t -> Asked] : t \in Complete} : f \in S
      BY <2>2
    <3>2. PICK t \in Complete : S = [t -> Asked]
      BY <3>1
    <3>3. QED
      BY <1>1, <3>1, <3>2, CorrectionsAssumption
  <2>3. QED
    BY <2>1, <2>2 DEF Gradings
<1>4. QED
  BY <1>3

LEMMA OperationsAreRequests ==
    ASSUME CorrectionsTyped, NEW op \in Operations
    PROVE  /\ op \in Requests
           /\ op.kind = "undo" => op.event \in DOMAIN trail
<1>1. CASE op \in [kind : {"set"}, grades : Gradings]
  BY <1>1, GradingsAreOverrides DEF Requests
<1>2. CASE op \in [kind : {"restore"}, target : Targets]
  BY <1>2 DEF Requests
<1>3. CASE op \in [kind : {"color"}, color : Colors \cup {NoColor}]
  BY <1>3 DEF Requests, Tint
<1>4. CASE op \in [kind : {"undo"}, event : {i \in DOMAIN trail : trail[i].signature = signature}]
  <2>1. DOMAIN trail \subseteq Nat
    BY DEF CorrectionsTyped
  <2>2. QED
    BY <1>4, <2>1 DEF Requests
<1>5. QED
  BY <1>1, <1>2, <1>3, <1>4 DEF Operations

LEMMA ChangesAreLeavings ==
    ASSUME CorrectionsTyped, NEW op \in Requests, NEW values \in Overrides, NEW color \in Tint,
           op.kind = "undo" => op.event \in DOMAIN trail
    PROVE  ChangeOf(trail, values, color, op) \in Leavings
<1>1. CASE op \in [kind : {"set"}, grades : Overrides]
  <2>1. Overlaid(values, op.grades) \in Overrides
    BY <1>1, OverridesAreFunctions DEF Overlaid
  <2>2. QED
    BY <1>1, <2>1 DEF ChangeOf, Leavings
<1>2. CASE op \in [kind : {"restore"}, target : Targets]
  <2>1. Restrict(values, DOMAIN values \ op.target) \in Overrides
    BY OverridesAreFunctions DEF Restrict
  <2>2. QED
    BY <1>2, <2>1 DEF ChangeOf, Leavings
<1>3. CASE op \in [kind : {"color"}, color : Tint]
  BY <1>3 DEF ChangeOf, Leavings
<1>4. CASE op \in [kind : {"undo"}, event : Nat]
  <2>1. trail[op.event] \in HistoryEntries
    BY <1>4 DEF CorrectionsTyped
  <2>2. QED
    BY <1>4, <2>1 DEF ChangeOf, Leavings, HistoryEntries, Saves
<1>5. QED
  BY <1>1, <1>2, <1>3, <1>4 DEF Requests

LEMMA RowsAreResults ==
    ASSUME NEW auto \in GradeRows, NEW values \in Overrides, NEW color \in Tint
    PROVE  RowOf(auto, values, color) \in Results
<1>1. [c \in Criteria |-> IF c \in DOMAIN values THEN values[c] ELSE auto[c]] \in GradeRows
  BY OverridesAreFunctions DEF GradeRows, Grades
<1>2. DOMAIN values \subseteq Criteria
  BY OverridesAreFunctions
<1>3. QED
  BY <1>1, <1>2 DEF RowOf, Results

(* A row tells what it was computed from.                                    *)
LEMMA RowsDetermineTheState ==
    ASSUME NEW a \in GradeRows, NEW v \in Overrides, NEW k \in Tint,
           NEW b \in GradeRows, NEW w \in Overrides, NEW l \in Tint,
           RowOf(a, v, k) = RowOf(b, w, l)
    PROVE  a = b /\ v = w /\ k = l
<1>1. a = b /\ k = l /\ DOMAIN v = DOMAIN w
  BY DEF RowOf
<1>2. ASSUME NEW c \in DOMAIN v
      PROVE  v[c] = w[c]
  <2>1. c \in Criteria
    BY OverridesAreFunctions
  <2>2. RowOf(a, v, k).grades[c] = v[c] /\ RowOf(b, w, l).grades[c] = w[c]
    BY <1>1, <2>1 DEF RowOf
  <2>3. QED
    BY <2>2
<1>3. QED
  BY <1>1, <1>2, OverridesAreFunctions

-----------------------------------------------------------------------------
LEMMA InitCorrectionsInv == InitCorrections => CorrectionsInv
<1> SUFFICES ASSUME InitCorrections
             PROVE  CorrectionsInv
  OBVIOUS
<1> USE CorrectionsAssumption DEF InitCorrections
<1>1. CorrectionsTyped
  BY BlankIsAnOverride DEF CorrectionsTyped, GradeRows, Tint, Editors, NoCorrection
<1>2. HistoryIsAChain /\ AppliedAsPreviewed /\ Len(trail) = correction.revision
  BY DEF HistoryIsAChain, AppliedAsPreviewed, NoCorrection
<1>3. ShownIsFingerprinted /\ SnapshotsAreOld
  BY DEF ShownIsFingerprinted, SnapshotsAreOld
<1>4. QED
  BY <1>1, <1>2, <1>3 DEF CorrectionsInv

(* An editor of a manager who does nothing with it is what it was.           *)
LEMMA EditorsKeepInv ==
    ASSUME CorrectionsInv,
           UNCHANGED <<correction, trail>>,
           CorrectionsTyped',
           \A m \in Managers :
              \/ editor'[m] = editor[m]
              \/ editor'[m].phase \in {"closed", "open"}
    PROVE  CorrectionsInv'
<1> USE DEF CorrectionsInv
<1>1. ShownIsFingerprinted'
  BY DEF ShownIsFingerprinted
<1>2. SnapshotsAreOld'
  BY DEF SnapshotsAreOld, InForce
<1>3. HistoryIsAChain' /\ AppliedAsPreviewed' /\ (Len(trail) = correction.revision)'
  BY DEF HistoryIsAChain, AppliedAsPreviewed
<1>4. QED
  BY <1>1, <1>2, <1>3

(* A preview is computed from the state it fingerprints.                     *)
LEMMA AskKeepsInv ==
    ASSUME CorrectionsInv, NEW m \in Managers, AskPreview(m)
    PROVE  CorrectionsInv'
<1> USE CorrectionsAssumption DEF CorrectionsInv
<1>1. PICK op \in Operations :
         /\ Admissible(editor[m], op)
         /\ editor' = [editor EXCEPT ![m] =
                [phase |-> "approving", revision |-> @.revision, signature |-> @.signature,
                 op |-> op, shown |-> Preview(op), fingerprint |-> Fingerprint]]
  BY DEF AskPreview
<1> DEFINE e == [phase |-> "approving", revision |-> editor[m].revision,
                 signature |-> editor[m].signature,
                 op |-> op, shown |-> Preview(op), fingerprint |-> Fingerprint]
<1>2. editor' = [editor EXCEPT ![m] = e]
  BY <1>1
<1>3. UNCHANGED <<signature, automatic, attends, correction, trail, scores, publications>>
  BY DEF AskPreview
<1>4. op \in Requests /\ (op.kind = "undo" => op.event \in DOMAIN trail)
  BY OperationsAreRequests
<1>5. attends /\ correction.values \in Overrides /\ correction.color \in Tint /\ automatic \in GradeRows
  BY <1>1 DEF Admissible, CorrectionsTyped
<1>6. /\ Fingerprint.row = RowOf(automatic, correction.values, correction.color)
      /\ Preview(op) = PreviewOf(trail, automatic, correction.values, correction.color, op)
  BY <1>5 DEF Fingerprint, Preview, PreviewOf, Row, RowOf, Effective, Changed, ChangeOf
<1>7. Preview(op) \in Previews /\ Fingerprint.row \in Results
  <2>1. ChangeOf(trail, correction.values, correction.color, op) \in Leavings
    BY <1>4, <1>5, ChangesAreLeavings
  <2>2. QED
    BY <2>1, <1>5, <1>6, RowsAreResults DEF PreviewOf, Previews, Leavings
<1>8. editor[m].revision \in 0..MaxCorrections /\ editor[m].signature \in Configurations
  BY <1>1 DEF CorrectionsTyped, AskPreview, Editors
<1>9. e \in Editors
  BY <1>4, <1>7, <1>8 DEF Editors, Fingerprint, CorrectionsTyped
<1>10. Fingerprinted(e, trail)
  <2>1. Fingerprint.revision < MaxCorrections
    BY DEF Fingerprint, CorrectionsTyped, AskPreview
  <2>2. QED
    BY <1>4, <1>5, <1>6, <2>1 DEF Fingerprinted
<1> HIDE DEF e
<1>11. CorrectionsTyped'
  BY <1>2, <1>3, <1>9 DEF CorrectionsTyped
<1>12. editor'[m] = e /\ \A n \in Managers \ {m} : editor'[n] = editor[n]
  BY <1>2 DEF CorrectionsTyped
<1>13. ShownIsFingerprinted'
  BY <1>3, <1>10, <1>12 DEF ShownIsFingerprinted
<1>14. SnapshotsAreOld'
  <2>1. e.phase = "approving"
    BY DEF e
  <2>2. QED
    BY <1>3, <1>12, <2>1 DEF SnapshotsAreOld, InForce
<1>15. HistoryIsAChain' /\ AppliedAsPreviewed' /\ (Len(trail) = correction.revision)'
  BY <1>3 DEF HistoryIsAChain, AppliedAsPreviewed
<1>16. QED
  BY <1>11, <1>13, <1>14, <1>15

(* The transaction that applies finds the fingerprint it was sent, so what   *)
(* it computes is what was shown.                                            *)
LEMMA BeginApplyKeepsInv ==
    ASSUME CorrectionsInv, NEW m \in Managers, BeginApply(m)
    PROVE  CorrectionsInv'
<1> USE CorrectionsAssumption DEF CorrectionsInv
<1>1. UNCHANGED <<signature, automatic, attends, correction, trail, scores, publications>>
  BY DEF BeginApply
<1>2. editor[m] \in [phase : {"approving"}, revision : 0..MaxCorrections, signature : Configurations,
                     op : Requests, shown : Previews,
                     fingerprint : [row : Results, revision : 0..MaxCorrections,
                                    signature : Configurations]]
  BY DEF BeginApply, CorrectionsTyped, Editors
<1>3. Fingerprinted(editor[m], trail)
  BY <1>2 DEF ShownIsFingerprinted
<1>4. CASE Admissible(editor[m], editor[m].op) /\ Fingerprint = editor[m].fingerprint
  <2> DEFINE op == editor[m].op
             e == [phase |-> "applying", revision |-> editor[m].revision,
                   signature |-> editor[m].signature,
                   shown |-> editor[m].shown, found |-> Preview(op),
                   before |-> [values |-> correction.values, color |-> correction.color,
                               revision |-> correction.revision],
                   after |-> Changed(op)]
  <2>1. editor' = [editor EXCEPT ![m] = e]
    BY <1>4 DEF BeginApply
  <2>2. attends /\ correction.values \in Overrides /\ correction.color \in Tint /\ automatic \in GradeRows
    BY <1>4 DEF Admissible, CorrectionsTyped
  <2>3. /\ Fingerprint.row = RowOf(automatic, correction.values, correction.color)
        /\ Preview(op) = PreviewOf(trail, automatic, correction.values, correction.color, op)
        /\ Changed(op) = ChangeOf(trail, correction.values, correction.color, op)
    BY <2>2 DEF Fingerprint, Preview, PreviewOf, Row, RowOf, Effective, Changed, ChangeOf
  <2>4. PICK auto \in GradeRows, values \in Overrides, color \in Tint :
           /\ editor[m].fingerprint.row = RowOf(auto, values, color)
           /\ editor[m].shown = PreviewOf(trail, auto, values, color, op)
    BY <1>3 DEF Fingerprinted
  <2>5. auto = automatic /\ values = correction.values /\ color = correction.color
    BY <1>4, <2>2, <2>3, <2>4, RowsDetermineTheState
  <2>6. editor[m].shown = Preview(op)
    BY <2>3, <2>4, <2>5
  <2>7. Changed(op) \in Leavings
    BY <1>2, <1>3, <2>2, <2>3, ChangesAreLeavings DEF Fingerprinted
  <2>8. correction.revision < MaxCorrections
    BY <1>3, <1>4 DEF Fingerprinted, Fingerprint
  <2>9. e \in Editors
    <3>1. [values |-> correction.values, color |-> correction.color,
           revision |-> correction.revision] \in Saves
      BY <2>2 DEF Saves, CorrectionsTyped
    <3>2. QED
      BY <1>2, <2>6, <2>7, <3>1 DEF Editors
  <2>10. Old(e, InForce)
    BY <2>6, <2>8, <2>2 DEF Old, InForce, CorrectionsTyped
  <2>11. e.phase = "applying"
    OBVIOUS
  <2> HIDE DEF e
  <2>12. CorrectionsTyped'
    BY <1>1, <2>1, <2>9 DEF CorrectionsTyped
  <2>13. editor'[m] = e /\ \A n \in Managers \ {m} : editor'[n] = editor[n]
    BY <2>1 DEF CorrectionsTyped
  <2>14. ShownIsFingerprinted'
    BY <1>1, <2>11, <2>13 DEF ShownIsFingerprinted
  <2>15. SnapshotsAreOld'
    BY <1>1, <2>10, <2>13 DEF SnapshotsAreOld, InForce
  <2>16. HistoryIsAChain' /\ AppliedAsPreviewed' /\ (Len(trail) = correction.revision)'
    BY <1>1 DEF HistoryIsAChain, AppliedAsPreviewed
  <2>17. QED
    BY <2>12, <2>14, <2>15, <2>16
<1>5. CASE ~(Admissible(editor[m], editor[m].op) /\ Fingerprint = editor[m].fingerprint)
  <2>1. editor' = [editor EXCEPT ![m] = Reopened(m)]
    BY <1>5 DEF BeginApply
  <2>2. Reopened(m) \in Editors /\ Reopened(m).phase = "open"
    BY <1>2 DEF Reopened, Editors
  <2>3. CorrectionsTyped'
    BY <1>1, <2>1, <2>2 DEF CorrectionsTyped
  <2>4. QED
    BY <1>1, <2>1, <2>2, <2>3, EditorsKeepInv DEF CorrectionsTyped
<1>6. QED
  BY <1>4, <1>5

LEMMA LongerByOne ==
    ASSUME NEW S, NEW s \in Seq(S), NEW x
    PROVE  Len(Append(s, x)) = Len(s) + 1
  OBVIOUS

(* The first to save appends what it found to the history; the others that   *)
(* took their snapshot before it can no longer commit.                       *)
LEMMA CommitCorrectionKeepsInv ==
    ASSUME CorrectionsInv, NEW m \in Managers, CommitApply(m)
    PROVE  CorrectionsInv'
<1> USE CorrectionsAssumption DEF CorrectionsInv
<1> DEFINE e == editor[m]
           after == [values |-> e.after.values, color |-> e.after.color,
                     revision |-> e.before.revision + 1]
           entry == [before |-> e.before, after |-> after, signature |-> e.signature,
                     approved |-> e.shown, applied |-> e.found]
<1>1. e \in [phase : {"applying"}, revision : 0..MaxCorrections, signature : Configurations,
             shown : Previews, found : Previews, before : Saves, after : Leavings]
  BY DEF CommitApply, CorrectionsTyped, Editors
<1>2. Old(e, InForce)
  BY <1>1 DEF SnapshotsAreOld
<1>3. /\ correction' = [revision |-> e.before.revision + 1, values |-> e.after.values,
                        color |-> e.after.color, signature |-> e.signature]
      /\ trail' = Append(trail, entry)
      /\ UNCHANGED <<signature, automatic, attends, scores, publications>>
  BY DEF CommitApply
<1>4. e.before = InForce /\ e.before.revision = Len(trail) /\ Len(trail) < MaxCorrections
      /\ e.shown = e.found
  BY <1>1, <1>2 DEF CommitApply, FirstToSave, Old, InForce
<1>5. entry \in HistoryEntries
  <2>1. after \in Saves
    BY <1>1, <1>4 DEF Saves, Leavings
  <2>2. QED
    BY <1>1, <2>1 DEF HistoryEntries
<1>6. InForce' = after
  BY <1>3 DEF InForce
<1>7. PICK page \in {Reopened(m), [phase |-> "open", revision |-> e.before.revision + 1,
                                  signature |-> signature]} :
         editor' = [editor EXCEPT ![m] = page]
  BY DEF CommitApply
<1>8. page \in Editors /\ page.phase = "open"
  <2>1. Len(trail) \in Nat /\ signature \in Configurations
    BY DEF CorrectionsTyped
  <2>2. Reopened(m) \in [phase : {"open"}, revision : 0..MaxCorrections, signature : Configurations]
    BY <1>1 DEF Reopened
  <2>3. page \in [phase : {"open"}, revision : 0..MaxCorrections, signature : Configurations]
    BY <1>1, <1>4, <1>7, <2>1, <2>2 DEF Reopened
  <2>4. QED
    BY <2>3 DEF Editors
<1>9. CorrectionsTyped'
  <2>1. correction' \in [revision : 0..MaxCorrections, values : Overrides, color : Tint,
                         signature : Configurations \cup {NoColor}]
    BY <1>1, <1>3, <1>4 DEF Leavings, CorrectionsTyped
  <2>2. trail' \in Seq(HistoryEntries)
    BY <1>3, <1>5 DEF CorrectionsTyped
  <2>3. editor' \in [Managers -> Editors]
    BY <1>7, <1>8 DEF CorrectionsTyped
  <2>4. QED
    BY <1>3, <2>1, <2>2, <2>3 DEF CorrectionsTyped
<1>10. Len(trail') = correction'.revision
  <2>1. trail' = Append(trail, entry) /\ correction'.revision = e.before.revision + 1
    BY <1>3
  <2>2. trail \in Seq(HistoryEntries)
    BY DEF CorrectionsTyped
  <2>3. Len(trail') = Len(trail) + 1
    BY <2>1, <2>2, LongerByOne
  <2>4. QED
    BY <1>4, <2>1, <2>3
<1> HIDE DEF after
<1>11. entry.before = e.before /\ entry.after = after /\ entry.approved = entry.applied
  BY <1>4
<1> HIDE DEF entry
<1>12. /\ DOMAIN trail = 1..Len(trail) /\ DOMAIN trail' = 1..(Len(trail) + 1)
       /\ Len(trail) \in Nat /\ Len(trail') = Len(trail) + 1
       /\ trail'[Len(trail) + 1] = entry
       /\ \A i \in 1..Len(trail) : trail'[i] = trail[i]
  BY <1>3 DEF CorrectionsTyped
<1>13. HistoryIsAChain'
  <2>1. InForce = IF trail = <<>> THEN Nothing ELSE trail[Len(trail)].after
    BY DEF HistoryIsAChain, InForce, Nothing
  <2>2. ASSUME NEW i \in DOMAIN trail'
        PROVE  trail'[i].before = IF i = 1 THEN Nothing ELSE trail'[i - 1].after
    <3>1. CASE i \in DOMAIN trail
      BY <1>12, <3>1 DEF HistoryIsAChain, Nothing
    <3>2. CASE i = Len(trail) + 1
      <4>1. trail = <<>> <=> i = 1
        BY <1>12, <3>2 DEF CorrectionsTyped
      <4>2. QED
        BY <1>4, <1>11, <1>12, <2>1, <3>2, <4>1
    <3>3. QED
      BY <1>12, <3>1, <3>2
  <2>3. InForce' = trail'[Len(trail')].after /\ trail' # <<>>
    BY <1>6, <1>11, <1>12
  <2>4. QED
    BY <2>2, <2>3 DEF HistoryIsAChain, InForce, Nothing
<1>14. AppliedAsPreviewed'
  BY <1>11, <1>12 DEF AppliedAsPreviewed
<1>15. editor'[m] = page /\ \A n \in Managers \ {m} : editor'[n] = editor[n]
  BY <1>7 DEF CorrectionsTyped
<1>16. ShownIsFingerprinted'
  <2>1. ASSUME NEW f, Fingerprinted(f, trail), f.op \in Requests
        PROVE  Fingerprinted(f, trail')
    <3>1. \A values, color : ChangeOf(trail', values, color, f.op) = ChangeOf(trail, values, color, f.op)
      <4>1. f.op.kind = "undo" => trail'[f.op.event] = trail[f.op.event]
        BY <1>12, <2>1 DEF Fingerprinted
      <4>2. QED
        BY <2>1, <4>1 DEF ChangeOf
    <3>2. QED
      BY <1>12, <2>1, <3>1 DEF Fingerprinted, PreviewOf
  <2>2. \A n \in Managers : editor[n].phase = "approving" => editor[n].op \in Requests
    BY DEF CorrectionsTyped, Editors
  <2>3. QED
    BY <1>8, <1>15, <2>1, <2>2 DEF ShownIsFingerprinted
<1>17. SnapshotsAreOld'
  <2>1. InForce.revision \in Nat /\ InForce'.revision = InForce.revision + 1
    BY <1>4, <1>3 DEF InForce, CorrectionsTyped
  <2>2. ASSUME NEW n \in Managers, editor'[n].phase = "applying"
        PROVE  Old(editor'[n], InForce')
    <3>1. n # m /\ editor'[n] = editor[n]
      BY <1>8, <1>15, <2>2
    <3>2. editor[n].before.revision \in Nat
      BY <2>2, <3>1 DEF CorrectionsTyped, Editors, Saves
    <3>3. QED
      BY <2>1, <2>2, <3>1, <3>2 DEF SnapshotsAreOld, Old
  <2>3. QED
    BY <2>2 DEF SnapshotsAreOld
<1>18. QED
  BY <1>9, <1>10, <1>13, <1>14, <1>16, <1>17

(* The rest of the editor, and what happens meanwhile.                       *)
LEMMA PageKeepsInv ==
    ASSUME CorrectionsInv, NEW m \in Managers, Load(m) \/ ClearPreview(m) \/ AbortApply(m)
    PROVE  CorrectionsInv'
<1> USE CorrectionsAssumption DEF CorrectionsInv
<1>1. UNCHANGED <<signature, automatic, attends, correction, trail, scores, publications>>
  BY DEF Load, ClearPreview, AbortApply
<1>2. PICK page \in {Page, Reopened(m)} :
         editor' = [editor EXCEPT ![m] = page] /\ page \in Editors /\ page.phase = "open"
  <2>1. CASE Load(m)
    <3>1. Page \in Editors /\ Page.phase = "open"
      BY DEF Page, CorrectionsTyped, Editors
    <3>2. QED
      BY <2>1, <3>1 DEF Load
  <2>2. CASE ClearPreview(m) \/ AbortApply(m)
    <3>1. Reopened(m) \in Editors /\ Reopened(m).phase = "open"
      BY <2>2 DEF ClearPreview, AbortApply, Reopened, CorrectionsTyped, Editors
    <3>2. QED
      BY <2>2, <3>1 DEF ClearPreview, AbortApply
  <2>3. QED
    BY <2>1, <2>2
<1>3. CorrectionsTyped'
  BY <1>1, <1>2 DEF CorrectionsTyped
<1>4. QED
  BY <1>1, <1>2, <1>3, EditorsKeepInv DEF CorrectionsTyped

LEMMA MeanwhileKeepsInv ==
    ASSUME CorrectionsInv,
           SaveGrade \/ MarkAttendance \/ PublishConfiguration \/ UNCHANGED correctionVars
    PROVE  CorrectionsInv'
<1> USE CorrectionsAssumption DEF CorrectionsInv
<1>1. UNCHANGED <<correction, trail, editor>>
  BY DEF SaveGrade, MarkAttendance, PublishConfiguration, correctionVars
<1>2. CASE SaveGrade
  <2>1. automatic' \in GradeRows
    BY <1>2 DEF SaveGrade, CorrectionsTyped, GradeRows, Grades
  <2>2. CorrectionsTyped'
    BY <1>2, <2>1 DEF SaveGrade, CorrectionsTyped
  <2>3. QED
    BY <1>1, <2>2, EditorsKeepInv
<1>3. CASE MarkAttendance
  <2>1. CorrectionsTyped'
    BY <1>3 DEF MarkAttendance, CorrectionsTyped
  <2>2. QED
    BY <1>1, <2>1, EditorsKeepInv
<1>4. CASE PublishConfiguration
  <2>1. CorrectionsTyped'
    BY <1>4 DEF PublishConfiguration, CorrectionsTyped
  <2>2. QED
    BY <1>1, <2>1, EditorsKeepInv
<1>5. CASE UNCHANGED correctionVars
  <2>1. CorrectionsTyped'
    BY <1>5 DEF correctionVars, CorrectionsTyped
  <2>2. QED
    BY <1>1, <2>1, EditorsKeepInv
<1>6. QED
  BY <1>2, <1>3, <1>4, <1>5

LEMMA CorrectionsStep == CorrectionsInv /\ [NextCorrections]_correctionVars => CorrectionsInv'
<1> SUFFICES ASSUME CorrectionsInv, [NextCorrections]_correctionVars
             PROVE  CorrectionsInv'
  OBVIOUS
<1>1. ASSUME NEW m \in Managers,
             Load(m) \/ AskPreview(m) \/ ClearPreview(m) \/ BeginApply(m)
                     \/ CommitApply(m) \/ AbortApply(m)
      PROVE  CorrectionsInv'
  BY <1>1, AskKeepsInv, BeginApplyKeepsInv, CommitCorrectionKeepsInv, PageKeepsInv
<1>2. QED
  BY <1>1, MeanwhileKeepsInv DEF NextCorrections

(* Editors, requests and rows satisfy CorrectionsInv in every state.         *)
THEOREM CorrectionsInvariant == SpecCorrections => []CorrectionsInv
  BY InitCorrectionsInv, CorrectionsStep, PTL DEF SpecCorrections

LEMMA CorrectionsAreTyped == CorrectionsInv => TypeOKCorrections
<1> SUFFICES ASSUME CorrectionsInv
             PROVE  TypeOKCorrections
  OBVIOUS
<1>1. \A m \in Managers : editor[m].phase \in {"closed", "open", "approving", "applying"}
  BY DEF CorrectionsInv, CorrectionsTyped, Editors
<1>2. QED
  BY <1>1 DEF CorrectionsInv, CorrectionsTyped, TypeOKCorrections, Tint, GradeRows

(* TypeOKCorrections holds for any managers, criteria and configurations.    *)
THEOREM CorrectionsTypeCorrect == SpecCorrections => []TypeOKCorrections
  BY CorrectionsAreTyped, CorrectionsInvariant, PTL

(* HistoryIsAChain: however many managers correct the recruit at once, no    *)
(* correction is overwritten unseen and none is applied twice.               *)
THEOREM CorrectionsAreAChain == SpecCorrections => []HistoryIsAChain
<1>1. CorrectionsInv => HistoryIsAChain
  BY DEF CorrectionsInv
<1>2. QED
  BY <1>1, CorrectionsInvariant, PTL

(* AppliedAsPreviewed: what a correction did is what its manager was shown,  *)
(* whatever was saved, published or corrected between preview and approval.  *)
THEOREM CorrectionsAreAsPreviewed == SpecCorrections => []AppliedAsPreviewed
<1>1. CorrectionsInv => AppliedAsPreviewed
  BY DEF CorrectionsInv
<1>2. QED
  BY <1>1, CorrectionsInvariant, PTL

-----------------------------------------------------------------------------
(***************************************************************************)
(* The notes of a profile.                                                 *)
(***************************************************************************)

(* No page, write or row knows a version that was never given; nothing is    *)
(* given while the profile has no row.                                       *)
VersionsWereGiven ==
    /\ profile.version <= highest
    /\ profile.version = 0 => highest = 0
    /\ \A page \in Pages : sheet[page].version <= highest /\ sheet[page].latest <= highest
    /\ \A write \in writes : write.base <= highest /\ write.at <= highest

(* The version that a write will be compared with, or was.                   *)
Basis(write) == IF write.read THEN write.at ELSE write.base

(* Whoever is at the row's version looked at the row's note, unless that     *)
(* version was given twice: then all that could be lost counts as raced.     *)
SameVersionSameNote ==
    \/ profile.seen \subseteq raced
    \/ /\ \A page \in Pages :
            sheet[page].version = profile.version => sheet[page].acknowledged = profile.note
       /\ \A write \in writes :
            ~write.forced /\ Basis(write) = profile.version => write.basis = profile.note

(* What a page was told is saved was seen by the row's author, or raced.     *)
AcknowledgedIsKept ==
    /\ profile.note \in profile.seen
    /\ \A page \in Pages : sheet[page].acknowledged \in profile.seen \cup raced

SavedIsClean == \A page \in Pages : sheet[page].status = "saved" => ~Unsaved(page)

NotesInv ==
    /\ TypeOKNotes
    /\ VersionsWereGiven
    /\ SameVersionSameNote
    /\ AcknowledgedIsKept
    /\ SavedIsClean

-----------------------------------------------------------------------------
(* What each step does to a page's record.                                   *)

LEMMA TypedSheet ==
    ASSUME NEW p \in Sheets, NEW note \in Contents, NEW clean \in BOOLEAN
    PROVE  /\ Typed(p, note, clean) \in Sheets
           /\ Typed(p, note, clean).note = note
           /\ Typed(p, note, clean).acknowledged = p.acknowledged
           /\ Typed(p, note, clean).version = p.version
           /\ Typed(p, note, clean).latest = p.latest
           /\ Typed(p, note, clean).status = "saved" => clean
BY DEF Typed, Sheets

LEMMA HeldSheet ==
    ASSUME NEW p \in Sheets
    PROVE  /\ Held(p) \in Sheets
           /\ Held(p).note = p.note
           /\ Held(p).acknowledged = p.acknowledged
           /\ Held(p).version = p.version
           /\ Held(p).latest = p.latest
           /\ Held(p).status = p.status
BY DEF Held, Sheets

LEMMA SendingSheet ==
    ASSUME NEW p \in Sheets
    PROVE  /\ Sending(p) \in Sheets
           /\ Sending(p).note = p.note
           /\ Sending(p).acknowledged = p.acknowledged
           /\ Sending(p).version = p.version
           /\ Sending(p).latest = p.latest
           /\ Sending(p).status = "saved" => p.note = p.acknowledged
BY DEF Sending, Sheets

LEMMA FetchedSheet ==
    ASSUME NEW p \in Sheets, profile.version \in Nat
    PROVE  /\ Fetched(p) \in Sheets
           /\ Fetched(p).note = p.note
           /\ Fetched(p).acknowledged = p.acknowledged
           /\ Fetched(p).version = p.version
           /\ Fetched(p).latest = profile.version
           /\ Fetched(p).status = p.status
BY DEF Fetched, Sheets

LEMMA OverwritingSheet ==
    ASSUME NEW p \in Sheets
    PROVE  /\ Overwriting(p) \in Sheets
           /\ Overwriting(p).note = p.note
           /\ Overwriting(p).acknowledged = p.acknowledged
           /\ Overwriting(p).version = p.version
           /\ Overwriting(p).latest = 0
           /\ Overwriting(p).status = "saving"
BY DEF Overwriting, Sheets, NotFetched

LEMMA AcknowledgedSheet ==
    ASSUME NEW p \in Sheets, NEW write \in Writes, NEW version \in Nat
    PROVE  /\ Acknowledged(p, write, version) \in Sheets
           /\ Acknowledged(p, write, version).note = p.note
           /\ Acknowledged(p, write, version).acknowledged = write.note
           /\ Acknowledged(p, write, version).version = version
           /\ Acknowledged(p, write, version).latest = p.latest
           /\ Acknowledged(p, write, version).status = "saved" => p.note = write.note
BY DEF Acknowledged, Sheets, Writes

LEMMA FailedSheet ==
    ASSUME NEW p \in Sheets, NEW refused \in BOOLEAN
    PROVE  /\ Failed(p, refused) \in Sheets
           /\ Failed(p, refused).note = p.note
           /\ Failed(p, refused).acknowledged = p.acknowledged
           /\ Failed(p, refused).version = p.version
           /\ Failed(p, refused).latest = p.latest
           /\ Failed(p, refused).status # "saved"
BY DEF Failed, Sheets

LEMMA ReadWrite ==
    ASSUME NEW w \in Writes, profile.version \in Nat
    PROVE  /\ Read(w) \in Writes
           /\ Read(w).read /\ Read(w).at = profile.version
           /\ Read(w).base = w.base /\ Read(w).basis = w.basis /\ Read(w).forced = w.forced
BY DEF Read, Writes

LEMMA OrphanedWrite ==
    ASSUME NEW w \in Writes, NEW page \in Pages
    PROVE  /\ Orphaned(w, page) \in Writes
           /\ Orphaned(w, page).read = w.read /\ Orphaned(w, page).at = w.at
           /\ Orphaned(w, page).base = w.base /\ Orphaned(w, page).basis = w.basis
           /\ Orphaned(w, page).forced = w.forced
BY DEF Orphaned, Writes

-----------------------------------------------------------------------------
LEMMA InitNotesInv == InitNotes => NotesInv
<1> SUFFICES ASSUME InitNotes
             PROVE  NotesInv
  OBVIOUS
<1>1. /\ profile = [version |-> 0, note |-> EmptyNote, seen |-> {EmptyNote}]
      /\ highest = 0 /\ raced = {} /\ writes = {} /\ keyed = 0 /\ dropped = 0
      /\ sheet = [page \in Pages |-> Rendered]
  BY DEF InitNotes
<1>2. /\ Rendered \in Sheets /\ Rendered.version = 0 /\ Rendered.latest = 0
      /\ Rendered.note = EmptyNote /\ Rendered.acknowledged = EmptyNote
  BY <1>1 DEF Rendered, Sheets, Contents, NotFetched
<1>3. TypeOKNotes
  BY <1>1, <1>2, NotesAssumption DEF TypeOKNotes, Contents
<1>4. VersionsWereGiven
  BY <1>1, <1>2 DEF VersionsWereGiven
<1>5. SameVersionSameNote
  BY <1>1, <1>2 DEF SameVersionSameNote
<1>6. AcknowledgedIsKept /\ SavedIsClean
  BY <1>1, <1>2 DEF AcknowledgedIsKept, SavedIsClean, Unsaved
<1>7. QED
  BY <1>3, <1>4, <1>5, <1>6 DEF NotesInv

(* Steps that store nothing: the pages keep what they know, or read the row; *)
(* the writes are based on what their pages know.                            *)
LEMMA QuietKeepsInv ==
    ASSUME NotesInv, UNCHANGED <<profile, highest, raced>>,
           keyed' \in 0..MaxNotes, dropped' \in 0..MaxDropped,
           sheet' \in [Pages -> Sheets], writes' \subseteq Writes,
           \A page \in Pages :
              /\ \/ /\ sheet'[page].version = sheet[page].version
                    /\ sheet'[page].acknowledged = sheet[page].acknowledged
                 \/ /\ sheet'[page].version = profile.version
                    /\ sheet'[page].acknowledged = profile.note
              /\ sheet'[page].latest <= highest
              /\ sheet'[page].status = "saved" => sheet'[page].note = sheet'[page].acknowledged,
           \A write \in writes' :
              /\ write.base <= highest /\ write.at <= highest
              /\ ~write.forced /\ Basis(write) = profile.version
                    => profile.seen \subseteq raced \/ write.basis = profile.note
    PROVE  NotesInv'
<1>1. TypeOKNotes'
  BY DEF NotesInv, TypeOKNotes
<1>2. VersionsWereGiven'
  BY DEF NotesInv, VersionsWereGiven
<1>3. SameVersionSameNote'
  <2>1. CASE profile.seen \subseteq raced
    BY <2>1 DEF SameVersionSameNote
  <2>2. CASE ~(profile.seen \subseteq raced)
    <3>1. \A page \in Pages :
             sheet'[page].version = profile.version => sheet'[page].acknowledged = profile.note
      BY <2>2 DEF NotesInv, SameVersionSameNote
    <3>2. \A write \in writes' :
             ~write.forced /\ Basis(write) = profile.version => write.basis = profile.note
      BY <2>2
    <3>3. QED
      BY <3>1, <3>2 DEF SameVersionSameNote, Basis
  <2>3. QED
    BY <2>1, <2>2
<1>4. AcknowledgedIsKept'
  BY DEF NotesInv, AcknowledgedIsKept
<1>5. SavedIsClean'
  BY DEF SavedIsClean, Unsaved
<1>6. QED
  BY <1>1, <1>2, <1>3, <1>4, <1>5 DEF NotesInv

(* What the invariant says of one write under way, and of one page.          *)
LEMMA WriteKnown ==
    ASSUME NotesInv, NEW write \in writes
    PROVE  /\ write \in Writes /\ write.base <= highest /\ write.at <= highest
           /\ ~write.forced /\ Basis(write) = profile.version
                 => profile.seen \subseteq raced \/ write.basis = profile.note
BY DEF NotesInv, TypeOKNotes, VersionsWereGiven, SameVersionSameNote

LEMMA PageKnown ==
    ASSUME NotesInv, NEW page \in Pages
    PROVE  /\ sheet[page] \in Sheets
           /\ sheet[page].version \in Nat /\ sheet[page].version <= highest
           /\ sheet[page].latest \in Nat /\ sheet[page].latest <= highest
           /\ sheet[page].note \in Contents /\ sheet[page].acknowledged \in Contents
           /\ sheet[page].status = "saved" => sheet[page].note = sheet[page].acknowledged
           /\ sheet[page].version = profile.version
                 => profile.seen \subseteq raced \/ sheet[page].acknowledged = profile.note
<1>1. sheet[page] \in Sheets
  BY DEF NotesInv, TypeOKNotes
<1>2. QED
  BY <1>1 DEF NotesInv, VersionsWereGiven, SameVersionSameNote, SavedIsClean, Unsaved, Sheets

(* One page moves on; whatever it sends is based on what it knows.           *)
LEMMA NotesPageKeepsInv ==
    ASSUME NotesInv, UNCHANGED <<profile, highest, raced>>,
           keyed' \in 0..MaxNotes, dropped' \in 0..MaxDropped,
           NEW page \in Pages, NEW s \in Sheets, sheet' = [sheet EXCEPT ![page] = s],
           s.version = sheet[page].version, s.acknowledged = sheet[page].acknowledged,
           s.latest <= highest, s.status = "saved" => s.note = s.acknowledged,
           \A write \in writes' :
              write \in writes
              \/ /\ write \in Writes /\ write.base <= highest /\ write.at <= highest
                 /\ ~write.forced /\ Basis(write) = profile.version
                       => profile.seen \subseteq raced \/ write.basis = profile.note
    PROVE  NotesInv'
<1>1. sheet \in [Pages -> Sheets]
  BY DEF NotesInv, TypeOKNotes
<1>2. sheet' \in [Pages -> Sheets]
  BY <1>1
<1>3. \A k \in Pages :
         /\ sheet'[k].version = sheet[k].version /\ sheet'[k].acknowledged = sheet[k].acknowledged
         /\ sheet'[k].latest <= highest
         /\ sheet'[k].status = "saved" => sheet'[k].note = sheet'[k].acknowledged
  <2> TAKE k \in Pages
  <2>1. CASE k = page
    BY <1>1, <2>1
  <2>2. CASE k # page
    BY <1>1, <2>2, PageKnown
  <2>3. QED
    BY <2>1, <2>2
<1>4. \A write \in writes' :
         /\ write \in Writes /\ write.base <= highest /\ write.at <= highest
         /\ ~write.forced /\ Basis(write) = profile.version
               => profile.seen \subseteq raced \/ write.basis = profile.note
  BY WriteKnown
<1>5. QED
  BY <1>2, <1>3, <1>4, QuietKeepsInv

LEMMA NotesTypingKeepsInv ==
    ASSUME NotesInv, NEW page \in Pages, NEW note \in Contents, Typing(page, note)
    PROVE  NotesInv'
<1> DEFINE clean == note = sheet[page].acknowledged /\ InFlight(page) = {}
           s == Typed(sheet[page], note, clean)
<1>1. /\ sheet' = [sheet EXCEPT ![page] = s]
      /\ UNCHANGED <<profile, writes, highest, raced, dropped>> /\ keyed' = keyed + 1
      /\ keyed < MaxNotes
  BY DEF Typing
<1>2. clean \in BOOLEAN /\ (clean => note = sheet[page].acknowledged)
  OBVIOUS
<1> HIDE DEF clean
<1>3. /\ s \in Sheets /\ s.note = note /\ s.acknowledged = sheet[page].acknowledged
      /\ s.version = sheet[page].version /\ s.latest = sheet[page].latest
      /\ s.status = "saved" => clean
  BY <1>2, PageKnown, TypedSheet
<1> HIDE DEF s
<1>4. keyed' \in 0..MaxNotes /\ dropped' \in 0..MaxDropped
  BY <1>1, NotesAssumption DEF NotesInv, TypeOKNotes
<1>5. s.latest <= highest
  BY <1>3, PageKnown
<1>6. s.status = "saved" => s.note = s.acknowledged
  BY <1>2, <1>3
<1>7. QED
  BY <1>1, <1>3, <1>4, <1>5, <1>6, NotesPageKeepsInv

LEMMA RequestKnown ==
    ASSUME NotesInv, NEW page \in Pages, NEW base \in Nat, NEW forced \in BOOLEAN, base <= highest
    PROVE  /\ Request(page, base, forced) \in Writes
           /\ Request(page, base, forced).base = base
           /\ Request(page, base, forced).at = 0 /\ 0 <= highest
           /\ Request(page, base, forced).basis = sheet[page].acknowledged
           /\ Request(page, base, forced).forced = forced
           /\ ~Request(page, base, forced).read
<1>1. sheet[page].note \in Contents /\ sheet[page].acknowledged \in Contents /\ highest \in Nat
  BY PageKnown DEF NotesInv, TypeOKNotes
<1>2. QED
  BY <1>1 DEF Request, Writes

LEMMA SavePageKeepsInv ==
    ASSUME NotesInv, NEW page \in Pages, SavePage(page)
    PROVE  NotesInv'
<1>1. UNCHANGED <<profile, highest, raced, keyed, dropped>>
  BY DEF SavePage
<1>2. keyed' \in 0..MaxNotes /\ dropped' \in 0..MaxDropped
  BY <1>1 DEF NotesInv, TypeOKNotes
<1>3. CASE sheet' = [sheet EXCEPT ![page] = Held(sheet[page])] /\ UNCHANGED writes
  <2> DEFINE s == Held(sheet[page])
  <2>1. /\ s \in Sheets /\ s.note = sheet[page].note /\ s.acknowledged = sheet[page].acknowledged
        /\ s.version = sheet[page].version /\ s.latest = sheet[page].latest
        /\ s.status = sheet[page].status
    BY PageKnown, HeldSheet
  <2> HIDE DEF s
  <2>2. s.latest <= highest /\ (s.status = "saved" => s.note = s.acknowledged)
    BY <2>1, PageKnown
  <2>3. QED
    BY <1>1, <1>2, <1>3, <2>1, <2>2, NotesPageKeepsInv DEF s
<1>4. CASE /\ sheet' = [sheet EXCEPT ![page] = Sending(sheet[page])]
           /\ writes' \subseteq writes \cup {Request(page, sheet[page].version, FALSE)}
  <2> DEFINE s == Sending(sheet[page])
             r == Request(page, sheet[page].version, FALSE)
  <2>1. /\ s \in Sheets /\ s.note = sheet[page].note /\ s.acknowledged = sheet[page].acknowledged
        /\ s.version = sheet[page].version /\ s.latest = sheet[page].latest
        /\ s.status = "saved" => sheet[page].note = sheet[page].acknowledged
    BY PageKnown, SendingSheet
  <2>2. /\ r \in Writes /\ r.base = sheet[page].version /\ r.at = 0 /\ 0 <= highest
        /\ r.basis = sheet[page].acknowledged /\ ~r.read
    BY PageKnown, RequestKnown
  <2>3. sheet' = [sheet EXCEPT ![page] = s] /\ writes' \subseteq writes \cup {r}
    BY <1>4
  <2> HIDE DEF s, r
  <2>4. s.latest <= highest /\ (s.status = "saved" => s.note = s.acknowledged)
    BY <2>1, PageKnown
  <2>5. /\ r.base <= highest /\ r.at <= highest
        /\ Basis(r) = profile.version => profile.seen \subseteq raced \/ r.basis = profile.note
    BY <2>2, PageKnown DEF Basis
  <2>6. \A write \in writes' : write \in writes \/ write = r
    BY <2>3
  <2>7. QED
    BY <1>1, <1>2, <2>1, <2>2, <2>3, <2>4, <2>5, <2>6, NotesPageKeepsInv
<1>5. QED
  BY <1>3, <1>4 DEF SavePage

LEMMA FetchLatestKeepsInv ==
    ASSUME NotesInv, NEW page \in Pages, FetchLatest(page)
    PROVE  NotesInv'
<1> DEFINE s == Fetched(sheet[page])
<1>1. /\ UNCHANGED <<profile, writes, highest, raced, keyed, dropped>>
      /\ sheet' = [sheet EXCEPT ![page] = s]
  BY DEF FetchLatest
<1>2. keyed' \in 0..MaxNotes /\ dropped' \in 0..MaxDropped
      /\ profile.version \in Nat /\ profile.version <= highest
  BY <1>1 DEF NotesInv, TypeOKNotes, VersionsWereGiven
<1>3. /\ s \in Sheets /\ s.note = sheet[page].note /\ s.acknowledged = sheet[page].acknowledged
      /\ s.version = sheet[page].version /\ s.latest = profile.version
      /\ s.status = sheet[page].status
  BY <1>2, PageKnown, FetchedSheet
<1> HIDE DEF s
<1>4. s.status = "saved" => s.note = s.acknowledged
  BY <1>3, PageKnown
<1>5. QED
  BY <1>1, <1>2, <1>3, <1>4, NotesPageKeepsInv

LEMMA OverwriteKeepsInv ==
    ASSUME NotesInv, NEW page \in Pages, Overwrite(page)
    PROVE  NotesInv'
<1> DEFINE s == Overwriting(sheet[page])
           r == Request(page, sheet[page].latest, TRUE)
<1>1. /\ UNCHANGED <<profile, highest, raced, keyed, dropped>>
      /\ sheet' = [sheet EXCEPT ![page] = s] /\ writes' = writes \cup {r}
  BY DEF Overwrite
<1>2. keyed' \in 0..MaxNotes /\ dropped' \in 0..MaxDropped
  BY <1>1 DEF NotesInv, TypeOKNotes
<1>3. /\ s \in Sheets /\ s.acknowledged = sheet[page].acknowledged
      /\ s.version = sheet[page].version /\ s.latest = 0 /\ s.status = "saving"
  BY PageKnown, OverwritingSheet
<1>4. /\ r \in Writes /\ r.base = sheet[page].latest /\ r.at = 0 /\ 0 <= highest /\ r.forced
  BY PageKnown, RequestKnown
<1> HIDE DEF s, r
<1>5. r.base <= highest
  BY <1>4, PageKnown
<1>6. QED
  BY <1>1, <1>2, <1>3, <1>4, <1>5, NotesPageKeepsInv

LEMMA ReloadPageKeepsInv ==
    ASSUME NotesInv, NEW page \in Pages, ReloadPage(page)
    PROVE  NotesInv'
<1>1. /\ UNCHANGED <<profile, highest, raced, keyed, dropped>>
      /\ sheet' = [sheet EXCEPT ![page] = Rendered]
      /\ writes' = {Orphaned(write, page) : write \in writes}
  BY DEF ReloadPage
<1>2. keyed' \in 0..MaxNotes /\ dropped' \in 0..MaxDropped /\ highest \in Nat
      /\ sheet \in [Pages -> Sheets] /\ profile.version \in Nat /\ profile.note \in Contents
  BY <1>1 DEF NotesInv, TypeOKNotes
<1>3. /\ Rendered \in Sheets /\ Rendered.version = profile.version /\ Rendered.latest = 0
      /\ Rendered.note = profile.note /\ Rendered.acknowledged = profile.note
  BY <1>2 DEF Rendered, Sheets, NotFetched
<1>4. sheet' \in [Pages -> Sheets]
  BY <1>1, <1>2, <1>3
<1>5. \A k \in Pages :
         /\ \/ /\ sheet'[k].version = sheet[k].version
               /\ sheet'[k].acknowledged = sheet[k].acknowledged
            \/ /\ sheet'[k].version = profile.version
               /\ sheet'[k].acknowledged = profile.note
         /\ sheet'[k].latest <= highest
         /\ sheet'[k].status = "saved" => sheet'[k].note = sheet'[k].acknowledged
  <2> TAKE k \in Pages
  <2>1. CASE k = page
    BY <1>1, <1>2, <1>3, <2>1
  <2>2. CASE k # page
    BY <1>1, <1>2, <2>2, PageKnown
  <2>3. QED
    BY <2>1, <2>2
<1>6. ASSUME NEW w \in writes'
      PROVE  /\ w \in Writes /\ w.base <= highest /\ w.at <= highest
             /\ ~w.forced /\ Basis(w) = profile.version
                   => profile.seen \subseteq raced \/ w.basis = profile.note
  <2>1. PICK v \in writes : w = Orphaned(v, page)
    BY <1>1
  <2>2. /\ w \in Writes /\ w.base = v.base /\ w.at = v.at /\ w.basis = v.basis
        /\ w.forced = v.forced /\ Basis(w) = Basis(v)
    BY <2>1, WriteKnown, OrphanedWrite DEF Basis
  <2>3. QED
    BY <2>2, WriteKnown
<1>7. QED
  BY <1>1, <1>2, <1>4, <1>5, <1>6, QuietKeepsInv

(* The catch clause: a page is told of an error or a conflict.               *)
LEMMA AnsweredKeepsInv ==
    ASSUME NotesInv, NEW write \in writes, NEW refused \in BOOLEAN,
           UNCHANGED <<profile, highest, raced, keyed>>, dropped' \in 0..MaxDropped,
           writes' \subseteq writes, Answered(write, refused)
    PROVE  NotesInv'
<1>1. keyed' \in 0..MaxNotes
  BY DEF NotesInv, TypeOKNotes
<1>2. CASE write.from = Closed
  <2>1. UNCHANGED sheet
    BY <1>2 DEF Answered
  <2>2. sheet' \in [Pages -> Sheets] /\ writes' \subseteq Writes
    BY <2>1 DEF NotesInv, TypeOKNotes
  <2>3. QED
    BY <1>1, <2>1, <2>2, PageKnown, WriteKnown, QuietKeepsInv
<1>3. CASE write.from # Closed
  <2> DEFINE page == write.from
             s == Failed(sheet[page], refused)
  <2>1. page \in Pages
    BY <1>3, WriteKnown DEF Writes
  <2>2. sheet' = [sheet EXCEPT ![page] = s]
    BY <1>3 DEF Answered
  <2>3. /\ s \in Sheets /\ s.version = sheet[page].version /\ s.latest = sheet[page].latest
        /\ s.acknowledged = sheet[page].acknowledged /\ s.status # "saved"
    BY <2>1, PageKnown, FailedSheet
  <2> HIDE DEF s, page
  <2>4. s.latest <= highest
    BY <2>1, <2>3, PageKnown
  <2>5. QED
    BY <1>1, <2>1, <2>2, <2>3, <2>4, NotesPageKeepsInv
<1>4. QED
  BY <1>2, <1>3

LEMMA CheckKeepsInv ==
    ASSUME NotesInv, NEW write \in writes, Check(write)
    PROVE  NotesInv'
<1>1. /\ UNCHANGED <<profile, highest, raced, keyed, dropped>> /\ ~write.read
      /\ profile.version \in Nat /\ profile.version <= highest /\ highest \in Nat
      /\ keyed' \in 0..MaxNotes /\ dropped' \in 0..MaxDropped
      /\ profile.version = 0 => highest = 0
  BY DEF Check, NotesInv, TypeOKNotes, VersionsWereGiven
<1>2. CASE UpToDate(write)
  <2> DEFINE r == Read(write)
  <2>1. writes' = (writes \ {write}) \cup {r} /\ UNCHANGED sheet
    BY <1>2 DEF Check
  <2>2. /\ r \in Writes /\ r.read /\ r.at = profile.version
        /\ r.base = write.base /\ r.basis = write.basis /\ r.forced = write.forced
    BY <1>1, WriteKnown, ReadWrite
  <2> HIDE DEF r
  <2>3. write.base \in Nat /\ write.base <= highest
    BY WriteKnown DEF Writes
  <2>4. write.base = profile.version
    BY <1>1, <1>2, <2>3 DEF UpToDate
  <2>5. /\ r.base <= highest /\ r.at <= highest
        /\ ~r.forced => profile.seen \subseteq raced \/ r.basis = profile.note
    BY <1>1, <2>2, <2>3, <2>4, WriteKnown DEF Basis
  <2>6. sheet' \in [Pages -> Sheets] /\ writes' \subseteq Writes
    BY <2>1, <2>2, WriteKnown DEF NotesInv, TypeOKNotes
  <2>7. \A w \in writes' : w \in writes \/ w = r
    BY <2>1
  <2>8. \A w \in writes' :
           /\ w.base <= highest /\ w.at <= highest
           /\ ~w.forced /\ Basis(w) = profile.version
                 => profile.seen \subseteq raced \/ w.basis = profile.note
    BY <2>5, <2>7, WriteKnown
  <2>9. QED
    BY <1>1, <2>1, <2>6, <2>8, PageKnown, QuietKeepsInv
<1>3. CASE ~UpToDate(write)
  <2>1. writes' \subseteq writes /\ Answered(write, TRUE)
    BY <1>3 DEF Check
  <2>2. QED
    BY <1>1, <2>1, AnsweredKeepsInv
<1>4. QED
  BY <1>2, <1>3

LEMMA RefuseKeepsInv ==
    ASSUME NotesInv, NEW write \in writes, Refuse(write) \/ DropWrite(write)
    PROVE  NotesInv'
<1>1. /\ UNCHANGED <<profile, highest, raced, keyed>> /\ writes' \subseteq writes
      /\ Answered(write, FALSE)
  BY DEF Refuse, DropWrite
<1>2. dropped' = dropped \/ (dropped' = dropped + 1 /\ dropped < MaxDropped)
  <2>1. CASE Refuse(write)
    BY <2>1 DEF Refuse
  <2>2. CASE DropWrite(write)
    <3>1. dropped < MaxDropped /\ dropped' = dropped + 1
      BY <2>2, Zenon DEF DropWrite
    <3>2. QED
      BY <3>1
  <2>3. QED
    BY <2>1, <2>2
<1>3. dropped \in 0..MaxDropped /\ MaxDropped \in Nat
  BY NotesAssumption DEF NotesInv, TypeOKNotes
<1>4. dropped' \in 0..MaxDropped
  BY <1>2, <1>3
<1>5. QED
  BY <1>1, <1>4, AnsweredKeepsInv

(* A save: either the version is new, and only its author and what he sends  *)
(* next are at it, or all that the old and the new row contain is raced.     *)
LEMMA StoredKeepsInv ==
    ASSUME NotesInv, NEW write \in writes, Stored(write),
           dropped' \in 0..MaxDropped,
           sheet' \in [Pages -> Sheets], writes' \subseteq Writes,
           \A page \in Pages :
              /\ \/ /\ sheet'[page].version = sheet[page].version
                    /\ sheet'[page].acknowledged = sheet[page].acknowledged
                 \/ /\ sheet'[page].version = write.at + 1
                    /\ sheet'[page].acknowledged = write.note
              /\ sheet'[page].latest = sheet[page].latest
              /\ sheet'[page].status = "saved" => sheet'[page].note = sheet'[page].acknowledged,
           \A w \in writes' :
              \/ w \in writes
              \/ w.base = write.at + 1 /\ w.at = 0 /\ ~w.read /\ w.basis = write.note
    PROVE  NotesInv'
<1> DEFINE at == write.at
           kept == IF write.forced \/ write.basis = profile.note THEN profile.seen ELSE {}
<1>1. /\ write.read /\ ~Collides(write) /\ UNCHANGED keyed
      /\ profile' = [version |-> at + 1, note |-> write.note, seen |-> {write.note} \cup kept]
      /\ highest' = IF at < highest THEN highest ELSE at + 1
      /\ raced' = IF at = profile.version /\ at = highest THEN raced
                  ELSE raced \cup profile.seen \cup {write.note}
  BY DEF Stored
<1>2. /\ at \in Nat /\ at <= highest /\ highest \in Nat /\ write.note \in Contents
      /\ profile.seen \subseteq Contents /\ raced \subseteq Contents /\ kept \subseteq profile.seen
      /\ keyed \in 0..MaxNotes /\ profile.version \in Nat
  BY WriteKnown DEF NotesInv, TypeOKNotes, Writes
<1>3. /\ profile'.version = at + 1 /\ profile'.note = write.note
      /\ profile'.seen = {write.note} \cup kept
  BY <1>1
<1>4. /\ highest' \in Nat /\ highest <= highest' /\ at + 1 <= highest' /\ 0 < highest'
      /\ raced \subseteq raced'
  BY <1>1, <1>2
<1>5. TypeOKNotes'
  <2>1. profile' \in [version : Nat, note : Contents, seen : SUBSET Contents]
    BY <1>1, <1>2
  <2>2. raced' \subseteq Contents
    BY <1>1, <1>2
  <2>3. QED
    BY <1>1, <1>2, <1>4, <2>1, <2>2 DEF TypeOKNotes
<1>6. profile.seen \subseteq profile'.seen \cup raced'
  <2>1. CASE at = profile.version /\ at = highest
    <3>1. Basis(write) = profile.version
      BY <1>1, <2>1 DEF Basis
    <3>2. kept = profile.seen \/ profile.seen \subseteq raced
      BY <3>1, WriteKnown
    <3>3. QED
      BY <1>3, <1>4, <3>2
  <2>2. CASE ~(at = profile.version /\ at = highest)
    BY <1>1, <2>2
  <2>3. QED
    BY <2>1, <2>2
<1>7. VersionsWereGiven'
  <2>1. ASSUME NEW page \in Pages
        PROVE  sheet'[page].version <= highest' /\ sheet'[page].latest <= highest'
    BY <1>2, <1>4, PageKnown
  <2>2. ASSUME NEW w \in writes'
        PROVE  w.base <= highest' /\ w.at <= highest'
    <3>1. CASE w \in writes
      <4>1. w.base \in Nat /\ w.at \in Nat /\ w.base <= highest /\ w.at <= highest
        BY <3>1, WriteKnown DEF Writes
      <4>2. QED
        BY <1>2, <1>4, <4>1
    <3>2. CASE w.base = at + 1 /\ w.at = 0
      BY <1>4, <3>2
    <3>3. QED
      BY <3>1, <3>2
  <2>3. QED
    BY <1>2, <1>3, <1>4, <2>1, <2>2 DEF VersionsWereGiven
<1>8. SameVersionSameNote'
  <2>1. CASE at = profile.version /\ at = highest
    <3>1. ASSUME NEW page \in Pages, sheet'[page].version = profile'.version
          PROVE  sheet'[page].acknowledged = profile'.note
      <4>1. sheet[page].version \in Nat /\ sheet[page].version <= highest
        BY PageKnown
      <4>2. sheet'[page].version # sheet[page].version
        BY <1>2, <1>3, <2>1, <3>1, <4>1
      <4>3. QED
        BY <1>3, <4>2
    <3>2. ASSUME NEW w \in writes', ~w.forced, Basis(w) = profile'.version
          PROVE  w.basis = profile'.note
      <4>1. CASE w \in writes
        <5>1. w.base \in Nat /\ w.at \in Nat /\ w.base <= highest /\ w.at <= highest
          BY <4>1, WriteKnown DEF Writes
        <5>2. w.base # at + 1 /\ w.at # at + 1
          BY <1>2, <2>1, <5>1
        <5>3. QED
          BY <1>3, <3>2, <5>2 DEF Basis
      <4>2. CASE w.basis = write.note
        BY <1>3, <4>2
      <4>3. QED
        BY <4>1, <4>2
    <3>3. \A w \in writes' : ~w.forced /\ Basis(w)' = profile'.version => w.basis = profile'.note
      BY <3>2 DEF Basis
    <3>4. QED
      BY <3>1, <3>3 DEF SameVersionSameNote, Basis
  <2>2. CASE ~(at = profile.version /\ at = highest)
    <3>1. profile'.seen \subseteq raced'
      BY <1>1, <1>2, <1>3, <2>2
    <3>2. QED
      BY <3>1 DEF SameVersionSameNote
  <2>3. QED
    BY <2>1, <2>2
<1>9. AcknowledgedIsKept'
  <2>1. ASSUME NEW page \in Pages
        PROVE  sheet'[page].acknowledged \in profile'.seen \cup raced'
    <3>1. sheet[page].acknowledged \in profile.seen \cup raced
      BY DEF NotesInv, AcknowledgedIsKept
    <3>2. write.note \in profile'.seen
      BY <1>3
    <3>3. QED
      BY <1>4, <1>6, <3>1, <3>2
  <2>2. QED
    BY <1>3, <2>1 DEF AcknowledgedIsKept
<1>10. SavedIsClean'
  BY DEF SavedIsClean, Unsaved
<1>11. QED
  BY <1>5, <1>7, <1>8, <1>9, <1>10 DEF NotesInv

LEMMA AcceptKeepsInv ==
    ASSUME NotesInv, NEW write \in writes, Accept(write)
    PROVE  NotesInv'
<1>1. Stored(write) /\ UNCHANGED dropped
  BY DEF Accept
<1>2. /\ dropped' \in 0..MaxDropped /\ sheet \in [Pages -> Sheets] /\ writes \subseteq Writes
      /\ write \in Writes /\ write.at + 1 \in Nat /\ write.note \in Contents
  BY <1>1, WriteKnown DEF NotesInv, TypeOKNotes, Writes
<1>3. CASE write.from = Closed
  <2>1. UNCHANGED sheet /\ writes' \subseteq writes
    BY <1>3 DEF Accept
  <2>2. sheet' \in [Pages -> Sheets] /\ writes' \subseteq Writes
    BY <1>2, <2>1
  <2>3. QED
    BY <1>1, <1>2, <2>1, <2>2, PageKnown, StoredKeepsInv
<1>4. CASE write.from # Closed
  <2> DEFINE page == write.from
             s == Acknowledged(sheet[page], write, write.at + 1)
             r == [from |-> page, note |-> s.note, base |-> write.at + 1,
                   basis |-> s.acknowledged, forced |-> FALSE, read |-> FALSE, at |-> 0]
  <2>1. page \in Pages
    BY <1>2, <1>4 DEF Writes
  <2>2. sheet' = [sheet EXCEPT ![page] = s] /\ writes' \subseteq writes \cup {r}
    BY <1>4 DEF Accept, Followed
  <2>3. /\ s \in Sheets /\ s.note = sheet[page].note /\ s.version = write.at + 1
        /\ s.latest = sheet[page].latest /\ s.acknowledged = write.note
        /\ s.status = "saved" => sheet[page].note = write.note
    BY <1>2, <2>1, PageKnown, AcknowledgedSheet
  <2>4. /\ r \in Writes /\ r.base = write.at + 1 /\ r.at = 0 /\ ~r.read /\ r.basis = write.note
    <3>1. s.note \in Contents
      BY <2>1, <2>3, PageKnown
    <3> HIDE DEF s, page
    <3>2. QED
      BY <1>2, <2>1, <2>3, <3>1 DEF Writes
  <2> HIDE DEF s, r, page
  <2>5. sheet' \in [Pages -> Sheets] /\ writes' \subseteq Writes
    BY <1>2, <2>2, <2>3, <2>4
  <2>6. \A k \in Pages :
           /\ \/ /\ sheet'[k].version = sheet[k].version
                 /\ sheet'[k].acknowledged = sheet[k].acknowledged
              \/ /\ sheet'[k].version = write.at + 1
                 /\ sheet'[k].acknowledged = write.note
           /\ sheet'[k].latest = sheet[k].latest
           /\ sheet'[k].status = "saved" => sheet'[k].note = sheet'[k].acknowledged
    <3> TAKE k \in Pages
    <3>1. CASE k = page
      BY <1>2, <2>1, <2>2, <2>3, <3>1
    <3>2. CASE k # page
      BY <1>2, <2>2, <3>2, PageKnown
    <3>3. QED
      BY <3>1, <3>2
  <2>7. \A w \in writes' : w \in writes \/ w = r
    BY <2>2
  <2>8. QED
    BY <1>1, <1>2, <2>4, <2>5, <2>6, <2>7, StoredKeepsInv
<1>5. QED
  BY <1>3, <1>4

LEMMA SaveUnheardKeepsInv ==
    ASSUME NotesInv, NEW write \in writes, SaveUnheard(write)
    PROVE  NotesInv'
<1> DEFINE page == write.from
           s == Failed(sheet[page], FALSE)
<1>1. /\ Stored(write) /\ dropped' = dropped + 1 /\ dropped < MaxDropped
      /\ write.from # Closed /\ writes' \subseteq writes /\ sheet' = [sheet EXCEPT ![page] = s]
  BY DEF SaveUnheard, Answered
<1>2. /\ dropped' \in 0..MaxDropped /\ sheet \in [Pages -> Sheets] /\ writes' \subseteq Writes
  BY <1>1, NotesAssumption DEF NotesInv, TypeOKNotes
<1>3. page \in Pages
  BY <1>1, WriteKnown DEF Writes
<1>4. /\ s \in Sheets /\ s.version = sheet[page].version /\ s.latest = sheet[page].latest
      /\ s.acknowledged = sheet[page].acknowledged /\ s.status # "saved"
  BY <1>3, PageKnown, FailedSheet
<1> HIDE DEF s, page
<1>5. sheet' \in [Pages -> Sheets]
  BY <1>1, <1>2, <1>4
<1>6. \A k \in Pages :
         /\ sheet'[k].version = sheet[k].version /\ sheet'[k].acknowledged = sheet[k].acknowledged
         /\ sheet'[k].latest = sheet[k].latest
         /\ sheet'[k].status = "saved" => sheet'[k].note = sheet'[k].acknowledged
  <2> TAKE k \in Pages
  <2>1. CASE k = page
    BY <1>1, <1>2, <1>4, <2>1
  <2>2. CASE k # page
    BY <1>1, <1>2, <2>2, PageKnown
  <2>3. QED
    BY <2>1, <2>2
<1>7. QED
  BY <1>1, <1>2, <1>5, <1>6, StoredKeepsInv

-----------------------------------------------------------------------------
LEMMA StutterKeepsNotes == NotesInv /\ UNCHANGED notesVars => NotesInv'
BY DEF NotesInv, notesVars, TypeOKNotes, VersionsWereGiven, SameVersionSameNote, Basis,
       AcknowledgedIsKept, SavedIsClean, Unsaved

LEMMA NotesStep == NotesInv /\ NextNotes => NotesInv'
<1> SUFFICES ASSUME NotesInv, NextNotes
             PROVE  NotesInv'
  OBVIOUS
<1>1. ASSUME NEW page \in Pages, NEW note \in Contents, Typing(page, note)
      PROVE  NotesInv'
  BY <1>1, NotesTypingKeepsInv
<1>2. ASSUME NEW page \in Pages,
             SavePage(page) \/ FetchLatest(page) \/ Overwrite(page) \/ ReloadPage(page)
      PROVE  NotesInv'
  BY <1>2, SavePageKeepsInv, FetchLatestKeepsInv, OverwriteKeepsInv, ReloadPageKeepsInv
<1>3. ASSUME NEW write \in writes,
             \/ Check(write) \/ Refuse(write) \/ Accept(write)
             \/ SaveUnheard(write) \/ DropWrite(write)
      PROVE  NotesInv'
  BY <1>3, CheckKeepsInv, RefuseKeepsInv, AcceptKeepsInv, SaveUnheardKeepsInv
<1>4. QED
  BY <1>1, <1>2, <1>3 DEF NextNotes

(* Pages, transactions and the row satisfy NotesInv in every state.          *)
THEOREM NotesInvariant == SpecNotes => []NotesInv
<1>1. NotesInv /\ [NextNotes]_notesVars => NotesInv'
  BY NotesStep, StutterKeepsNotes
<1>2. QED
  BY InitNotesInv, <1>1, PTL DEF SpecNotes

(* TypeOKNotes holds for any pages, texts and bounds.                        *)
THEOREM NotesTypeCorrect == SpecNotes => []TypeOKNotes
<1>1. NotesInv => TypeOKNotes
  BY DEF NotesInv
<1>2. QED
  BY NotesInvariant, <1>1, PTL

LEMMA NotesAreKept == NotesInv => SavedNotesAreKept
  BY DEF NotesInv, SavedNotesAreKept, SavedIsClean, AcknowledgedIsKept, Unsaved

(* A page that says Saved shows a note that the row's history contains,      *)
(* unless a transaction that overlapped gave a version a second time.        *)
THEOREM SavedNotesStayKept == SpecNotes => []SavedNotesAreKept
  BY NotesInvariant, NotesAreKept, PTL

===============================================================================
