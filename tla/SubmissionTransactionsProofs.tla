--------------------- MODULE SubmissionTransactionsProofs ---------------------
(* Proofs about overlapping saves, corrections and publications, for any     *)
(* number of tabs, administrators, rounds and saves.                         *)
EXTENDS SubmissionTransactions, FiniteSetTheorems, TLAPS

Clients == Tabs \cup Admins
Rows == [round : 1..MaxRounds, version : Nat \ {0}, status : {"draft", "submitted", "locked"}]
Transactions ==
    [phase : {"idle", "assigned", "ready"}, submit : BOOLEAN, base : Nat, round : 0..MaxRounds,
     status : {"open", "closed"}, row : Nat, version : Nat,
     was : {"none", "draft", "submitted", "locked"}]

TransactionsOK ==
    /\ tx \in [Clients -> Transactions]
    /\ publishing \in [phase : {"idle", "ready"}, keep : BOOLEAN, row : Nat]

(* Nothing is on a round that is not published yet, so the round of the next *)
(* publication is free for the row it moves.                                 *)
RoundsPublished ==
    /\ \A i \in DOMAIN rows : rows[i].round <= current
    /\ \A c \in Clients : tx[c].phase # "idle" => tx[c].round \in 1..current
    /\ publishing.phase = "ready" => current < MaxRounds

(* What a transaction has read of its row is not newer than the row, and the *)
(* version its client named, if any, is the version it read.                 *)
ReadsAreOld ==
    \A c \in Clients : tx[c].row # 0 =>
        /\ tx[c].version <= rows[tx[c].row].version
        /\ tx[c].base \in {0, tx[c].version}

(* Every version of a row up to its present one is in the history, no other. *)
History ==
    \A i \in DOMAIN rows, v \in Nat \ {0} : <<i, v>> \in snapshots <=> v <= rows[i].version

Counted == IsFiniteSet(snapshots) /\ Cardinality(snapshots) = saved

Inv ==
    /\ TypeOK
    /\ TransactionsOK
    /\ RoundsPublished
    /\ ReadsAreOld
    /\ OneRowPerAssignment
    /\ History
    /\ Counted

-----------------------------------------------------------------------------
(* RowOn finds the row of a round if there is one.                           *)
LEMMA RowOnFinds ==
    ASSUME rows \in Seq(Rows), NEW round
    PROVE  /\ RowOn(round) \in 0..Len(rows)
           /\ RowOn(round) # 0 => RowOn(round) \in DOMAIN rows /\ rows[RowOn(round)].round = round
           /\ RowOn(round) = 0 => \A i \in DOMAIN rows : rows[i].round # round
<1>1. CASE \E i \in DOMAIN rows : rows[i].round = round
  <2>1. RowOn(round) \in DOMAIN rows /\ rows[RowOn(round)].round = round
    BY <1>1 DEF RowOn
  <2>2. QED
    BY <2>1
<1>2. CASE ~\E i \in DOMAIN rows : rows[i].round = round
  BY <1>2 DEF RowOn
<1>3. QED
  BY <1>1, <1>2

(* A new snapshot is one more.                                               *)
LEMMA OneMoreSnapshot ==
    ASSUME Counted, saved \in Nat, NEW x, x \notin snapshots,
           snapshots' = snapshots \cup {x}, saved' = saved + 1
    PROVE  Counted'
  BY FS_AddElement DEF Counted

(* A transaction that is back at Idle, or one that only advances, keeps what *)
(* the invariant says of the others.                                         *)
LEMMA IdleTransaction == Idle \in Transactions /\ Idle.phase = "idle" /\ Idle.row = 0
<1>1. 0 \in 0..MaxRounds
  BY TransactionsAssumption
<1>2. QED
  BY <1>1 DEF Idle, Transactions

(* One open activity, its first round, no work.                              *)
LEMMA InitInv == Init => Inv
<1> SUFFICES ASSUME Init
             PROVE  Inv
  OBVIOUS
<1> USE DEF Init
<1>1. TypeOK
  <2>1. rows \in Seq([round : 1..MaxRounds, version : Nat \ {0},
                     status : {"draft", "submitted", "locked"}])
    OBVIOUS
  <2>2. \A c \in Tabs \cup Admins : tx[c].phase = "idle" /\ tx[c].row = 0
    BY IdleTransaction
  <2>3. publishing.row = 0
    BY DEF NotPublishing
  <2>4. current \in 1..MaxRounds /\ paired \subseteq 1..MaxRounds
    BY TransactionsAssumption
  <2>5. saved \in Nat /\ status \in {"open", "closed"} /\ Len(rows) = 0
        /\ snapshots \subseteq (DOMAIN rows) \X (Nat \ {0})
    OBVIOUS
  <2> HIDE DEF Init
  <2>6. QED
    BY <2>1, <2>2, <2>3, <2>4, <2>5 DEF TypeOK
<1>2. TransactionsOK
  BY IdleTransaction DEF TransactionsOK, NotPublishing, Clients
<1>3. RoundsPublished /\ ReadsAreOld /\ OneRowPerAssignment /\ History
  BY IdleTransaction DEF RoundsPublished, ReadsAreOld, OneRowPerAssignment, History,
     NotPublishing, Clients
<1>4. Counted
  BY FS_EmptySet DEF Counted
<1>5. QED
  BY <1>1, <1>2, <1>3, <1>4 DEF Inv

-----------------------------------------------------------------------------
(* A step that changes one client's transaction, and no data: it may be put  *)
(* to anything that has read a row as it is.                                 *)
LEMMA TransactionStepKeepsInv ==
    ASSUME Inv, NEW c \in Clients, NEW t \in Transactions,
           tx' = [tx EXCEPT ![c] = t],
           UNCHANGED <<status, current, paired, rows, snapshots, saved, publishing>>,
           t.phase # "idle" => t.round \in 1..current,
           t.row \in 0..Len(rows),
           t.row # 0 => t.version <= rows[t.row].version /\ t.base \in {0, t.version}
    PROVE  Inv'
<1> USE DEF Inv
<1>1. \A d \in Clients : tx'[d] = IF d = c THEN t ELSE tx[d]
  BY DEF TransactionsOK
<1>2. TransactionsOK'
  BY DEF TransactionsOK
<1>3. TypeOK'
  BY <1>1 DEF TypeOK, Clients, Transactions
<1>4. RoundsPublished'
  BY <1>1 DEF RoundsPublished
<1>5. ReadsAreOld'
  BY <1>1 DEF ReadsAreOld
<1>6. OneRowPerAssignment' /\ History' /\ Counted'
  BY DEF OneRowPerAssignment, History, Counted
<1>7. QED
  BY <1>2, <1>3, <1>4, <1>5, <1>6

LEMMA BeginSaveKeepsInv ==
    ASSUME Inv, NEW c \in Tabs, NEW submit \in BOOLEAN, NEW base \in Bases,
           BeginSave(c, submit, base)
    PROVE  Inv'
<1> DEFINE t == Assigned(submit, base, current)
<1>1. base \in Nat
  BY TransactionsAssumption DEF Bases
<1>2. t \in Transactions /\ t.phase = "assigned" /\ t.round = current /\ t.row = 0
  <2>1. status \in {"open", "closed"} /\ current \in 0..MaxRounds
    BY TransactionsAssumption DEF Inv, TypeOK
  <2>2. QED
    BY <1>1, <2>1 DEF Assigned, Transactions
<1>3. current \in 1..current /\ 0 \in 0..Len(rows)
  BY TransactionsAssumption DEF Inv, TypeOK
<1>4. tx' = [tx EXCEPT ![c] = t]
  BY DEF BeginSave
<1> HIDE DEF t
<1>5. QED
  BY <1>2, <1>3, <1>4, TransactionStepKeepsInv DEF BeginSave, Clients

LEMMA RollbackKeepsInv ==
    ASSUME Inv, NEW c \in Clients, tx' = [tx EXCEPT ![c] = Idle],
           UNCHANGED <<status, current, paired, rows, snapshots, saved, publishing>>
    PROVE  Inv'
<1>1. 0 \in 0..Len(rows)
  BY DEF Inv, TypeOK
<1>2. QED
  BY <1>1, IdleTransaction, TransactionStepKeepsInv

(* Reading a row fills the transaction in.                                   *)
LEMMA WithRowReads ==
    ASSUME rows \in Seq(Rows), NEW t \in Transactions, NEW i \in 0..Len(rows)
    PROVE  LET u == WithRow(t, i) IN
           /\ u \in Transactions
           /\ u.phase = "ready" /\ u.row = i /\ u.base = t.base /\ u.round = t.round
           /\ u.submit = t.submit /\ u.status = t.status
           /\ i # 0 => u.version = rows[i].version /\ u.was = rows[i].status
<1>1. CASE i = 0
  BY <1>1 DEF WithRow, Transactions
<1>2. CASE i # 0
  <2>1. rows[i] \in Rows
    BY <1>2
  <2>2. QED
    BY <1>2, <2>1 DEF WithRow, Transactions, Rows
<1>3. QED
  BY <1>1, <1>2

LEMMA LockAssignmentKeepsInv ==
    ASSUME Inv, NEW c \in Tabs, LockAssignment(c)
    PROVE  Inv'
<1> DEFINE i == RowOn(tx[c].round)
           t == WithRow(tx[c], i)
<1>1. tx[c] \in Transactions /\ rows \in Seq(Rows) /\ c \in Clients
  BY DEF Inv, TransactionsOK, Clients, TypeOK, Rows
<1>2. i \in 0..Len(rows) /\ (i # 0 => i \in DOMAIN rows /\ rows[i] \in Rows)
  BY <1>1, RowOnFinds
<1>3. CASE tx' = [tx EXCEPT ![c] = Idle]
  BY <1>1, <1>3, RollbackKeepsInv DEF LockAssignment
<1>4. CASE /\ i # 0 => Accepted(tx[c], rows[i].version)
           /\ tx' = [tx EXCEPT ![c] = t]
  <2>1. /\ t \in Transactions /\ t.phase = "ready" /\ t.row = i
        /\ i # 0 => t.version = rows[i].version
        /\ t.base = tx[c].base /\ t.round = tx[c].round
    BY <1>1, <1>2, WithRowReads
  <2>2. i # 0 => t.base \in {0, t.version} /\ t.version <= rows[i].version
    BY <1>2, <1>4, <2>1 DEF Accepted, Rows
  <2>3. t.round \in 1..current
    BY <1>1, <2>1 DEF Inv, RoundsPublished, LockAssignment
  <2>4. tx' = [tx EXCEPT ![c] = t]
    BY <1>4
  <2> HIDE DEF i, t
  <2>5. QED
    BY <1>1, <1>2, <2>1, <2>2, <2>3, <2>4, TransactionStepKeepsInv DEF LockAssignment
<1>5. QED
  BY <1>1, <1>3, <1>4 DEF LockAssignment, Inv, TransactionsOK

LEMMA BeginCorrectionKeepsInv ==
    ASSUME Inv, NEW c \in Admins, NEW i \in DOMAIN rows, NEW base \in Bases,
           BeginCorrection(c, i, base)
    PROVE  Inv'
<1> DEFINE s == Assigned(TRUE, base, rows[i].round)
           t == WithRow(s, i)
<1>0. rows \in Seq(Rows) /\ status \in {"open", "closed"}
  BY DEF Inv, TypeOK, Rows
<1>1. rows[i] \in Rows /\ i \in 1..Len(rows)
  BY <1>0
<1>2. base \in {0, rows[i].version} /\ base \in Nat /\ rows[i].version \in Nat
  BY <1>1 DEF BeginCorrection, Rows
<1>3. s \in Transactions /\ s.round = rows[i].round /\ s.base = base
  <2>1. rows[i].round \in 0..MaxRounds
    BY <1>1, TransactionsAssumption DEF Rows
  <2>2. QED
    BY <1>0, <1>2, <2>1 DEF Assigned, Transactions
<1> HIDE DEF s
<1>4. /\ t \in Transactions /\ t.phase = "ready" /\ t.round = rows[i].round /\ t.row = i
      /\ t.version = rows[i].version /\ t.base = base
  BY <1>0, <1>1, <1>3, WithRowReads
<1>5. rows[i].round \in 1..current /\ i \in 0..Len(rows) /\ rows[i].version <= rows[i].version
  BY <1>1 DEF Inv, TypeOK, RoundsPublished, Rows
<1>6. tx' = [tx EXCEPT ![c] = t]
  BY DEF BeginCorrection, s
<1> HIDE DEF t
<1>7. QED
  BY <1>2, <1>4, <1>5, <1>6, TransactionStepKeepsInv DEF BeginCorrection, Clients

-----------------------------------------------------------------------------
(* The rows, one by one.                                                    *)
LEMMA RowsTyped ==
    ASSUME Inv
    PROVE  /\ rows \in Seq(Rows) /\ Len(rows) \in Nat /\ DOMAIN rows = 1..Len(rows)
           /\ \A j \in DOMAIN rows :
                 /\ rows[j] \in Rows /\ rows[j].version \in Nat \ {0}
                 /\ rows[j].round \in 1..MaxRounds
<1>1. rows \in Seq(Rows)
  BY DEF Inv, TypeOK, Rows
<1>2. \A j \in DOMAIN rows : rows[j] \in Rows
  BY <1>1
<1>3. QED
  BY <1>1, <1>2 DEF Rows

(* A sequence made from another one, entry by entry.                        *)
LEMMA SameLength ==
    ASSUME NEW R, NEW s \in Seq(R), NEW f, DOMAIN f = DOMAIN s, f = [j \in DOMAIN s |-> f[j]],
           \A j \in DOMAIN s : f[j] \in R
    PROVE  f \in Seq(R) /\ Len(f) = Len(s)
<1>1. DOMAIN s = 1..Len(s) /\ Len(s) \in Nat
  OBVIOUS
<1>2. f \in [1..Len(s) -> R]
  BY <1>1
<1>3. QED
  BY <1>1, <1>2

(* A write that ends c's transaction: the other transactions are as before. *)
LEMMA OthersKept ==
    ASSUME Inv, NEW c \in Clients, tx' = [tx EXCEPT ![c] = Idle],
           Len(rows') \in Nat, Len(rows) <= Len(rows')
    PROVE  /\ tx' \in [Clients -> Transactions]
           /\ \A d \in Clients : tx'[d] = IF d = c THEN Idle ELSE tx[d]
           /\ \A d \in Clients : tx'[d].phase \in {"idle", "assigned", "ready"}
           /\ \A d \in Clients : tx'[d].row \in 0..Len(rows')
           /\ \A d \in Clients : tx'[d].phase # "idle" => d # c
           /\ \A d \in Clients : tx'[d].row # 0 => d # c /\ tx'[d].row \in 1..Len(rows)
<1>1. tx \in [Clients -> Transactions] /\ Len(rows) \in Nat
  BY DEF Inv, TransactionsOK, TypeOK
<1>2. \A d \in Clients : tx[d].row \in 0..Len(rows)
  BY DEF Inv, TypeOK, Clients
<1>3. /\ tx' \in [Clients -> Transactions]
      /\ \A d \in Clients : tx'[d] = IF d = c THEN Idle ELSE tx[d]
  BY <1>1, IdleTransaction
<1>4. \A d \in Clients : tx'[d].phase \in {"idle", "assigned", "ready"} /\ tx'[d].row \in Nat
  BY <1>3 DEF Transactions
<1>5. QED
  BY <1>1, <1>2, <1>3, <1>4, IdleTransaction

(* The first evaluation on an assignment.                                   *)
LEMMA InsertKeepsInv ==
    ASSUME Inv, NEW c \in Clients, Insert(c)
    PROVE  Inv'
<1> DEFINE new == [round |-> tx[c].round, version |-> 1, status |-> NewStatus(c)]
           n == Len(rows) + 1
<1>1. /\ rows \in Seq(Rows) /\ tx[c] \in Transactions /\ saved \in Nat /\ current \in 1..MaxRounds
      /\ MaxRounds \in Nat /\ snapshots \subseteq (DOMAIN rows) \X (Nat \ {0})
  BY TransactionsAssumption DEF Inv, TypeOK, TransactionsOK, Rows
<1>2. tx[c].phase = "ready" /\ RowOn(tx[c].round) = 0 /\ rows' = Append(rows, new)
      /\ snapshots' = snapshots \cup {<<n, 1>>} /\ saved' = saved + 1
      /\ tx' = [tx EXCEPT ![c] = Idle] /\ UNCHANGED <<status, current, paired, publishing>>
  BY DEF Insert
<1>3. new.round \in 1..current /\ new \in Rows /\ new.version = 1
  <2>1. tx[c].round \in 1..current
    BY <1>2 DEF Inv, RoundsPublished
  <2>2. NewStatus(c) \in {"draft", "submitted", "locked"}
    BY DEF NewStatus
  <2>3. QED
    BY <1>1, <2>1, <2>2 DEF Rows
<1>4. new.round = tx[c].round
  OBVIOUS
<1> HIDE DEF new
<1>5. /\ rows' \in Seq(Rows) /\ Len(rows') = n /\ DOMAIN rows' = 1..n /\ DOMAIN rows = 1..(n - 1)
      /\ n \in Nat \ {0} /\ rows'[n] = new
      /\ \A j \in DOMAIN rows : rows'[j] = rows[j] /\ rows[j] \in Rows
  BY <1>1, <1>2, <1>3
<1>6. /\ tx' \in [Clients -> Transactions]
      /\ \A d \in Clients : tx'[d] = IF d = c THEN Idle ELSE tx[d]
      /\ \A d \in Clients : tx'[d].phase \in {"idle", "assigned", "ready"}
      /\ \A d \in Clients : tx'[d].row \in 0..Len(rows')
      /\ \A d \in Clients : tx'[d].phase # "idle" => d # c
      /\ \A d \in Clients : tx'[d].row # 0 => d # c /\ tx'[d].row \in DOMAIN rows
  <2>1. Len(rows') \in Nat /\ Len(rows) <= Len(rows') /\ 1..Len(rows) = DOMAIN rows
    BY <1>1, <1>5
  <2>2. QED
    BY <1>2, <2>1, OthersKept
<1>7. TypeOK'
  <2>1. snapshots' \subseteq (DOMAIN rows') \X (Nat \ {0})
    BY <1>1, <1>2, <1>5
  <2>2. publishing.row \in 0..Len(rows')
    BY <1>5 DEF Inv, TypeOK
  <2>3. status \in {"open", "closed"} /\ paired \subseteq 1..MaxRounds
    BY DEF Inv, TypeOK
  <2>4. QED
    BY <1>1, <1>2, <1>5, <1>6, <2>1, <2>2, <2>3 DEF TypeOK, Rows, Clients
<1>8. TransactionsOK'
  BY <1>2, <1>6 DEF Inv, TransactionsOK
<1>9. RoundsPublished'
  BY <1>1, <1>2, <1>3, <1>5, <1>6 DEF Inv, RoundsPublished
<1>10. ReadsAreOld'
  BY <1>5, <1>6 DEF Inv, ReadsAreOld
<1>11. OneRowPerAssignment'
  <2>1. \A j \in DOMAIN rows : rows[j].round # new.round
    BY <1>1, <1>2, <1>4, RowOnFinds
  <2>2. QED
    BY <1>5, <2>1 DEF Inv, OneRowPerAssignment
<1>12. History'
  <2> SUFFICES ASSUME NEW j \in DOMAIN rows', NEW v \in Nat \ {0}
               PROVE  <<j, v>> \in snapshots' <=> v <= rows'[j].version
    BY DEF History
  <2>1. CASE j \in DOMAIN rows
    BY <1>2, <1>5, <2>1 DEF Inv, History
  <2>2. CASE j = n
    BY <1>1, <1>2, <1>3, <1>5, <2>2
  <2>3. QED
    BY <1>5, <2>1, <2>2
<1>13. Counted'
  <2>1. <<n, 1>> \notin snapshots
    BY <1>1, <1>5
  <2>2. QED
    BY <1>1, <1>2, <2>1, OneMoreSnapshot DEF Inv
<1>14. QED
  BY <1>7, <1>8, <1>9, <1>10, <1>11, <1>12, <1>13 DEF Inv

(* A write-back is the next version of its row: what its transaction read   *)
(* may be old, but then its version is taken (uq_submission_version).       *)
LEMMA UpdateIsNext ==
    ASSUME Inv, NEW c \in Clients, Update(c)
    PROVE  LET i == RowOn(tx[c].round) IN
           /\ i \in DOMAIN rows
           /\ \E label \in {"draft", "submitted", "locked"} :
                 rows' = [rows EXCEPT ![i].version = rows[i].version + 1, ![i].status = label]
           /\ i = tx[c].row => tx[c].version = rows[i].version
           /\ <<i, rows[i].version + 1>> \notin snapshots
           /\ snapshots' = snapshots \cup {<<i, rows[i].version + 1>>}
<1> DEFINE i == RowOn(tx[c].round)
           next == 1 + (IF i = tx[c].row THEN tx[c].version ELSE rows[i].version)
           was == IF i = tx[c].row THEN tx[c].was ELSE rows[i].status
           label == IF NewStatus(c) = was THEN rows[i].status ELSE NewStatus(c)
<1>1. rows \in Seq(Rows) /\ tx[c] \in Transactions
  BY DEF Inv, TypeOK, TransactionsOK, Rows
<1>2. i # 0 /\ <<i, next>> \notin snapshots /\ snapshots' = snapshots \cup {<<i, next>>}
      /\ rows' = [rows EXCEPT ![i].version = next,
                     ![i].status = IF NewStatus(c) = was THEN @ ELSE NewStatus(c)]
  BY DEF Update, VersionFree
<1>3. i \in DOMAIN rows /\ rows[i] \in Rows
  BY <1>1, <1>2, RowOnFinds
<1>4. label \in {"draft", "submitted", "locked"}
  BY <1>3 DEF NewStatus, Rows
<1>5. rows' = [rows EXCEPT ![i].version = next, ![i].status = label]
  BY <1>2, <1>3
<1> HIDE DEF was, label
<1>6. CASE i = tx[c].row
  <2>1. tx[c].version <= rows[i].version /\ tx[c].version \in Nat /\ rows[i].version \in Nat
    BY <1>1, <1>3, <1>6, <1>2 DEF Inv, ReadsAreOld, Rows, Transactions
  <2>2. next = 1 + tx[c].version /\ next \in Nat \ {0}
    BY <1>6, <2>1
  <2> HIDE DEF next, i
  <2>3. ~(next <= rows[i].version)
    BY <1>2, <1>3, <2>2 DEF Inv, History
  <2>4. next = rows[i].version + 1 /\ tx[c].version = rows[i].version
    BY <2>1, <2>2, <2>3
  <2>5. QED
    BY <1>2, <1>3, <1>4, <1>5, <2>4 DEF i
<1>7. CASE i # tx[c].row
  <2>1. next = rows[i].version + 1
    BY <1>3, <1>7 DEF Rows
  <2> HIDE DEF next
  <2>2. QED
    BY <1>2, <1>3, <1>4, <1>5, <1>7, <2>1
<1>8. QED
  BY <1>6, <1>7

LEMMA UpdateKeepsInv ==
    ASSUME Inv, NEW c \in Clients, Update(c)
    PROVE  Inv'
<1> DEFINE i == RowOn(tx[c].round)
<1>1. /\ rows \in Seq(Rows) /\ saved \in Nat /\ snapshots \subseteq (DOMAIN rows) \X (Nat \ {0})
      /\ Len(rows) \in Nat /\ DOMAIN rows = 1..Len(rows)
  BY DEF Inv, TypeOK, Rows
<1>2. i \in DOMAIN rows /\ <<i, rows[i].version + 1>> \notin snapshots
      /\ snapshots' = snapshots \cup {<<i, rows[i].version + 1>>}
  BY UpdateIsNext
<1>3. PICK label \in {"draft", "submitted", "locked"} :
         rows' = [rows EXCEPT ![i].version = rows[i].version + 1, ![i].status = label]
  BY UpdateIsNext
<1>4. saved' = saved + 1 /\ tx' = [tx EXCEPT ![c] = Idle]
      /\ UNCHANGED <<status, current, paired, publishing>>
  BY DEF Update
<1> HIDE DEF i
<1>5. rows[i] \in Rows /\ rows[i].version \in Nat \ {0} /\ rows[i].version + 1 \in Nat \ {0}
  BY <1>2, RowsTyped
<1>6. /\ DOMAIN rows' = DOMAIN rows
      /\ rows'[i] = [rows[i] EXCEPT !.version = rows[i].version + 1, !.status = label]
      /\ \A j \in DOMAIN rows : j # i => rows'[j] = rows[j]
  BY <1>1, <1>2, <1>3
<1>7. /\ rows'[i] \in Rows /\ rows'[i].version = rows[i].version + 1
      /\ rows'[i].round = rows[i].round
  BY <1>5, <1>6 DEF Rows
<1>8. rows' \in Seq(Rows) /\ Len(rows') = Len(rows)
  <2>1. \A j \in DOMAIN rows : rows'[j] \in Rows
    BY <1>6, <1>7, RowsTyped
  <2>2. rows' = [j \in DOMAIN rows |-> rows'[j]]
    BY <1>1, <1>3
  <2>3. QED
    BY <1>1, <1>6, <2>1, <2>2, SameLength
<1>9. /\ tx' \in [Clients -> Transactions]
      /\ \A d \in Clients : tx'[d] = IF d = c THEN Idle ELSE tx[d]
      /\ \A d \in Clients : tx'[d].phase \in {"idle", "assigned", "ready"}
      /\ \A d \in Clients : tx'[d].row \in 0..Len(rows')
      /\ \A d \in Clients : tx'[d].phase # "idle" => d # c
      /\ \A d \in Clients : tx'[d].row # 0 => d # c /\ tx'[d].row \in DOMAIN rows
  <2>1. Len(rows') \in Nat /\ Len(rows) <= Len(rows')
    BY <1>1, <1>8
  <2>2. QED
    BY <1>1, <1>4, <2>1, OthersKept
<1>10. \A j \in DOMAIN rows : /\ rows[j].version <= rows'[j].version
                              /\ rows'[j].round = rows[j].round
  <2>1. rows[i].version <= rows[i].version + 1
    BY <1>5
  <2>2. \A j \in DOMAIN rows : rows[j].version <= rows[j].version
    BY RowsTyped
  <2>3. QED
    BY <1>6, <1>7, <2>1, <2>2
<1>11. TypeOK'
  <2>1. snapshots' \subseteq (DOMAIN rows') \X (Nat \ {0})
    BY <1>1, <1>2, <1>5, <1>6
  <2>2. publishing.row \in 0..Len(rows') /\ status \in {"open", "closed"}
        /\ paired \subseteq 1..MaxRounds /\ current \in 1..MaxRounds
    BY <1>8 DEF Inv, TypeOK
  <2>3. QED
    BY <1>1, <1>4, <1>8, <1>9, <2>1, <2>2 DEF TypeOK, Rows, Clients
<1>12. TransactionsOK'
  BY <1>4, <1>9 DEF Inv, TransactionsOK
<1>13. RoundsPublished'
  BY <1>4, <1>6, <1>9, <1>10 DEF Inv, RoundsPublished
<1>14. ReadsAreOld'
  <2> SUFFICES ASSUME NEW d \in Clients, tx'[d].row # 0
               PROVE  /\ tx'[d].version <= rows'[tx'[d].row].version
                      /\ tx'[d].base \in {0, tx'[d].version}
    BY DEF ReadsAreOld
  <2>1. tx'[d] = tx[d] /\ tx[d].row \in DOMAIN rows /\ tx[d].version \in Nat
    BY <1>9 DEF Inv, TransactionsOK, Transactions
  <2>2. /\ tx[d].version <= rows[tx[d].row].version
        /\ tx[d].base \in {0, tx[d].version}
    BY <2>1 DEF Inv, ReadsAreOld
  <2>3. rows[tx[d].row].version \in Nat /\ rows'[tx[d].row].version \in Nat
    BY <1>5, <1>6, <1>7, <2>1, RowsTyped
  <2>4. QED
    BY <1>10, <2>1, <2>2, <2>3
<1>15. OneRowPerAssignment'
  BY <1>6, <1>10 DEF Inv, OneRowPerAssignment
<1>16. History'
  <2> SUFFICES ASSUME NEW j \in DOMAIN rows', NEW v \in Nat \ {0}
               PROVE  <<j, v>> \in snapshots' <=> v <= rows'[j].version
    BY DEF History
  <2>1. <<j, v>> \in snapshots <=> v <= rows[j].version
    BY <1>6 DEF Inv, History
  <2>2. CASE j = i
    BY <1>2, <1>5, <1>7, <2>1, <2>2 DEF Rows
  <2>3. CASE j # i
    BY <1>2, <1>6, <2>1, <2>3
  <2>4. QED
    BY <2>2, <2>3
<1>17. Counted'
  BY <1>1, <1>2, <1>4, OneMoreSnapshot DEF Inv
<1>18. QED
  BY <1>11, <1>12, <1>13, <1>14, <1>15, <1>16, <1>17 DEF Inv

-----------------------------------------------------------------------------
(* A step of the administrator that changes labels or rounds of rows, never *)
(* a version, and no transaction of a client.                               *)
LEMMA RelabelKeepsInv ==
    ASSUME Inv, UNCHANGED <<snapshots, saved, tx>>,
           DOMAIN rows' = DOMAIN rows, rows' = [j \in DOMAIN rows |-> rows'[j]],
           \A j \in DOMAIN rows : rows'[j] \in Rows /\ rows'[j].version = rows[j].version,
           current' \in 1..MaxRounds, current <= current', paired' \subseteq 1..MaxRounds,
           status' \in {"open", "closed"},
           \A j \in DOMAIN rows : rows'[j].round <= current',
           publishing' \in [phase : {"idle", "ready"}, keep : BOOLEAN, row : Nat],
           publishing'.row \in 0..Len(rows),
           publishing'.phase = "ready" => current' < MaxRounds,
           OneRowPerAssignment'
    PROVE  Inv'
<1>1. rows \in Seq(Rows) /\ rows' \in Seq(Rows) /\ Len(rows') = Len(rows)
  <2>1. rows \in Seq(Rows)
    BY DEF Inv, TypeOK, Rows
  <2>2. QED
    BY <2>1, SameLength
<1>2. TypeOK'
  BY <1>1 DEF Inv, TypeOK, Rows
<1>3. TransactionsOK'
  BY DEF Inv, TransactionsOK
<1>4. RoundsPublished'
  <2>1. current \in Nat /\ current' \in Nat /\ 1..current \subseteq 1..current'
    BY TransactionsAssumption DEF Inv, TypeOK
  <2>2. QED
    BY <2>1 DEF Inv, RoundsPublished
<1>5. ReadsAreOld'
  <2>1. \A d \in Clients : tx[d].row # 0 => tx[d].row \in DOMAIN rows
    BY RowsTyped DEF Inv, TypeOK, Clients
  <2>2. QED
    BY <2>1 DEF Inv, ReadsAreOld
<1>6. History' /\ Counted'
  BY DEF Inv, History, Counted
<1>7. QED
  BY <1>2, <1>3, <1>4, <1>5, <1>6 DEF Inv

LEMMA RelabelledRows ==
    ASSUME Inv, NEW from, NEW to \in {"draft", "submitted", "locked"}
    PROVE  LET new == Relabelled(from, to) IN
           /\ DOMAIN new = DOMAIN rows /\ new = [j \in DOMAIN rows |-> new[j]]
           /\ \A j \in DOMAIN rows : /\ new[j] \in Rows
                                     /\ new[j].version = rows[j].version
                                     /\ new[j].round = rows[j].round
<1>1. \A j \in DOMAIN rows : rows[j] \in Rows
  BY RowsTyped
<1>2. QED
  BY <1>1 DEF Relabelled, Rows

LEMMA CloseOrReopenKeepsInv ==
    ASSUME Inv, Close \/ Reopen
    PROVE  Inv'
<1>1. PICK from, to \in {"draft", "submitted", "locked"} : rows' = Relabelled(from, to)
  BY DEF Close, Reopen
<1>2. UNCHANGED <<current, paired, snapshots, saved, tx, publishing>>
      /\ status' \in {"open", "closed"}
  BY DEF Close, Reopen
<1>3. /\ DOMAIN rows' = DOMAIN rows /\ rows' = [j \in DOMAIN rows |-> rows'[j]]
      /\ \A j \in DOMAIN rows : /\ rows'[j] \in Rows
                                /\ rows'[j].version = rows[j].version
                                /\ rows'[j].round = rows[j].round
  BY <1>1, RelabelledRows
<1>4. OneRowPerAssignment' /\ \A j \in DOMAIN rows : rows'[j].round <= current
  BY <1>3 DEF Inv, OneRowPerAssignment, RoundsPublished
<1>5. /\ current \in 1..MaxRounds /\ current <= current /\ paired \subseteq 1..MaxRounds
      /\ publishing \in [phase : {"idle", "ready"}, keep : BOOLEAN, row : Nat]
      /\ publishing.row \in 0..Len(rows) /\ (publishing.phase = "ready" => current < MaxRounds)
  BY TransactionsAssumption DEF Inv, TypeOK, TransactionsOK, RoundsPublished
<1>6. QED
  BY <1>2, <1>3, <1>4, <1>5, RelabelKeepsInv

LEMMA BeginPublishKeepsInv ==
    ASSUME Inv, NEW keep \in BOOLEAN, BeginPublish(keep)
    PROVE  Inv'
<1>1. rows \in Seq(Rows)
  BY DEF Inv, TypeOK, Rows
<1>2. RowOn(current) \in 0..Len(rows)
  BY <1>1, RowOnFinds
<1>3. /\ publishing' = [phase |-> "ready", keep |-> keep, row |-> RowOn(current)]
      /\ current < MaxRounds /\ UNCHANGED <<status, current, paired, rows, snapshots, saved, tx>>
  BY DEF BeginPublish
<1>4. /\ publishing' \in [phase : {"idle", "ready"}, keep : BOOLEAN, row : Nat]
      /\ publishing'.row \in 0..Len(rows)
  BY <1>1, <1>2, <1>3
<1>5. TypeOK' /\ TransactionsOK' /\ RoundsPublished'
  BY <1>3, <1>4 DEF Inv, TypeOK, TransactionsOK, RoundsPublished
<1>6. ReadsAreOld' /\ OneRowPerAssignment' /\ History' /\ Counted'
  BY <1>3 DEF Inv, ReadsAreOld, OneRowPerAssignment, History, Counted
<1>7. QED
  BY <1>5, <1>6 DEF Inv

(* The moved row is alone on the new round: no other is published yet.      *)
LEMMA CommitPublishKeepsInv ==
    ASSUME Inv, CommitPublish
    PROVE  Inv'
<1>1. /\ rows \in Seq(Rows) /\ (\A j \in DOMAIN rows : rows[j] \in Rows)
      /\ current \in 1..MaxRounds /\ MaxRounds \in Nat /\ current < MaxRounds
      /\ paired \subseteq 1..MaxRounds /\ status \in {"open", "closed"}
  BY RowsTyped, TransactionsAssumption DEF Inv, TypeOK, RoundsPublished, CommitPublish
<1>2. /\ current' = current + 1 /\ UNCHANGED <<status, snapshots, saved, tx>>
      /\ publishing' = NotPublishing
      /\ rows' = [j \in DOMAIN rows |->
                     IF publishing.keep /\ j = publishing.row
                     THEN [rows[j] EXCEPT !.round = current + 1]
                     ELSE rows[j]]
      /\ paired' \subseteq 1..MaxRounds
  BY <1>1 DEF CommitPublish
<1>3. /\ current' \in 1..MaxRounds /\ current <= current'
      /\ publishing' \in [phase : {"idle", "ready"}, keep : BOOLEAN, row : Nat]
      /\ publishing'.row \in 0..Len(rows) /\ publishing'.phase # "ready"
  BY <1>1, <1>2 DEF NotPublishing
<1>4. \A j \in DOMAIN rows : rows[j].round <= current
  BY DEF Inv, RoundsPublished
<1>5. \A j \in DOMAIN rows :
         /\ rows'[j] \in Rows /\ rows'[j].version = rows[j].version
         /\ rows'[j].round =
               IF publishing.keep /\ j = publishing.row THEN current' ELSE rows[j].round
  BY <1>1, <1>2, <1>3 DEF Rows
<1>6. DOMAIN rows' = DOMAIN rows /\ rows' = [j \in DOMAIN rows |-> rows'[j]]
  BY <1>2
<1>7. \A j \in DOMAIN rows : rows'[j].round <= current' /\ rows[j].round # current'
  BY <1>1, <1>2, <1>4, <1>5 DEF Rows
<1>8. OneRowPerAssignment'
  BY <1>5, <1>6, <1>7 DEF Inv, OneRowPerAssignment
<1>9. QED
  BY <1>1, <1>2, <1>3, <1>5, <1>6, <1>7, <1>8, RelabelKeepsInv

-----------------------------------------------------------------------------
LEMMA NextKeepsInv == Inv /\ [Next]_vars => Inv'
<1> SUFFICES ASSUME Inv, [Next]_vars
             PROVE  Inv'
  OBVIOUS
<1>1. ASSUME NEW c \in Tabs, NEW submit \in BOOLEAN, NEW base \in Bases, BeginSave(c, submit, base)
      PROVE  Inv'
  BY <1>1, BeginSaveKeepsInv
<1>2. ASSUME NEW c \in Tabs, LockAssignment(c)
      PROVE  Inv'
  BY <1>2, LockAssignmentKeepsInv
<1>3. ASSUME NEW c \in Admins, NEW i \in DOMAIN rows, NEW base \in Bases, BeginCorrection(c, i, base)
      PROVE  Inv'
  BY <1>3, BeginCorrectionKeepsInv
<1>4. ASSUME NEW c \in Clients, Insert(c) \/ Update(c) \/ Rollback(c)
      PROVE  Inv'
  BY <1>4, InsertKeepsInv, UpdateKeepsInv, RollbackKeepsInv DEF Rollback
<1>5. ASSUME NEW keep \in BOOLEAN, BeginPublish(keep)
      PROVE  Inv'
  BY <1>5, BeginPublishKeepsInv
<1>6. CASE CommitPublish \/ Close \/ Reopen
  BY <1>6, CommitPublishKeepsInv, CloseOrReopenKeepsInv
<1>7. CASE UNCHANGED vars
  BY <1>7 DEF vars, Inv, TypeOK, TransactionsOK, RoundsPublished, ReadsAreOld,
     OneRowPerAssignment, History, Counted
<1>8. QED
  BY <1>1, <1>2, <1>3, <1>4, <1>5, <1>6, <1>7 DEF Next, Clients

(* The inductive invariant of the overlapping transactions.                 *)
THEOREM TransactionsInvariant == Spec => []Inv
  BY InitInv, NextKeepsInv, PTL DEF Spec

(* Types of the variables.                                                  *)
THEOREM TransactionsTypeCorrect == Spec => []TypeOK
<1>1. Inv => TypeOK
  BY DEF Inv
<1>2. QED
  BY <1>1, TransactionsInvariant, PTL

(* uq_submission_assignment never has to refuse: an assignment has one      *)
(* submission, whatever publications, saves and corrections overlap.        *)
THEOREM OneSubmissionEach == Spec => []OneRowPerAssignment
<1>1. Inv => OneRowPerAssignment
  BY DEF Inv
<1>2. QED
  BY <1>1, TransactionsInvariant, PTL

(* Every acknowledged save is a snapshot of its own, and a row's snapshots  *)
(* run from 1 to its version (save_submission and correct_submission).      *)
THEOREM NoSnapshotMissing == Spec => []HistoryComplete
<1>1. Inv => HistoryComplete
  BY TransactionsAssumption DEF Inv, History, Counted, HistoryComplete
<1>2. QED
  BY <1>1, TransactionsInvariant, PTL

(* Only an update moves a version on, from the one its client was shown.    *)
LEMMA WriteIsNotBlind ==
    ASSUME Inv, [Next]_vars, NEW c \in Clients, NEW i \in DOMAIN rows,
           tx[c].base # 0, tx[c].row = i, tx[c] # tx'[c],
           rows'[i].version # rows[i].version
    PROVE  rows[i].version = tx[c].base
<1>1. rows \in Seq(Rows) /\ tx \in [Clients -> Transactions]
  BY DEF Inv, TypeOK, TransactionsOK, Rows
<1>2. ASSUME NEW d \in Clients, Update(d)
      PROVE  rows[i].version = tx[c].base
  <2>1. c = d
    BY <1>1, <1>2 DEF Update
  <2>2. PICK label : rows' = [rows EXCEPT ![RowOn(tx[d].round)].version =
                                             rows[RowOn(tx[d].round)].version + 1,
                                          ![RowOn(tx[d].round)].status = label]
    BY <1>2, UpdateIsNext
  <2>3. i = RowOn(tx[d].round)
    BY <1>1, <2>2
  <2>4. tx[c].version = rows[i].version
    BY <1>2, <2>1, <2>3, UpdateIsNext
  <2>5. tx[c].base \in {0, tx[c].version}
    BY <1>1 DEF Inv, ReadsAreOld
  <2>6. QED
    BY <2>4, <2>5
<1>3. ASSUME NEW d \in Clients, Insert(d)
      PROVE  FALSE
  BY <1>1, <1>3 DEF Insert
<1>4. UNCHANGED rows => FALSE
  OBVIOUS
<1>5. UNCHANGED tx => FALSE
  OBVIOUS
<1>6. QED
  BY <1>2, <1>3, <1>4, <1>5 DEF Next, vars, BeginSave, LockAssignment, BeginCorrection, Rollback,
     BeginPublish, CommitPublish, Close, Reopen, Clients

(* expected_version and client_version: a save or a correction that names   *)
(* the version it was based on overwrites no other.                         *)
THEOREM SavesAreNotBlind == Spec => NoBlindOverwrite
<1>1. Inv /\ [Next]_vars =>
        [\A c \in Tabs \cup Admins, i \in DOMAIN rows :
            (/\ tx[c].base # 0 /\ tx[c].row = i /\ tx[c] # tx'[c]
             /\ rows'[i].version # rows[i].version)
                => rows[i].version = tx[c].base]_vars
  BY WriteIsNotBlind DEF Clients
<1>2. QED
  BY <1>1, TransactionsInvariant, PTL DEF NoBlindOverwrite, Spec
=============================================================================
