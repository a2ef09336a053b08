--------------------------- MODULE SheetBackupProofs ---------------------------
(* Proofs about the manual backup, for any number of servers, operations of a *)
(* backup, backups, lost answers and restarts.                                *)
EXTENDS SheetBackup, TLAPS

Calls ==
    [action : {"none", "begin", "abort", "apply"}, run : 0..MaxRuns, seq : 0..Steps,
     attempt : 0..Attempts, reply : Replies \cup {"none", "failed"}, next : 0..Steps]

States == {"none", "preparing", "running", "interrupted", "complete", "cancelled"}
Leases == [run : 0..MaxRuns, next : 0..Steps, live : BOOLEAN]

Typed ==
    /\ tab \in [Servers -> {"idle", "running", "cancelling"}]
    /\ job \in [Servers -> [run : 0..MaxRuns, progress : 0..Steps, state : States]]
    /\ call \in [Servers -> Calls]
    /\ late \subseteq Calls
    /\ lease \in Leases
    /\ tabs \in [Runs -> SUBSET (0..Publishing)]
    /\ publications \in Seq(Runs)
    /\ withdrawn \subseteq Runs
    /\ runs \in 0..MaxRuns
    /\ failures \in Nat

(* A backup is started by one server and has a number of its own.            *)
RunsKnown ==
    /\ \A s \in Servers : /\ job[s].run <= runs
                          /\ job[s].state # "none" => job[s].run # 0
    /\ \A s, t \in Servers : job[s].run = job[t].run /\ job[s].run # 0 => s = t
    /\ lease.run <= runs
    /\ \A r \in ToSet(publications) : r <= runs

RequestOK(q) ==
    /\ q.action # "none" => q.run \in 1..runs /\ q.run \in Runs
    /\ q.action = "apply" => q.seq \in 0..Publishing
    /\ q.action = "abort" => q.run \in withdrawn

RequestsOK == /\ \A s \in Servers : RequestOK(call[s])
              /\ \A q \in late : RequestOK(q) /\ q.action # "none"

(* What a server waits for is about its job as it is.                        *)
CallOfJob(s) ==
    /\ call[s].action = "begin" => job[s].state = "preparing" /\ call[s].run = job[s].run
    /\ call[s].action = "apply" =>
          Resumable(s) /\ call[s].run = job[s].run /\ call[s].seq = job[s].progress
    /\ call[s].action = "abort" => job[s].state # "preparing"
    /\ Resumable(s) => job[s].progress <= Publishing
    /\ job[s].state = "preparing" => job[s].progress = 0

CallsOfJobs == \A s \in Servers : CallOfJob(s)

(* Delayed operations are not ahead of the job they were sent for.           *)
LateIsBehind ==
    \A q \in late, s \in Servers :
        q.action = "apply" /\ q.run = job[s].run =>
            job[s].state # "preparing" /\ q.seq <= job[s].progress

FinishedAt(s) ==
    /\ job[s].state = "complete" => job[s].run \in ToSet(publications)
    /\ call[s].action = "apply" /\ call[s].reply = "complete" =>
          call[s].run \in ToSet(publications)

Finished == \A s \in Servers : FinishedAt(s)

(* A job under way whose run is neither cancelled nor shown.                 *)
Open(s) ==
    /\ job[s].state \in {"preparing", "running", "interrupted"}
    /\ job[s].run \notin withdrawn \cup ToSet(publications)

(* Its begin was answered: from then on a delayed begin finds the lease.     *)
Granted(s) ==
    \/ Resumable(s)
    \/ job[s].state = "preparing" /\ call[s].action = "none"
    \/ call[s].action = "begin" /\ call[s].reply = "next"

BeginAsked(r) ==
    \/ \E t \in Servers : call[t].action = "begin" /\ call[t].run = r
    \/ \E q \in late : q.action = "begin" /\ q.run = r

LeaseFitsAt(s) ==
    /\ lease.run = job[s].run =>
          /\ lease.next \in {job[s].progress, job[s].progress + 1}
          /\ job[s].state = "preparing" => lease.next = 0
    /\ Granted(s) /\ BeginAsked(job[s].run) => lease.run = job[s].run /\ lease.live
    /\ lease.run = job[s].run /\ call[s].action = "apply" /\ call[s].reply = "next" =>
          call[s].next <= lease.next

LeaseFits == \A s \in Servers : Open(s) => LeaseFitsAt(s)

Inv ==
    /\ Typed
    /\ RunsKnown
    /\ RequestsOK
    /\ CallsOfJobs
    /\ LateIsBehind
    /\ Finished
    /\ LeaseFits

-----------------------------------------------------------------------------
(* The published runs.                                                       *)
LEMMA PublishedIsLast ==
    ASSUME publications \in Seq(Runs)
    PROVE  /\ published = 0 \/ published \in ToSet(publications)
           /\ published \in 0..MaxRuns
           /\ \A r \in ToSet(publications) : r \in Runs
<1>1. CASE publications = <<>>
  BY <1>1, BackupAssumption DEF published, ToSet
<1>2. CASE publications # <<>>
  <2>1. Len(publications) \in DOMAIN publications
    BY <1>2
  <2>2. publications[Len(publications)] \in Runs /\ MaxRuns \in Nat
    BY <2>1, BackupAssumption
  <2>3. published = publications[Len(publications)]
    BY <1>2 DEF published, Last
  <2>4. \A j \in DOMAIN publications : publications[j] \in Runs
    OBVIOUS
  <2>5. QED
    BY <2>1, <2>2, <2>3, <2>4 DEF ToSet, Runs
<1>3. QED
  BY <1>1, <1>2

LEMMA OneMorePublished ==
    ASSUME NEW ps \in Seq(Runs), NEW r \in Runs
    PROVE  Append(ps, r) \in Seq(Runs) /\ ToSet(Append(ps, r)) = ToSet(ps) \cup {r}
<1>1. /\ Append(ps, r) \in Seq(Runs) /\ DOMAIN Append(ps, r) = 1..(Len(ps) + 1)
      /\ DOMAIN ps = 1..Len(ps) /\ Len(ps) \in Nat
      /\ Append(ps, r)[Len(ps) + 1] = r /\ \A j \in DOMAIN ps : Append(ps, r)[j] = ps[j]
  OBVIOUS
<1>2. ToSet(Append(ps, r)) \subseteq ToSet(ps) \cup {r}
  BY <1>1 DEF ToSet
<1>3. r \in ToSet(Append(ps, r))
  BY <1>1 DEF ToSet
<1>4. ToSet(ps) \subseteq ToSet(Append(ps, r))
  BY <1>1 DEF ToSet
<1>5. QED
  BY <1>1, <1>2, <1>3, <1>4

(* What the script may make of a request.                                    *)
OutcomeTyped(o) ==
    /\ o.reply \in Replies /\ o.next \in 0..Steps /\ o.failure \in Nat
    /\ o.lease \in Leases
    /\ o.tabs \in [Runs -> SUBSET (0..Publishing)]
    /\ o.publications \in Seq(Runs)

LeaseTaken(q, o) ==
    q.action = "begin" /\ ~Held /\ o.lease = [run |-> q.run, next |-> 0, live |-> TRUE]

LeaseDropped(q, o) == q.action = "abort" /\ lease.run = q.run /\ o.lease = NoLease

StepTaken(q, o) ==
    /\ q.action = "apply" /\ lease.run = q.run /\ q.seq = lease.next
    /\ o.lease = [run |-> lease.run, next |-> lease.next + 1, live |-> lease.live]

OutcomeOK(q, o) ==
    /\ OutcomeTyped(o)
    /\ o.lease = lease \/ LeaseTaken(q, o) \/ LeaseDropped(q, o) \/ StepTaken(q, o)
    /\ \/ ToSet(o.publications) = ToSet(publications)
       \/ q.action = "apply" /\ ToSet(o.publications) = ToSet(publications) \cup {q.run}
    /\ o.reply = "complete" => q.action = "apply" /\ q.run \in ToSet(o.publications)
    /\ q.action = "begin" /\ o.reply = "next" => o.lease.run = q.run /\ o.lease.live
    /\ q.action = "apply" /\ o.reply = "next" => o.lease.run = q.run /\ o.next = o.lease.next

(* Answers and failures that change nothing.                                 *)
LEMMA AnswersAreOK ==
    ASSUME Typed, NEW q, NEW reply \in Replies \ {"complete", "next"}
    PROVE  OutcomeOK(q, Answer(reply, 0)) /\ OutcomeOK(q, Failure(q, reply))
<1>1. 0 \in 0..Steps /\ Cost(q) \in Nat
  BY BackupAssumption DEF Cost
<1>2. /\ Answer(reply, 0) = [reply |-> reply, next |-> 0, failure |-> 0, lease |-> lease,
                             tabs |-> tabs, publications |-> publications]
      /\ Failure(q, reply) = [reply |-> reply, next |-> 0, failure |-> Cost(q), lease |-> lease,
                              tabs |-> tabs, publications |-> publications]
  BY DEF Answer, Failure
<1>3. QED
  BY <1>1, <1>2 DEF OutcomeOK, OutcomeTyped, Typed

LEMMA BeginIsOK ==
    ASSUME Typed, NEW q \in Calls, RequestOK(q), q.action = "begin", NEW o \in Begin(q)
    PROVE  OutcomeOK(q, o)
<1> DEFINE cleared == [r \in Runs |-> IF Abandoned(r) THEN {} ELSE tabs[r]]
<1>1. cleared \in [Runs -> SUBSET (0..Publishing)]
  BY DEF Typed
<1>2. lease.next \in 0..Steps /\ lease \in Leases /\ 0 \in 0..Steps /\ Cost(q) \in Nat
  BY BackupAssumption DEF Typed, Leases, Cost
<1>3. q.run \in 0..MaxRuns
  BY DEF Calls
<1> HIDE DEF cleared
<1>4. CASE Held /\ q.run = lease.run /\ o = Answer("next", lease.next)
  BY <1>2, <1>4 DEF OutcomeOK, OutcomeTyped, Answer, Typed, Replies, Held
<1>5. CASE o = Answer("busy", 0)
  BY <1>5, AnswersAreOK DEF Replies
<1>6. CASE /\ ~Held
           /\ o = [reply |-> "next", next |-> 0, failure |-> 0, tabs |-> cleared,
                   lease |-> [run |-> q.run, next |-> 0, live |-> TRUE],
                   publications |-> publications]
  BY <1>1, <1>2, <1>3, <1>6 DEF OutcomeOK, OutcomeTyped, Typed, Replies, Leases, LeaseTaken
<1>7. CASE o = [reply |-> "temporary", next |-> 0, failure |-> Cost(q), tabs |-> cleared,
                lease |-> lease, publications |-> publications]
  BY <1>1, <1>2, <1>7 DEF OutcomeOK, OutcomeTyped, Typed, Replies
<1>8. QED
  BY <1>4, <1>5, <1>6, <1>7 DEF Begin, Answer, Failure, cleared

LEMMA AbortIsOK ==
    ASSUME Typed, NEW q \in Calls, q.action = "abort", NEW o \in Abort(q)
    PROVE  OutcomeOK(q, o)
<1> DEFINE next == IF lease.run = q.run /\ q.run # published THEN NoLease ELSE lease
<1>1. next \in Leases /\ 0 \in 0..Steps
  BY BackupAssumption DEF Typed, Leases, NoLease
<1>2. next = lease \/ (lease.run = q.run /\ next = NoLease)
  OBVIOUS
<1>3. o = [reply |-> "cancelled", next |-> 0, failure |-> 0, lease |-> next,
           tabs |-> tabs, publications |-> publications]
  BY DEF Abort, Answer
<1> HIDE DEF next
<1>4. QED
  BY <1>1, <1>2, <1>3 DEF OutcomeOK, OutcomeTyped, Typed, Replies, LeaseDropped

(* One operation of a run, as far as it is recorded in the answer.           *)
LEMMA OperatedRecord ==
    ASSUME NEW q, NEW reply, NEW next, NEW failure, NEW held
    PROVE  LET answer == [reply |-> reply, next |-> next, failure |-> failure, lease |-> held,
                          tabs |-> tabs, publications |-> publications]
           IN
           /\ q.seq = Publishing =>
                 Operated(q, answer) =
                   [reply |-> reply, next |-> next, failure |-> failure, lease |-> held,
                    tabs |-> [r \in Runs |-> IF r = published THEN {} ELSE tabs[r]],
                    publications |-> Append(publications, q.run)]
           /\ q.seq # Publishing =>
                 Operated(q, answer) =
                   [reply |-> reply, next |-> next, failure |-> failure, lease |-> held,
                    tabs |-> [tabs EXCEPT ![q.run] = @ \cup {q.seq}],
                    publications |-> publications]
  BY DEF Operated

LEMMA ApplyIsOK ==
    ASSUME Typed, NEW q \in Calls, RequestOK(q), q.action = "apply", NEW o \in Apply(q)
    PROVE  OutcomeOK(q, o)
<1>1. /\ q.run \in Runs /\ q.run # 0 /\ q.seq \in 0..Publishing /\ Cost(q) \in Nat
      /\ lease.next \in 0..Steps /\ lease \in Leases /\ 0 \in 0..Steps /\ Publishing + 1 = Steps
      /\ tabs \in [Runs -> SUBSET (0..Publishing)] /\ publications \in Seq(Runs)
  BY BackupAssumption DEF RequestOK, Runs, Cost, Typed, Leases, Publishing
<1>2. CASE q.run = published /\ o = Answer("complete", 0)
  <2>1. q.run \in ToSet(publications)
    BY <1>1, <1>2, PublishedIsLast
  <2>2. QED
    BY <1>1, <1>2, <2>1 DEF OutcomeOK, OutcomeTyped, Answer, Replies
<1>3. CASE o = Answer(Refusal(q), 0) /\ Refusal(q) # "none"
  <2>1. Refusal(q) \in Replies \ {"complete", "next"}
    BY <1>3 DEF Refusal, Replies
  <2>2. QED
    BY <1>3, <2>1, AnswersAreOK
<1>4. CASE Refusal(q) = "none" /\ SeenBefore(q) /\ o = Answer("next", lease.next)
  <2>1. lease.run = q.run
    BY <1>4 DEF Refusal
  <2>2. QED
    BY <1>1, <1>4, <2>1 DEF OutcomeOK, OutcomeTyped, Answer, Replies
<1>5. CASE o = Answer("refused", 0)
  BY <1>5, AnswersAreOK DEF Replies
<1>6. ASSUME Refusal(q) = "none", ~SeenBefore(q)
      PROVE  lease.run = q.run /\ q.seq = lease.next /\ lease.live /\ lease.next + 1 \in 0..Steps
  <2>1. lease.live /\ lease.run = q.run /\ q.seq \in {lease.next, lease.next - 1}
    BY <1>6 DEF Refusal
  <2>2. q.seq = lease.next
    BY <1>6, <2>1 DEF SeenBefore
  <2>3. Steps \in Nat /\ Publishing \in Nat /\ lease.next \in Nat
    BY <1>1, BackupAssumption DEF Publishing
  <2>4. QED
    BY <1>1, <2>1, <2>2, <2>3
<1> DEFINE moved == [run |-> lease.run, next |-> lease.next + 1, live |-> lease.live]
           replaced == [r \in Runs |-> IF r = published THEN {} ELSE tabs[r]]
           written == [tabs EXCEPT ![q.run] = @ \cup {q.seq}]
           more == Append(publications, q.run)
           reply == IF q.seq = Publishing THEN "complete" ELSE "next"
<1>7. /\ replaced \in [Runs -> SUBSET (0..Publishing)] /\ written \in [Runs -> SUBSET (0..Publishing)]
      /\ more \in Seq(Runs) /\ ToSet(more) = ToSet(publications) \cup {q.run}
  BY <1>1, OneMorePublished
<1>8. [lease EXCEPT !.next = @ + 1] = moved
  BY <1>1 DEF Leases
<1>9. ASSUME Refusal(q) = "none", ~SeenBefore(q)
      PROVE  moved \in Leases
  BY <1>1, <1>6, <1>9 DEF Leases
<1>10. CASE /\ Refusal(q) = "none" /\ ~SeenBefore(q)
            /\ o = Operated(q, [Answer(reply, lease.next + 1) EXCEPT !.lease.next = @ + 1])
  <2>1. [Answer(reply, lease.next + 1) EXCEPT !.lease.next = @ + 1] =
        [reply |-> reply, next |-> lease.next + 1, failure |-> 0, lease |-> moved,
         tabs |-> tabs, publications |-> publications]
    BY <1>8 DEF Answer
  <2> HIDE DEF moved, replaced, written, more
  <2>2. CASE q.seq = Publishing
    <3>1. o = [reply |-> "complete", next |-> lease.next + 1, failure |-> 0, lease |-> moved,
               tabs |-> replaced, publications |-> more]
      <4>1. o = Operated(q, [reply |-> reply, next |-> lease.next + 1, failure |-> 0,
                             lease |-> moved, tabs |-> tabs, publications |-> publications])
        BY <1>10, <2>1, Zenon
      <4>2. QED
        BY <4>1, <2>2, OperatedRecord, Zenon DEF replaced, more
    <3>2. OutcomeTyped(o)
      <4>1. moved \in Leases /\ lease.next + 1 \in 0..Steps
        BY <1>6, <1>9, <1>10
      <4>2. QED
        BY <1>1, <1>7, <3>1, <4>1 DEF OutcomeTyped, Replies
    <3>3. StepTaken(q, o) /\ o.lease.run = q.run /\ o.next = o.lease.next
      BY <1>6, <1>10, <3>1 DEF StepTaken, moved
    <3>4. QED
      BY <1>1, <1>7, <2>2, <3>1, <3>2, <3>3 DEF OutcomeOK
  <2>3. CASE q.seq # Publishing
    <3>1. o = [reply |-> "next", next |-> lease.next + 1, failure |-> 0, lease |-> moved,
               tabs |-> written, publications |-> publications]
      <4>1. o = Operated(q, [reply |-> reply, next |-> lease.next + 1, failure |-> 0,
                             lease |-> moved, tabs |-> tabs, publications |-> publications])
        BY <1>10, <2>1, Zenon
      <4>2. QED
        BY <4>1, <2>3, OperatedRecord, Zenon DEF written
    <3>2. OutcomeTyped(o)
      <4>1. moved \in Leases /\ lease.next + 1 \in 0..Steps
        BY <1>6, <1>9, <1>10
      <4>2. QED
        BY <1>1, <1>7, <3>1, <4>1 DEF OutcomeTyped, Replies
    <3>3. StepTaken(q, o) /\ o.lease.run = q.run /\ o.next = o.lease.next
      BY <1>6, <1>10, <3>1 DEF StepTaken, moved
    <3>4. QED
      BY <1>1, <1>7, <2>3, <3>1, <3>2, <3>3 DEF OutcomeOK
  <2>4. QED
    BY <2>2, <2>3
<1>11. CASE /\ Refusal(q) = "none" /\ ~SeenBefore(q)
            /\ o = Operated(q, Failure(q, "temporary"))
  <2>1. Failure(q, "temporary") =
        [reply |-> "temporary", next |-> 0, failure |-> Cost(q), lease |-> lease,
         tabs |-> tabs, publications |-> publications]
    BY DEF Answer, Failure
  <2> HIDE DEF moved, replaced, written, more
  <2>2. CASE q.seq = Publishing
    <3>1. o = [reply |-> "temporary", next |-> 0, failure |-> Cost(q), lease |-> lease,
               tabs |-> replaced, publications |-> more]
      <4>1. o = Operated(q, [reply |-> "temporary", next |-> 0, failure |-> Cost(q),
                             lease |-> lease, tabs |-> tabs, publications |-> publications])
        BY <1>11, <2>1, Zenon
      <4>2. QED
        BY <4>1, <2>2, OperatedRecord, Zenon DEF replaced, more
    <3>2. QED
      BY <1>1, <1>7, <3>1 DEF OutcomeOK, OutcomeTyped, Replies
  <2>3. CASE q.seq # Publishing
    <3>1. o = [reply |-> "temporary", next |-> 0, failure |-> Cost(q), lease |-> lease,
               tabs |-> written, publications |-> publications]
      <4>1. o = Operated(q, [reply |-> "temporary", next |-> 0, failure |-> Cost(q),
                             lease |-> lease, tabs |-> tabs, publications |-> publications])
        BY <1>11, <2>1, Zenon
      <4>2. QED
        BY <4>1, <2>3, OperatedRecord, Zenon DEF written
    <3>2. QED
      BY <1>1, <1>7, <3>1 DEF OutcomeOK, OutcomeTyped, Replies
  <2>4. QED
    BY <2>2, <2>3
<1>12. QED
  BY <1>2, <1>3, <1>4, <1>5, <1>10, <1>11 DEF Apply

LEMMA OutcomesAreOK ==
    ASSUME Typed, NEW q \in Calls, RequestOK(q), q.action # "none", NEW o \in Outcomes(q)
    PROVE  OutcomeOK(q, o)
<1>1. q.action \in {"begin", "abort", "apply"}
  BY DEF Calls
<1>2. CASE o \in {Failure(q, "temporary"), Failure(q, "refused"), Answer("busy", 0)}
  BY <1>2, AnswersAreOK DEF Replies
<1>3. CASE \/ q.action = "begin" /\ o \in Begin(q)
           \/ q.action = "abort" /\ o \in Abort(q)
           \/ q.action = "apply" /\ o \in Apply(q)
  BY <1>3, BeginIsOK, AbortIsOK, ApplyIsOK
<1>4. QED
  BY <1>1, <1>2, <1>3 DEF Outcomes

-----------------------------------------------------------------------------
(* A step that only forgets requests, or answers, keeps the invariant; so    *)
(* the effect of a request is checked once for calls and for late requests.  *)
Requests(q) == (\E s \in Servers : q = call[s] /\ q.action # "none") \/ q \in late

LEMMA ScriptKeepsInv ==
    ASSUME Inv, NEW q, Requests(q), NEW o \in Outcomes(q), Receive(o),
           UNCHANGED <<tab, job, withdrawn, runs>>, late' \subseteq late,
           call' \in [Servers -> Calls],
           \A t \in Servers :
              /\ call'[t].action = call[t].action /\ call'[t].run = call[t].run
              /\ call'[t].seq = call[t].seq
              /\ \/ call'[t] = call[t]
                 \/ q = call[t] /\ call'[t].reply = o.reply /\ call'[t].next = o.next
                 \/ call'[t].reply \in {"none", "failed"}
    PROVE  Inv'
<1> DEFINE pubs == ToSet(publications)
<1>1. q \in Calls /\ RequestOK(q) /\ q.action # "none" /\ q.run \in Runs /\ q.run \in 1..runs
  BY DEF Requests, Inv, Typed, RequestsOK, RequestOK
<1>2. OutcomeOK(q, o)
  BY <1>1, OutcomesAreOK DEF Inv
<1>3. /\ lease' = o.lease /\ tabs' = o.tabs /\ publications' = o.publications
      /\ failures' = failures + o.failure
  BY DEF Receive, Fails
<1>4. ToSet(publications') = pubs \/ ToSet(publications') = pubs \cup {q.run}
  BY <1>2, <1>3 DEF OutcomeOK
<1>5. lease.run \in 0..MaxRuns /\ lease.next \in Nat /\ lease.live \in BOOLEAN
      /\ \A s \in Servers : job[s].run \in 0..MaxRuns /\ job[s].progress \in 0..Steps
  BY DEF Inv, Typed, Leases
<1>6. Typed'
  BY <1>2, <1>3 DEF Inv, Typed, OutcomeOK, OutcomeTyped
<1>7. RunsKnown'
  <2>1. lease'.run <= runs
    <3>1. runs \in Nat /\ 0 <= runs /\ lease.run <= runs /\ q.run <= runs
      BY <1>1, BackupAssumption DEF Inv, Typed, RunsKnown
    <3>2. \/ lease' = lease
          \/ lease' = [run |-> q.run, next |-> 0, live |-> TRUE]
          \/ lease' = NoLease
          \/ lease' = [run |-> lease.run, next |-> lease.next + 1, live |-> lease.live]
      BY <1>2, <1>3 DEF OutcomeOK, LeaseTaken, LeaseDropped, StepTaken
    <3>3. QED
      BY <3>1, <3>2 DEF NoLease
  <2>2. \A r \in ToSet(publications') : r <= runs
    BY <1>1, <1>4 DEF Inv, RunsKnown
  <2>3. QED
    BY <2>1, <2>2 DEF Inv, RunsKnown
<1>8. RequestsOK'
  BY DEF Inv, RequestsOK, RequestOK
<1>9. CallsOfJobs' /\ LateIsBehind'
  BY DEF Inv, CallsOfJobs, CallOfJob, LateIsBehind, Resumable
<1>10. Finished'
  <2> SUFFICES ASSUME NEW s \in Servers
               PROVE  /\ job[s].state = "complete" => job[s].run \in ToSet(publications')
                      /\ call'[s].action = "apply" /\ call'[s].reply = "complete" =>
                            call'[s].run \in ToSet(publications')
    BY DEF Finished, FinishedAt
  <2>1. job[s].state = "complete" => job[s].run \in pubs
    BY DEF Inv, Finished, FinishedAt
  <2>2. call[s].action = "apply" /\ call[s].reply = "complete" => call[s].run \in pubs
    BY DEF Inv, Finished, FinishedAt
  <2>3. o.reply = "complete" => q.run \in ToSet(publications')
    BY <1>2, <1>3 DEF OutcomeOK
  <2>4. QED
    BY <1>4, <2>1, <2>2, <2>3
<1>11. LeaseFits'
  <2> SUFFICES ASSUME NEW s \in Servers, Open(s)'
               PROVE  /\ lease'.run = job[s].run =>
                            /\ lease'.next \in {job[s].progress, job[s].progress + 1}
                            /\ job[s].state = "preparing" => lease'.next = 0
                      /\ Granted(s)' /\ BeginAsked(job[s].run)' =>
                            lease'.run = job[s].run /\ lease'.live
                      /\ lease'.run = job[s].run /\ call'[s].action = "apply"
                         /\ call'[s].reply = "next" => call'[s].next <= lease'.next
    BY DEF LeaseFits, LeaseFitsAt
  <2>1. /\ Open(s) /\ job[s].run \notin ToSet(publications') /\ job[s].run \notin withdrawn
        /\ job[s].run # 0 /\ job[s].run \notin pubs
    BY <1>4 DEF Open, Inv, RunsKnown
  <2>2. BeginAsked(job[s].run)' => BeginAsked(job[s].run)
    BY DEF BeginAsked
  <2>3. job[s].progress \in Nat
    BY <1>5, BackupAssumption
  <2>4. Held \/ ~(lease.live /\ lease.run = job[s].run)
    BY <2>1, PublishedIsLast DEF Held, Inv, Typed
  <2>5. lease.run = job[s].run =>
           /\ lease.next \in {job[s].progress, job[s].progress + 1}
           /\ job[s].state = "preparing" => lease.next = 0
    BY <2>1 DEF Inv, LeaseFits, LeaseFitsAt
  <2>6. Granted(s) /\ BeginAsked(job[s].run) => lease.run = job[s].run /\ lease.live
    BY <2>1 DEF Inv, LeaseFits, LeaseFitsAt
  <2>7. lease.run = job[s].run /\ call[s].action = "apply" /\ call[s].reply = "next" =>
           call[s].next <= lease.next
    BY <2>1 DEF Inv, LeaseFits, LeaseFitsAt
  <2>8. q.action = "apply" /\ q.run = job[s].run =>
           job[s].state # "preparing" /\ q.seq \in Nat /\ q.seq <= job[s].progress
    <3>1. q.action = "apply" => q.seq \in Nat
      BY <1>1 DEF RequestOK
    <3>2. CASE q \in late
      BY <3>1, <3>2 DEF Inv, LateIsBehind
    <3>3. ASSUME NEW t \in Servers, q = call[t], q.action = "apply", q.run = job[s].run
          PROVE  t = s /\ Resumable(s) /\ q.seq = job[s].progress
      BY <2>1, <3>3 DEF Inv, CallsOfJobs, CallOfJob, RunsKnown
    <3>4. QED
      BY <2>3, <3>1, <3>2, <3>3 DEF Requests, Resumable
  <2>9. q.action = "begin" => BeginAsked(q.run)
    BY DEF Requests, BeginAsked
  <2>10. q.action = "abort" => q.run # job[s].run
    BY <1>1, <2>1 DEF RequestOK
  <2>11. Granted(s)' => Granted(s) \/ (call'[s].action = "begin" /\ q = call[s] /\ o.reply = "next")
    BY DEF Granted, Resumable
  <2>12. call[s].action = "begin" => call[s].run = job[s].run
    BY DEF Inv, CallsOfJobs, CallOfJob
  <2>13. call[s].action = "apply" => call[s].run = job[s].run /\ Resumable(s)
    BY DEF Inv, CallsOfJobs, CallOfJob
  <2>14. call[s].next \in Nat /\ o.next \in Nat
    BY <1>2 DEF Inv, Typed, Calls, OutcomeOK, OutcomeTyped
  <2>15. call'[s].reply = "next" =>
            call'[s] = call[s] \/ (q = call[s] /\ o.reply = "next" /\ call'[s].next = o.next)
    OBVIOUS
  <2>16. q = call[s] /\ o.reply = "next" /\ q.action \in {"begin", "apply"} =>
            /\ lease'.run = job[s].run
            /\ q.action = "begin" => lease'.live
            /\ q.action = "apply" => o.next = lease'.next
    BY <1>2, <1>3, <2>12, <2>13 DEF OutcomeOK
  <2> HIDE DEF pubs
  <2>17. CASE lease' = lease
    BY <1>5, <2>2, <2>5, <2>6, <2>7, <2>11, <2>14, <2>15, <2>16, <2>17
  <2>18. CASE LeaseTaken(q, o)
    <3>1. q.action = "begin" /\ ~Held /\ lease' = [run |-> q.run, next |-> 0, live |-> TRUE]
      BY <1>3, <2>18 DEF LeaseTaken
    <3>2. q.run = job[s].run => ~Granted(s)
      BY <2>4, <2>6, <2>9, <3>1
    <3>3. BeginAsked(job[s].run)' /\ Granted(s) => FALSE
      BY <2>2, <2>4, <2>6, <3>1
    <3>4. ~Granted(s) => job[s].state = "preparing" /\ job[s].progress = 0 /\ ~Resumable(s)
      BY <2>1 DEF Granted, Open, Resumable, Inv, CallsOfJobs, CallOfJob
    <3>5. QED
      BY <2>11, <2>12, <2>13, <2>3, <3>1, <3>2, <3>3, <3>4
  <2>19. CASE LeaseDropped(q, o)
    BY <1>3, <2>1, <2>2, <2>6, <2>10, <2>11, <2>16, <2>19, <2>13 DEF LeaseDropped, NoLease
  <2>20. CASE StepTaken(q, o)
    <3>1. /\ q.action = "apply" /\ lease.run = q.run /\ q.seq = lease.next
          /\ lease' = [run |-> lease.run, next |-> lease.next + 1, live |-> lease.live]
      BY <1>3, <2>20 DEF StepTaken
    <3>2. lease.run = job[s].run => lease.next = job[s].progress /\ job[s].state # "preparing"
      BY <1>5, <2>3, <2>5, <2>8, <3>1
    <3>3. QED
      BY <1>5, <2>2, <2>3, <2>6, <2>7, <2>11, <2>14, <2>15, <2>16, <3>1, <3>2
  <2>21. QED
    BY <1>2, <1>3, <2>17, <2>18, <2>19, <2>20 DEF OutcomeOK
<1>12. QED
  BY <1>6, <1>7, <1>8, <1>9, <1>10, <1>11 DEF Inv

-----------------------------------------------------------------------------
(* No backup was started.                                                    *)
LEMMA InitInv == Init => Inv
<1> SUFFICES ASSUME Init
             PROVE  Inv
  OBVIOUS
<1>1. Steps \in Nat \ {0, 1} /\ MaxRuns \in Nat /\ MaxFailures \in Nat /\ 0 \in 0..MaxRuns /\ 0 \in 0..Steps
  BY BackupAssumption
<1>2. /\ tab = [s \in Servers |-> "idle"] /\ job = [s \in Servers |-> NoJob]
      /\ call = [s \in Servers |-> NoCall] /\ late = {} /\ lease = NoLease
      /\ tabs = [r \in Runs |-> {}] /\ publications = <<>> /\ withdrawn = {}
      /\ runs = 0 /\ failures = 0
  BY DEF Init
<1>3. NoJob \in [run : 0..MaxRuns, progress : 0..Steps, state : States]
  BY <1>1 DEF NoJob, States
<1>4. NoCall \in Calls
  BY <1>1 DEF NoCall, Calls, Attempts
<1>5. NoLease \in Leases
  BY <1>1 DEF NoLease, Leases
<1>6. Typed
  BY <1>1, <1>2, <1>3, <1>4, <1>5 DEF Typed
<1>7. ToSet(publications) = {}
  BY <1>2 DEF ToSet
<1>8. RunsKnown /\ RequestsOK /\ CallsOfJobs /\ LateIsBehind /\ Finished
  BY <1>2, <1>7 DEF RunsKnown, RequestsOK, RequestOK, CallsOfJobs, CallOfJob, LateIsBehind, Finished, FinishedAt,
     NoJob, NoCall, NoLease, Resumable
<1>9. LeaseFits
  BY <1>2 DEF LeaseFits, LeaseFitsAt, Open, NoJob
<1>10. QED
  BY <1>6, <1>8, <1>9 DEF Inv

(* What becomes of a call whose attempt has come to something.               *)
LEMMA TriedCall ==
    ASSUME NEW c \in Calls, NEW attempt \in 0..Attempts,
           NEW reply \in Replies \cup {"none", "failed"}, NEW next \in 0..Steps
    PROVE  Tried(c, attempt, reply, next) \in Calls
  BY DEF Tried, Calls

LEMMA NextAttempt ==
    ASSUME Typed, NEW s \in Servers, NEW reply \in Replies, NEW next \in 0..Steps,
           \/ Again(s)
           \/ call' = [call EXCEPT ![s] = Tried(@, @.attempt, reply, next)]
           \/ call' = [call EXCEPT ![s] = Tried(@, @.attempt, "failed", 0)]
    PROVE  \E e \in Calls :
              /\ call' = [call EXCEPT ![s] = e]
              /\ e.action = call[s].action /\ e.run = call[s].run /\ e.seq = call[s].seq
              /\ (e.reply = reply /\ e.next = next) \/ e.reply \in {"none", "failed"}
<1>1. call[s] \in Calls /\ call[s].attempt \in 0..Attempts /\ 0 \in 0..Steps
  BY BackupAssumption DEF Typed, Calls
<1>2. ASSUME NEW attempt \in 0..Attempts, NEW r \in Replies \cup {"none", "failed"},
             NEW n \in 0..Steps, (r = reply /\ n = next) \/ r \in {"none", "failed"},
             call' = [call EXCEPT ![s] = Tried(call[s], attempt, r, n)]
      PROVE  \E e \in Calls :
                /\ call' = [call EXCEPT ![s] = e]
                /\ e.action = call[s].action /\ e.run = call[s].run /\ e.seq = call[s].seq
                /\ (e.reply = reply /\ e.next = next) \/ e.reply \in {"none", "failed"}
  <2> DEFINE e == Tried(call[s], attempt, r, n)
  <2>1. /\ e \in Calls /\ e.reply = r /\ e.next = n
        /\ e.action = call[s].action /\ e.run = call[s].run /\ e.seq = call[s].seq
    <3>1. e \in Calls
      BY <1>1, <1>2, TriedCall
    <3>2. QED
      BY <3>1 DEF Tried
  <2>2. call' = [call EXCEPT ![s] = e]
    BY <1>2
  <2> HIDE DEF e
  <2>3. QED
    BY <1>2, <2>1, <2>2
<1>3. CASE call' = [call EXCEPT ![s] = Tried(call[s], call[s].attempt, reply, next)]
  BY <1>1, <1>2, <1>3
<1>4. CASE call' = [call EXCEPT ![s] = Tried(call[s], call[s].attempt, "failed", 0)]
  BY <1>1, <1>2, <1>4
<1>5. CASE Again(s) /\ call[s].attempt < Attempts
  <2>1. call[s].attempt + 1 \in 0..Attempts
    BY <1>1, <1>5 DEF Attempts
  <2>2. call' = [call EXCEPT ![s] = Tried(call[s], call[s].attempt + 1, "none", 0)]
    BY <1>5 DEF Again
  <2>3. QED
    BY <1>1, <1>2, <2>1, <2>2
<1>6. CASE Again(s) /\ ~(call[s].attempt < Attempts)
  <2>1. call' = [call EXCEPT ![s] = Tried(call[s], call[s].attempt, "failed", 0)]
    BY <1>6 DEF Again
  <2>2. QED
    BY <1>4, <2>1
<1>7. QED
  BY <1>3, <1>4, <1>5, <1>6

(* The script answers a call, or handles a late request.                     *)
LEMMA HandleKeepsInv ==
    ASSUME Inv, NEW s \in Servers, Handle(s)
    PROVE  Inv'
<1>1. PICK o \in Outcomes(call[s]) :
         /\ Receive(o)
         /\ IF o.reply = "temporary"
            THEN Again(s)
            ELSE call' = [call EXCEPT ![s] = Tried(@, @.attempt, o.reply, o.next)]
  BY DEF Handle
<1>2. call[s].action # "none" /\ call[s] \in Calls /\ call \in [Servers -> Calls] /\ RequestOK(call[s])
  BY DEF Handle, Waiting, Inv, Typed, RequestsOK
<1>3. o.reply \in Replies /\ o.next \in 0..Steps
  BY <1>2, OutcomesAreOK DEF OutcomeOK, OutcomeTyped, Inv
<1>4. PICK e \in Calls :
         /\ call' = [call EXCEPT ![s] = e]
         /\ e.action = call[s].action /\ e.run = call[s].run /\ e.seq = call[s].seq
         /\ (e.reply = o.reply /\ e.next = o.next) \/ e.reply \in {"none", "failed"}
  <2>1. \/ Again(s)
        \/ call' = [call EXCEPT ![s] = Tried(call[s], call[s].attempt, o.reply, o.next)]
    BY <1>1
  <2>2. QED
    BY <1>3, <2>1, NextAttempt DEF Inv
<1>5. /\ call' \in [Servers -> Calls]
      /\ \A t \in Servers : t # s => call'[t] = call[t]
      /\ call'[s].action = call[s].action /\ call'[s].run = call[s].run /\ call'[s].seq = call[s].seq
      /\ \/ call'[s].reply = o.reply /\ call'[s].next = o.next
         \/ call'[s].reply \in {"none", "failed"}
  BY <1>2, <1>4
<1>6. UNCHANGED <<tab, job, withdrawn, runs>> /\ late' \subseteq late
  BY DEF Handle
<1>7. Requests(call[s])
  BY <1>2 DEF Requests
<1>8. QED
  BY <1>1, <1>5, <1>6, <1>7, ScriptKeepsInv

(* Fewer requests are on their way; the lease may run out.                   *)
LEMMA ForgettingKeepsInv ==
    ASSUME Inv, UNCHANGED <<tab, job, call, withdrawn, runs, tabs, publications, failures>>,
           late' \subseteq late,
           lease' = lease \/ (lease' = [lease EXCEPT !.live = FALSE] /\ ~BeginAsked(lease.run)')
    PROVE  Inv'
<1>1. lease \in Leases
  BY DEF Inv, Typed
<1>2. lease' \in Leases /\ lease'.run = lease.run /\ lease'.next = lease.next
  BY <1>1 DEF Leases
<1>3. Typed' /\ RunsKnown'
  BY <1>2 DEF Inv, Typed, RunsKnown
<1>4. RequestsOK' /\ CallsOfJobs' /\ LateIsBehind' /\ Finished'
  BY DEF Inv, RequestsOK, RequestOK, CallsOfJobs, CallOfJob, LateIsBehind, Finished, FinishedAt, Resumable
<1>5. \A r : BeginAsked(r)' => BeginAsked(r)
  BY DEF BeginAsked
<1>6. ASSUME NEW s \in Servers, Open(s), Granted(s), BeginAsked(job[s].run)'
      PROVE  lease'.run = job[s].run /\ lease'.live
  <2>1. lease.run = job[s].run /\ lease.live
    BY <1>5, <1>6 DEF Inv, LeaseFits, LeaseFitsAt
  <2>2. BeginAsked(lease.run)'
    <3>1. lease'.run = job'[s].run
      BY <1>2, <2>1
    <3>2. QED
      BY <1>6, <3>1
  <2>3. lease' = lease
    BY <2>2
  <2>4. QED
    BY <2>1, <2>3
<1>7. LeaseFits'
  BY <1>2, <1>6 DEF Inv, LeaseFits, LeaseFitsAt, Open, Granted, Resumable
<1>8. QED
  BY <1>3, <1>4, <1>7 DEF Inv

LEMMA HandleLateKeepsInv ==
    ASSUME Inv, NEW q \in late, HandleLate(q)
    PROVE  Inv'
<1>1. late' \subseteq late /\ UNCHANGED <<tab, job, call, withdrawn, runs>>
  BY DEF HandleLate
<1>2. CASE UNCHANGED <<script, failures>>
  BY <1>1, <1>2, ForgettingKeepsInv DEF script
<1>3. ASSUME NEW o \in Outcomes(q), Receive(o)
      PROVE  Inv'
  <2>1. Requests(q) /\ call' \in [Servers -> Calls]
    BY <1>1 DEF Requests, Inv, Typed
  <2>2. QED
    BY <1>1, <1>3, <2>1, ScriptKeepsInv
<1>4. QED
  BY <1>2, <1>3 DEF HandleLate

LEMMA ExpireLeaseKeepsInv ==
    ASSUME Inv, ExpireLease
    PROVE  Inv'
<1>1. ~BeginAsked(lease.run)'
  <2>1. lease'.run = lease.run
    BY DEF ExpireLease, Inv, Typed, Leases
  <2>2. \A q \in late' : ~(q.action = "begin" /\ q.run = lease.run)
    BY DEF ExpireLease
  <2>3. \A s \in Servers : ~(call'[s].action = "begin" /\ call'[s].run = lease.run)
    BY DEF ExpireLease
  <2>4. QED
    BY <2>1, <2>2, <2>3 DEF BeginAsked
<1>2. late' \subseteq late
  BY DEF ExpireLease
<1>3. QED
  BY <1>1, <1>2, ForgettingKeepsInv DEF ExpireLease

-----------------------------------------------------------------------------
(* A step of one server: what it must keep of its own job and call.          *)
LEMMA ServerKeepsInv ==
    ASSUME Inv, NEW s \in Servers, UNCHANGED script, Typed',
           \A t \in Servers : t # s => job'[t] = job[t] /\ call'[t] = call[t],
           withdrawn \subseteq withdrawn',
           runs' = runs \/ runs' = runs + 1,
           \A q \in late' :
              \/ q \in late
              \/ /\ call[s].action # "none" /\ q.action = call[s].action
                 /\ q.run = call[s].run /\ q.seq = call[s].seq,
           \/ job'[s].run \in {0, job[s].run}
           \/ job'[s].run = runs + 1 /\ runs' = runs + 1,
           job'[s].state # "none" => job'[s].run # 0,
           job'[s].run = job[s].run /\ job[s].run # 0 =>
              /\ job[s].progress <= job'[s].progress
              /\ job'[s].state = "preparing" => job[s].state = "preparing",
           RequestOK(call[s])', CallOfJob(s)', FinishedAt(s)', Open(s)' => LeaseFitsAt(s)'
    PROVE  Inv'
<1>1. /\ runs \in Nat /\ runs' \in Nat /\ runs <= runs' /\ runs' \in 0..MaxRuns /\ MaxRuns \in Nat
      /\ \A t \in Servers : /\ job[t].run \in Nat /\ job'[t].run \in Nat
                            /\ job[t].progress \in Nat /\ job'[t].progress \in Nat
  BY BackupAssumption DEF Inv, Typed
<1>2. lease' = lease /\ publications' = publications
  BY DEF script
<1>3. RunsKnown'
  <2>1. \A t \in Servers : job'[t].run <= runs' /\ (job'[t].state # "none" => job'[t].run # 0)
    BY <1>1 DEF Inv, RunsKnown
  <2>2. \A t \in Servers : t # s /\ job'[t].run = job'[s].run => job'[s].run = 0
    BY <1>1 DEF Inv, RunsKnown
  <2>3. \A t, u \in Servers : job'[t].run = job'[u].run /\ job'[t].run # 0 => t = u
    BY <2>2 DEF Inv, RunsKnown
  <2>4. lease.run <= runs' /\ \A r \in ToSet(publications) : r <= runs'
    <3>1. lease.run <= runs /\ lease.run \in Nat /\ \A r \in ToSet(publications) : r <= runs /\ r \in Nat
      BY PublishedIsLast DEF Inv, RunsKnown, Typed, Leases, Runs
    <3>2. QED
      BY <1>1, <3>1
  <2>5. QED
    BY <1>2, <2>1, <2>3, <2>4 DEF RunsKnown
<1>4. \A q : RequestOK(q) => RequestOK(q)'
  BY <1>1 DEF RequestOK
<1>5. RequestsOK'
  <2>1. \A q \in late' : RequestOK(q)' /\ q.action # "none"
    BY <1>4 DEF Inv, RequestsOK, RequestOK
  <2>2. \A t \in Servers : RequestOK(call[t])'
    BY <1>4 DEF Inv, RequestsOK, RequestOK
  <2>3. QED
    BY <2>1, <2>2 DEF RequestsOK, RequestOK
<1>6. CallsOfJobs' /\ Finished'
  BY <1>2 DEF Inv, CallsOfJobs, CallOfJob, Finished, FinishedAt, Resumable
<1>7. LateIsBehind'
  <2> SUFFICES ASSUME NEW q \in late', NEW t \in Servers, q.action = "apply", q.run = job'[t].run
               PROVE  job'[t].state # "preparing" /\ q.seq <= job'[t].progress
    BY DEF LateIsBehind
  <2>1. q.run \in 1..runs /\ q.seq \in Nat
    BY DEF Inv, RequestsOK, RequestOK
  <2>2. job[t].run = q.run /\ q.run # 0
    BY <1>1, <2>1 DEF Inv, RunsKnown
  <2>3. job[t].state # "preparing" /\ q.seq <= job[t].progress
    <3>1. CASE q \in late
      BY <2>2, <3>1 DEF Inv, LateIsBehind
    <3>2. CASE call[s].action = "apply" /\ q.run = call[s].run /\ q.seq = call[s].seq
      <4>1. Resumable(s) /\ q.run = job[s].run /\ q.seq = job[s].progress
        BY <3>2 DEF Inv, CallsOfJobs, CallOfJob
      <4>2. s = t
        BY <2>2, <4>1 DEF Inv, RunsKnown
      <4>3. QED
        BY <1>1, <4>1, <4>2 DEF Resumable
    <3>3. QED
      BY <3>1, <3>2
  <2>4. QED
    BY <1>1, <2>1, <2>2, <2>3
<1>8. LeaseFits'
  <2> SUFFICES ASSUME NEW t \in Servers, t # s, Open(t)'
               PROVE  LeaseFitsAt(t)'
    BY DEF LeaseFits
  <2>1. Open(t) /\ job'[t] = job[t] /\ call'[t] = call[t] /\ job[t].run # 0
    BY <1>2 DEF Open, Inv, RunsKnown
  <2>2. LeaseFitsAt(t)
    BY <2>1 DEF Inv, LeaseFits
  <2>3. Granted(t)' => Granted(t)
    BY <2>1 DEF Granted, Resumable
  <2>4. BeginAsked(job[t].run)' => BeginAsked(job[t].run)
    <3>1. ~(call'[s].action = "begin" /\ call'[s].run = job[t].run)
      <4>1. call'[s].action = "begin" => call'[s].run = job'[s].run
        BY DEF CallOfJob
      <4>2. job'[s].run # job'[t].run
        BY <1>3, <2>1 DEF RunsKnown
      <4>3. QED
        BY <2>1, <4>1, <4>2
    <3>2. QED
      BY <2>1, <3>1 DEF BeginAsked
  <2>5. QED
    BY <1>2, <2>1, <2>2, <2>3, <2>4 DEF LeaseFitsAt
<1>9. QED
  BY <1>3, <1>5, <1>6, <1>7, <1>8 DEF Inv

(* A request given up stays one that was sent.                               *)
LEMMA GivenUpIsKnown ==
    ASSUME Typed, NEW s \in Servers, GivenUp(s)
    PROVE  /\ late' \subseteq Calls
           /\ \A q \in late' :
                 \/ q \in late
                 \/ /\ call[s].action # "none" /\ q.action = call[s].action
                    /\ q.run = call[s].run /\ q.seq = call[s].seq
<1> DEFINE q0 == [call[s] EXCEPT !.attempt = 0]
<1>1. q0 \in Calls /\ q0.action = call[s].action /\ q0.run = call[s].run /\ q0.seq = call[s].seq
  <2>1. call[s] \in Calls /\ 0 \in 0..Attempts
    BY DEF Typed, Attempts
  <2>2. QED
    BY <2>1 DEF Calls
<1>2. late' = late \/ (call[s].action # "none" /\ late' = late \cup {q0})
  BY DEF GivenUp, Waiting
<1> HIDE DEF q0
<1>3. QED
  BY <1>1, <1>2 DEF Typed

LEMMA LoseAnswerKeepsInv ==
    ASSUME Inv, NEW s \in Servers, LoseAnswer(s)
    PROVE  Inv'
<1>1. GivenUp(s) /\ UNCHANGED <<tab, job, withdrawn, runs, script>>
  BY DEF LoseAnswer
<1>2. PICK e \in Calls :
         /\ call' = [call EXCEPT ![s] = e]
         /\ e.action = call[s].action /\ e.run = call[s].run /\ e.seq = call[s].seq
         /\ e.reply \in {"busy", "none", "failed"}
  <2>1. Again(s) \/ call' = [call EXCEPT ![s] = Tried(@, @.attempt, "failed", 0)]
    BY DEF LoseAnswer
  <2>2. "busy" \in Replies /\ 0 \in 0..Steps
    BY BackupAssumption DEF Replies
  <2>3. QED
    BY <2>1, <2>2, NextAttempt DEF Inv
<1>3. /\ late' \subseteq Calls
      /\ \A q \in late' :
            \/ q \in late
            \/ /\ call[s].action # "none" /\ q.action = call[s].action
               /\ q.run = call[s].run /\ q.seq = call[s].seq
  BY <1>1, GivenUpIsKnown DEF Inv
<1>4. failures' \in Nat
  BY DEF LoseAnswer, Fails, Cost, Inv, Typed
<1>5. Typed'
  BY <1>1, <1>2, <1>3, <1>4 DEF Inv, Typed, script
<1>6. call'[s] = e /\ \A t \in Servers : t # s => call'[t] = call[t]
  BY <1>2 DEF Inv, Typed
<1>7. job[s].run # 0 => job[s].progress <= job[s].progress
  BY BackupAssumption DEF Inv, Typed
<1>8. RequestOK(call[s])'
  BY <1>1, <1>2, <1>6 DEF Inv, RequestsOK, RequestOK
<1>9. CallOfJob(s)'
  BY <1>1, <1>2, <1>6 DEF Inv, CallsOfJobs, CallOfJob, Resumable
<1>10. FinishedAt(s)'
  BY <1>1, <1>2, <1>6 DEF Inv, Finished, FinishedAt, script
<1>11. ASSUME Open(s)'
       PROVE  LeaseFitsAt(s)'
  <2>1. Open(s) /\ LeaseFitsAt(s)
    BY <1>1, <1>11 DEF Open, Inv, LeaseFits, script
  <2>2. Granted(s)' => Granted(s)
    BY <1>1, <1>2, <1>6 DEF Granted, Resumable
  <2>3. BeginAsked(job[s].run)' => BeginAsked(job[s].run)
    BY <1>1, <1>2, <1>3, <1>6 DEF BeginAsked
  <2>4. QED
    BY <1>1, <1>2, <1>6, <2>1, <2>2, <2>3 DEF LeaseFitsAt, script
<1>12. job[s].state # "none" => job[s].run # 0
  BY DEF Inv, RunsKnown
<1>13. QED
  BY <1>1, <1>3, <1>5, <1>6, <1>7, <1>8, <1>9, <1>10, <1>11, <1>12, ServerKeepsInv

(* A fresh run has a number no other backup has.                             *)
LEMMA PressStartKeepsInv ==
    ASSUME Inv, NEW s \in Servers, PressStart(s)
    PROVE  Inv'
<1> DEFINE j == [run |-> runs + 1, progress |-> 0, state |-> "preparing"]
           c == [action |-> "begin", run |-> runs + 1, seq |-> 0, attempt |-> 1,
                 reply |-> "none", next |-> 0]
<1>1. /\ runs \in Nat /\ runs + 1 \in Runs /\ runs + 1 \in 0..MaxRuns /\ runs + 1 \in 1..(runs + 1)
      /\ 0 \in 0..Steps /\ 1 \in 0..Attempts
  BY BackupAssumption DEF PressStart, Inv, Typed, Runs, Attempts
<1>2. /\ job' = [job EXCEPT ![s] = j] /\ call' = [call EXCEPT ![s] = c]
      /\ runs' = runs + 1 /\ UNCHANGED <<late, withdrawn, script, failures>>
      /\ tab' = [tab EXCEPT ![s] = "running"]
  BY DEF PressStart, Request
<1>3. j \in [run : 0..MaxRuns, progress : 0..Steps, state : States] /\ c \in Calls
  BY <1>1 DEF States, Calls
<1>4. j.run = runs + 1 /\ j.progress = 0 /\ j.state = "preparing"
      /\ c.action = "begin" /\ c.run = runs + 1 /\ c.reply = "none"
  OBVIOUS
<1> HIDE DEF j, c
<1>5. Typed'
  BY <1>1, <1>2, <1>3 DEF Inv, Typed, script
<1>6. /\ job'[s] = j /\ call'[s] = c
      /\ \A t \in Servers : t # s => job'[t] = job[t] /\ call'[t] = call[t]
  BY <1>2 DEF Inv, Typed
<1>7. job[s].run # runs + 1 /\ lease.run # runs + 1
  BY <1>1 DEF Inv, Typed, RunsKnown, Leases
<1>8. RequestOK(call[s])' /\ CallOfJob(s)' /\ FinishedAt(s)'
  BY <1>1, <1>2, <1>4, <1>6 DEF RequestOK, CallOfJob, FinishedAt, Resumable
<1>9. LeaseFitsAt(s)'
  BY <1>2, <1>4, <1>6, <1>7 DEF LeaseFitsAt, Granted, Resumable, script
<1>10. j.state # "none" => j.run # 0
  BY <1>1, <1>4
<1>11. job'[s].run # job[s].run /\ job'[s].run = runs + 1
  BY <1>4, <1>6, <1>7
<1>12. QED
  BY <1>2, <1>5, <1>6, <1>8, <1>9, <1>10, <1>11, ServerKeepsInv

(* Retry and Cancel are the tab's alone.                                     *)
LEMMA TabKeepsInv ==
    ASSUME Inv, NEW s \in Servers, PressRetry(s) \/ PressCancel(s)
    PROVE  Inv'
<1>1. tab' \in [Servers -> {"idle", "running", "cancelling"}]
  BY DEF PressRetry, PressCancel, Inv, Typed
<1>2. UNCHANGED <<job, call, late, withdrawn, runs, lease, tabs, publications, failures>>
  BY DEF PressRetry, PressCancel, server, script
<1>3. Typed' /\ RunsKnown' /\ RequestsOK' /\ CallsOfJobs' /\ LateIsBehind' /\ Finished'
  BY <1>1, <1>2 DEF Inv, Typed, RunsKnown, RequestsOK, RequestOK, CallsOfJobs, CallOfJob, LateIsBehind,
     Finished, FinishedAt, Resumable
<1>4. LeaseFits'
  BY <1>2 DEF Inv, LeaseFits, LeaseFitsAt, Open, Granted, BeginAsked, Resumable
<1>5. QED
  BY <1>3, <1>4 DEF Inv

(* What the fields of a server's job and call can be.                        *)
LEMMA Fields ==
    ASSUME Inv, NEW s \in Servers
    PROVE  /\ job[s].run \in 0..MaxRuns /\ job[s].progress \in 0..Steps /\ job[s].state \in States
           /\ job[s].progress \in Nat /\ Steps \in Nat /\ 0 \in 0..Steps /\ 0 \in 0..MaxRuns
           /\ job[s].state # "none" => job[s].run # 0 /\ job[s].run \in 1..runs /\ job[s].run \in Runs
           /\ NoJob \in [run : 0..MaxRuns, progress : 0..Steps, state : States] /\ NoCall \in Calls
           /\ CallOfJob(s) /\ FinishedAt(s) /\ (Open(s) => LeaseFitsAt(s))
<1>1. /\ job[s] \in [run : 0..MaxRuns, progress : 0..Steps, state : States]
      /\ Steps \in Nat /\ MaxRuns \in Nat /\ runs \in 0..MaxRuns
  BY BackupAssumption DEF Inv, Typed
<1>2. job[s].run <= runs /\ (job[s].state # "none" => job[s].run # 0)
  BY DEF Inv, RunsKnown
<1>3. job[s].state # "none" => job[s].run # 0 /\ job[s].run \in 1..runs /\ job[s].run \in Runs
  BY <1>1, <1>2 DEF Runs
<1>4. NoJob \in [run : 0..MaxRuns, progress : 0..Steps, state : States] /\ NoCall \in Calls
  BY <1>1 DEF NoJob, NoCall, States, Calls, Attempts
<1>5. CallOfJob(s) /\ FinishedAt(s) /\ (Open(s) => LeaseFitsAt(s))
  BY DEF Inv, CallsOfJobs, Finished, LeaseFits
<1>6. QED
  BY <1>1, <1>3, <1>4, <1>5

(* A job in another state.                                                   *)
LEMMA JobInState ==
    ASSUME Inv, NEW s \in Servers, NEW state \in States, job' = [job EXCEPT ![s].state = state]
    PROVE  /\ job' \in [Servers -> [run : 0..MaxRuns, progress : 0..Steps, state : States]]
           /\ \A t \in Servers : t # s => job'[t] = job[t]
           /\ job'[s].run = job[s].run /\ job'[s].progress = job[s].progress
           /\ job'[s].state = state
<1>1. job \in [Servers -> [run : 0..MaxRuns, progress : 0..Steps, state : States]]
  BY DEF Inv, Typed
<1>2. QED
  BY <1>1

LEMMA RequestTyped ==
    ASSUME NEW action \in {"abort", "apply"}, NEW run \in Runs, NEW seq \in 0..Steps
    PROVE  /\ Request(action, run, seq) \in Calls
           /\ Request(action, run, seq).action = action /\ Request(action, run, seq).run = run
           /\ Request(action, run, seq).seq = seq /\ Request(action, run, seq).reply = "none"
<1>1. 0 \in 0..Steps /\ 1 \in 0..Attempts /\ run \in 0..MaxRuns
  BY BackupAssumption DEF Attempts, Runs
<1>2. QED
  BY <1>1 DEF Request, Calls

(* A job whose begin was refused, or whose export failed, is given up.       *)
LEMMA AbandonKeepsInv ==
    ASSUME Inv, NEW s \in Servers, Abandon(s), job[s].state = "preparing",
           failures' \in Nat, UNCHANGED <<tab, late, runs, script>>
    PROVE  Inv'
<1> DEFINE c == Request("abort", job[s].run, 0)
<1>1. job[s].run \in Runs /\ job[s].run \in 1..runs /\ 0 \in 0..Steps
      /\ NoJob \in [run : 0..MaxRuns, progress : 0..Steps, state : States]
  BY Fields
<1>2. c \in Calls /\ c.action = "abort" /\ c.run = job[s].run /\ c.reply = "none"
  BY <1>1, RequestTyped
<1>3. /\ job' = [job EXCEPT ![s] = NoJob] /\ call' = [call EXCEPT ![s] = c]
      /\ withdrawn' = withdrawn \cup {job[s].run}
  BY DEF Abandon, Withdraw
<1> HIDE DEF c
<1>4. Typed'
  BY <1>1, <1>2, <1>3 DEF Inv, Typed, script
<1>5. /\ job'[s] = NoJob /\ call'[s] = c
      /\ \A t \in Servers : t # s => job'[t] = job[t] /\ call'[t] = call[t]
  BY <1>3 DEF Inv, Typed
<1>6. job'[s].run = 0 /\ job'[s].state = "none"
  BY <1>5 DEF NoJob
<1>7. RequestOK(call[s])' /\ CallOfJob(s)' /\ FinishedAt(s)' /\ ~Open(s)'
  BY <1>1, <1>2, <1>3, <1>5, <1>6 DEF RequestOK, CallOfJob, FinishedAt, Resumable, Open
<1>8. QED
  BY <1>3, <1>4, <1>5, <1>6, <1>7, ServerKeepsInv

LEMMA BeginAnsweredKeepsInv ==
    ASSUME Inv, NEW s \in Servers, BeginAnswered(s)
    PROVE  Inv'
<1>1. call[s].action = "begin" /\ job[s].state = "preparing" /\ call[s].run = job[s].run
  BY Fields DEF BeginAnswered, CallOfJob
<1>2. CASE call[s].reply # "next" /\ Abandon(s)
  BY <1>1, <1>2, AbandonKeepsInv DEF BeginAnswered, Inv, Typed
<1>3. CASE call[s].reply = "next" /\ call' = [call EXCEPT ![s] = NoCall] /\ UNCHANGED <<job, withdrawn>>
  <2>1. UNCHANGED <<tab, late, runs, script, failures>>
    BY DEF BeginAnswered
  <2>2. Typed'
    <3>1. NoCall \in Calls
      BY Fields
    <3>2. QED
      BY <1>3, <2>1, <3>1 DEF Inv, Typed, script
  <2>3. call'[s] = NoCall /\ \A t \in Servers : t # s => call'[t] = call[t]
    BY <1>3 DEF Inv, Typed
  <2>4. RequestOK(call[s])' /\ CallOfJob(s)' /\ FinishedAt(s)'
    BY <1>1, <1>3, <2>1, <2>3, Fields DEF RequestOK, CallOfJob, FinishedAt, NoCall, Resumable, script
  <2>5. ASSUME Open(s)'
        PROVE  LeaseFitsAt(s)'
    <3>1. Open(s) /\ LeaseFitsAt(s)
      BY <1>3, <2>1, <2>5, Fields DEF Open, script
    <3>2. Granted(s)
      BY <1>1, <1>3 DEF Granted
    <3>3. BeginAsked(job[s].run)' => BeginAsked(job[s].run)
      BY <1>3, <2>1, <2>3 DEF BeginAsked, NoCall
    <3>4. QED
      BY <1>3, <2>1, <2>3, <3>1, <3>2, <3>3 DEF LeaseFitsAt, NoCall, script
  <2>6. job[s].run # 0 /\ job[s].progress <= job[s].progress
    BY <1>1, Fields
  <2>7. QED
    BY <1>3, <2>1, <2>2, <2>3, <2>4, <2>5, <2>6, ServerKeepsInv
<1>4. QED
  BY <1>2, <1>3 DEF BeginAnswered

LEMMA BuildKeepsInv ==
    ASSUME Inv, NEW s \in Servers, Build(s)
    PROVE  Inv'
<1>1. job[s].state = "preparing" /\ call[s] = NoCall /\ UNCHANGED <<tab, late, runs, script>>
  BY DEF Build
<1>2. CASE Fails(1) /\ Abandon(s)
  <2>1. failures' \in Nat
    BY <1>2 DEF Fails, Inv, Typed
  <2>2. QED
    BY <1>1, <1>2, <2>1, AbandonKeepsInv
<1>3. CASE job' = [job EXCEPT ![s].state = "running"] /\ UNCHANGED <<call, withdrawn, failures>>
  <2>1. /\ job' \in [Servers -> [run : 0..MaxRuns, progress : 0..Steps, state : States]]
        /\ job'[s].run = job[s].run /\ job'[s].progress = job[s].progress /\ job'[s].state = "running"
        /\ \A t \in Servers : t # s => job'[t] = job[t]
    BY <1>3, JobInState DEF States
  <2>4. Typed'
    BY <1>1, <1>3, <2>1 DEF Inv, Typed, script
  <2>5. job[s].progress = 0 /\ Publishing \in Nat
    <3>1. CallOfJob(s)
      BY Fields
    <3>2. QED
      BY <1>1, <3>1, BackupAssumption DEF CallOfJob, Publishing
  <2>6. RequestOK(call[s])' /\ CallOfJob(s)' /\ FinishedAt(s)'
    BY <1>1, <1>3, <2>1, <2>5 DEF RequestOK, CallOfJob, FinishedAt, NoCall, Resumable
  <2>7. ASSUME Open(s)'
        PROVE  LeaseFitsAt(s)'
    <3>1. Open(s) /\ LeaseFitsAt(s)
      BY <1>1, <1>3, <2>1, <2>7, Fields DEF Open, script
    <3>2. Granted(s)
      BY <1>1 DEF Granted, NoCall
    <3>3. BeginAsked(job[s].run)' => BeginAsked(job[s].run)
      BY <1>1, <1>3, <2>1 DEF BeginAsked
    <3>4. QED
      BY <1>1, <1>3, <2>1, <3>1, <3>2, <3>3 DEF LeaseFitsAt, NoCall, script
  <2>8. job[s].run # 0 /\ job[s].progress <= job'[s].progress
    BY <1>1, <2>1, Fields
  <2>9. QED
    BY <1>1, <1>3, <2>1, <2>4, <2>6, <2>7, <2>8, ServerKeepsInv
<1>4. QED
  BY <1>2, <1>3 DEF Build

LEMMA AdvanceKeepsInv ==
    ASSUME Inv, NEW s \in Servers, Advance(s)
    PROVE  Inv'
<1> DEFINE c == Request("apply", job[s].run, job[s].progress)
<1>1. Resumable(s) /\ call[s] = NoCall /\ UNCHANGED <<tab, job, late, withdrawn, runs, script, failures>>
  BY DEF Advance
<1>2. /\ job[s].run \in Runs /\ job[s].run \in 1..runs /\ job[s].run # 0 /\ CallOfJob(s)
      /\ job[s].progress \in 0..Steps /\ job[s].progress \in Nat
  BY <1>1, Fields DEF Resumable
<1>3. job[s].progress \in 0..Publishing
  <2>1. job[s].progress <= Publishing /\ Publishing \in Nat
    BY <1>1, <1>2, BackupAssumption DEF CallOfJob, Publishing
  <2>2. QED
    BY <1>2, <2>1
<1>4. c \in Calls /\ c.action = "apply" /\ c.run = job[s].run /\ c.seq = job[s].progress /\ c.reply = "none"
  BY <1>2, RequestTyped
<1>5. call' = [call EXCEPT ![s] = c]
  BY DEF Advance
<1> HIDE DEF c
<1>6. call'[s] = c /\ \A t \in Servers : t # s => call'[t] = call[t]
  BY <1>5 DEF Inv, Typed
<1>7. Typed'
  BY <1>1, <1>4, <1>5 DEF Inv, Typed, script
<1>8. RequestOK(call[s])'
  BY <1>1, <1>2, <1>3, <1>4, <1>6 DEF RequestOK
<1>9. CallOfJob(s)' /\ FinishedAt(s)'
  <2>1. FinishedAt(s)
    BY Fields
  <2>2. QED
    BY <1>1, <1>2, <1>4, <1>6, <2>1 DEF CallOfJob, FinishedAt, Resumable, script
<1>10. ASSUME Open(s)'
       PROVE  LeaseFitsAt(s)'
  <2>1. Open(s)
    BY <1>1, <1>10 DEF Open, script
  <2>2. LeaseFitsAt(s)
    BY <2>1, Fields
  <2>3. BeginAsked(job[s].run)' => BeginAsked(job[s].run)
    BY <1>1, <1>4, <1>6 DEF BeginAsked
  <2>4. QED
    BY <1>1, <1>4, <1>6, <2>2, <2>3 DEF LeaseFitsAt, Granted, Resumable, script
<1>11. QED
  BY <1>1, <1>2, <1>6, <1>7, <1>8, <1>9, <1>10, ServerKeepsInv

(* A confirmed step moves the job to where the script already is.            *)
LEMMA AdvanceAnsweredKeepsInv ==
    ASSUME Inv, NEW s \in Servers, AdvanceAnswered(s)
    PROVE  Inv'
<1>1. /\ call[s].action = "apply" /\ call' = [call EXCEPT ![s] = NoCall]
      /\ UNCHANGED <<late, withdrawn, runs, script, failures>>
  BY DEF AdvanceAnswered
<1>2. /\ job[s].run \in 0..MaxRuns /\ job[s].progress \in 0..Steps /\ job[s].progress \in Nat
      /\ CallOfJob(s) /\ FinishedAt(s) /\ (Open(s) => LeaseFitsAt(s)) /\ NoCall \in Calls
  BY Fields
<1>3. Resumable(s) /\ call[s].run = job[s].run /\ call[s].seq = job[s].progress
      /\ job[s].progress <= Publishing /\ Publishing \in Nat /\ Publishing + 1 = Steps
  BY <1>1, <1>2, BackupAssumption DEF CallOfJob, Publishing
<1>4. job[s].run # 0
  BY <1>3, Fields DEF Resumable
<1>5. tab' \in [Servers -> {"idle", "running", "cancelling"}]
  BY DEF AdvanceAnswered, Inv, Typed
<1>6. call'[s] = NoCall /\ \A t \in Servers : t # s => call'[t] = call[t]
  BY <1>1 DEF Inv, Typed
<1>7. RequestOK(call[s])' /\ call'[s].action = "none" /\ call'[s].reply = "none"
  BY <1>6 DEF RequestOK, NoCall
<1>8. BeginAsked(job[s].run)' /\ job'[s].run = job[s].run => BeginAsked(job[s].run)
  BY <1>1, <1>6 DEF BeginAsked, NoCall
<1>9. Granted(s)
  BY <1>3 DEF Granted
<1>10. CASE Confirmed(s) /\ job' = [job EXCEPT ![s] = Acknowledged(s)]
  <2> DEFINE last == job[s].progress = Publishing
             j == [run |-> job[s].run, progress |-> job[s].progress + 1,
                   state |-> IF last THEN "complete" ELSE "running"]
  <2>1. j \in [run : 0..MaxRuns, progress : 0..Steps, state : States]
    BY <1>2, <1>3 DEF States
  <2>2. Acknowledged(s) = j
    BY DEF Acknowledged
  <2>3. /\ j.run = job[s].run /\ j.progress = job[s].progress + 1
        /\ j.state = IF last THEN "complete" ELSE "running"
    OBVIOUS
  <2> HIDE DEF j
  <2>4. job'[s] = j /\ \A t \in Servers : t # s => job'[t] = job[t]
    BY <1>10, <2>2 DEF Inv, Typed
  <2>5. Typed'
    BY <1>1, <1>2, <1>5, <1>10, <2>1, <2>2 DEF Inv, Typed, script
  <2>6. last => job[s].run \in ToSet(publications)
    BY <1>1, <1>2, <1>3, <1>10 DEF Confirmed, FinishedAt
  <2>7. CallOfJob(s)' /\ FinishedAt(s)'
    BY <1>1, <1>2, <1>3, <1>7, <2>3, <2>4, <2>6 DEF CallOfJob, FinishedAt, Resumable, script
  <2>8. ASSUME Open(s)'
        PROVE  LeaseFitsAt(s)'
    <3>1. Open(s) /\ job[s].run \notin ToSet(publications)
      BY <1>1, <1>3, <2>3, <2>4, <2>8 DEF Open, Resumable, script
    <3>2. LeaseFitsAt(s)
      BY <1>2, <3>1
    <3>3. call[s].reply = "next" /\ call[s].next = job[s].progress + 1
      BY <1>1, <1>2, <1>3, <1>10, <3>1 DEF Confirmed, FinishedAt
    <3>4. lease.run = job[s].run => lease.next = job[s].progress + 1
      BY <1>1, <1>2, <3>2, <3>3 DEF LeaseFitsAt
    <3>5. QED
      BY <1>1, <1>2, <1>7, <1>8, <1>9, <2>3, <2>4, <3>2, <3>4 DEF LeaseFitsAt, script
  <2>9. job[s].progress <= job'[s].progress /\ job'[s].state # "preparing" /\ job'[s].run = job[s].run
    BY <1>2, <2>3, <2>4
  <2>10. QED
    BY <1>1, <1>4, <1>6, <1>7, <2>4, <2>5, <2>7, <2>8, <2>9, ServerKeepsInv
<1>11. ASSUME NEW state \in {job[s].state, "interrupted"}, job' = [job EXCEPT ![s].state = state]
       PROVE  Inv'
  <2>1. /\ job' \in [Servers -> [run : 0..MaxRuns, progress : 0..Steps, state : States]]
        /\ job'[s].run = job[s].run /\ job'[s].progress = job[s].progress /\ job'[s].state = state
        /\ \A t \in Servers : t # s => job'[t] = job[t]
    <3>1. state \in States
      BY <1>11, Fields DEF States
    <3>2. QED
      BY <1>11, <3>1, JobInState
  <2>2. state \in {"running", "interrupted"}
    BY <1>3, <1>11 DEF Resumable
  <2>3. Typed'
    BY <1>1, <1>2, <1>5, <2>1 DEF Inv, Typed, script
  <2>4. CallOfJob(s)' /\ FinishedAt(s)'
    BY <1>1, <1>3, <1>7, <2>1, <2>2 DEF CallOfJob, FinishedAt, Resumable
  <2>5. ASSUME Open(s)'
        PROVE  LeaseFitsAt(s)'
    <3>1. LeaseFitsAt(s)
      BY <1>1, <1>2, <1>3, <2>1, <2>5 DEF Open, Resumable, script
    <3>2. QED
      BY <1>1, <1>3, <1>7, <1>8, <1>9, <2>1, <2>2, <3>1 DEF LeaseFitsAt, Resumable, script
  <2>6. job[s].progress <= job'[s].progress /\ job'[s].state # "preparing"
    BY <1>2, <2>1, <2>2
  <2>7. QED
    BY <1>1, <1>4, <1>6, <1>7, <2>1, <2>2, <2>3, <2>4, <2>5, <2>6, ServerKeepsInv
<1>12. QED
  BY <1>10, <1>11 DEF AdvanceAnswered

LEMMA CancelKeepsInv ==
    ASSUME Inv, NEW s \in Servers, Cancel(s)
    PROVE  Inv'
<1> DEFINE c == Request("abort", job[s].run, 0)
<1>1. Resumable(s) /\ call[s] = NoCall /\ UNCHANGED <<tab, job, late, runs, script, failures>>
  BY DEF Cancel
<1>2. /\ job[s].run \in Runs /\ job[s].run \in 1..runs /\ job[s].run # 0 /\ 0 \in 0..Steps
      /\ job[s].progress <= job[s].progress /\ CallOfJob(s) /\ FinishedAt(s)
  BY <1>1, Fields DEF Resumable
<1>3. c \in Calls /\ c.action = "abort" /\ c.run = job[s].run /\ c.reply = "none"
  BY <1>2, RequestTyped
<1>4. call' = [call EXCEPT ![s] = c] /\ withdrawn' = withdrawn \cup {job[s].run}
  BY DEF Cancel, Withdraw
<1> HIDE DEF c
<1>5. call'[s] = c /\ \A t \in Servers : t # s => call'[t] = call[t]
  BY <1>4 DEF Inv, Typed
<1>6. Typed'
  BY <1>1, <1>2, <1>3, <1>4 DEF Inv, Typed, script
<1>7. RequestOK(call[s])' /\ ~Open(s)'
  BY <1>1, <1>2, <1>3, <1>4, <1>5 DEF RequestOK, Open
<1>8. CallOfJob(s)' /\ FinishedAt(s)'
  BY <1>1, <1>2, <1>3, <1>5 DEF CallOfJob, FinishedAt, Resumable, script
<1>9. QED
  BY <1>1, <1>2, <1>4, <1>5, <1>6, <1>7, <1>8, ServerKeepsInv

LEMMA AbortAnsweredKeepsInv ==
    ASSUME Inv, NEW s \in Servers, AbortAnswered(s)
    PROVE  Inv'
<1>1. /\ call[s].action = "abort" /\ call' = [call EXCEPT ![s] = NoCall]
      /\ UNCHANGED <<late, withdrawn, runs, script, failures>>
  BY DEF AbortAnswered
<1>2. PICK state \in States :
         /\ job' = [job EXCEPT ![s].state = state]
         /\ state = job[s].state \/ (state = "cancelled" /\ job[s].state # "none")
  <2> DEFINE after == IF call[s].reply = "cancelled" /\ job[s].state # "none"
                      THEN "cancelled" ELSE job[s].state
  <2>1. job' = [job EXCEPT ![s].state = after]
    BY DEF AbortAnswered
  <2>2. after \in States
    BY Fields DEF States
  <2>3. after = job[s].state \/ (after = "cancelled" /\ job[s].state # "none")
    OBVIOUS
  <2> HIDE DEF after
  <2>4. QED
    BY <2>1, <2>2, <2>3
<1>3. /\ job' \in [Servers -> [run : 0..MaxRuns, progress : 0..Steps, state : States]]
      /\ job'[s].run = job[s].run /\ job'[s].progress = job[s].progress /\ job'[s].state = state
      /\ \A t \in Servers : t # s => job'[t] = job[t]
  BY <1>2, JobInState
<1>4. /\ CallOfJob(s) /\ FinishedAt(s) /\ (Open(s) => LeaseFitsAt(s)) /\ NoCall \in Calls
      /\ job[s].progress \in Nat /\ (job[s].state # "none" => job[s].run # 0)
  BY Fields
<1>5. tab' \in [Servers -> {"idle", "running", "cancelling"}]
  BY DEF AbortAnswered, Inv, Typed
<1>6. call'[s] = NoCall /\ \A t \in Servers : t # s => call'[t] = call[t]
  BY <1>1 DEF Inv, Typed
<1>7. RequestOK(call[s])' /\ call'[s].action = "none" /\ call'[s].reply = "none"
  BY <1>6 DEF RequestOK, NoCall
<1>8. Typed'
  BY <1>1, <1>3, <1>4, <1>5 DEF Inv, Typed, script
<1>9. job'[s].state # "preparing"
  BY <1>1, <1>2, <1>3, <1>4 DEF CallOfJob
<1>10. CallOfJob(s)' /\ FinishedAt(s)'
  BY <1>1, <1>2, <1>3, <1>4, <1>7, <1>9 DEF CallOfJob, FinishedAt, Resumable, script
<1>11. ASSUME Open(s)'
       PROVE  LeaseFitsAt(s)'
  <2>1. state = job[s].state /\ Open(s)
    BY <1>1, <1>2, <1>3, <1>11 DEF Open, script
  <2>2. Granted(s)
    BY <1>9, <2>1, <1>3 DEF Granted, Open, Resumable
  <2>3. BeginAsked(job[s].run)' => BeginAsked(job[s].run)
    BY <1>1, <1>3, <1>6, <1>7 DEF BeginAsked
  <2>4. QED
    BY <1>1, <1>3, <1>4, <1>7, <1>9, <2>1, <2>2, <2>3 DEF LeaseFitsAt, script
<1>12. job'[s].state # "none" => job'[s].run # 0
  BY <1>2, <1>3, <1>4
<1>13. job[s].progress <= job'[s].progress
  BY <1>3, <1>4
<1>14. QED
  BY <1>1, <1>3, <1>6, <1>7, <1>8, <1>9, <1>10, <1>11, <1>12, <1>13, ServerKeepsInv

LEMMA RestartKeepsInv ==
    ASSUME Inv, NEW s \in Servers, Restart(s)
    PROVE  Inv'
<1>1. /\ GivenUp(s) /\ UNCHANGED <<withdrawn, runs, script>> /\ failures' \in Nat
      /\ job' = [job EXCEPT ![s] = NoJob] /\ call' = [call EXCEPT ![s] = NoCall]
      /\ tab' = [tab EXCEPT ![s] = "idle"]
  BY DEF Restart, Fails, Inv, Typed
<1>2. NoJob \in [run : 0..MaxRuns, progress : 0..Steps, state : States] /\ NoCall \in Calls
  BY Fields
<1>3. /\ late' \subseteq Calls
      /\ \A q \in late' :
            \/ q \in late
            \/ /\ call[s].action # "none" /\ q.action = call[s].action
               /\ q.run = call[s].run /\ q.seq = call[s].seq
  BY <1>1, GivenUpIsKnown DEF Inv
<1>4. Typed'
  BY <1>1, <1>2, <1>3 DEF Inv, Typed, script
<1>5. /\ job'[s] = NoJob /\ call'[s] = NoCall
      /\ \A t \in Servers : t # s => job'[t] = job[t] /\ call'[t] = call[t]
  BY <1>1 DEF Inv, Typed
<1>6. job'[s].run = 0 /\ job'[s].state = "none"
  BY <1>5 DEF NoJob
<1>7. RequestOK(call[s])' /\ CallOfJob(s)' /\ FinishedAt(s)' /\ ~Open(s)'
  BY <1>5, <1>6 DEF RequestOK, CallOfJob, FinishedAt, Resumable, Open, NoCall
<1>8. QED
  BY <1>1, <1>3, <1>4, <1>5, <1>6, <1>7, ServerKeepsInv

-----------------------------------------------------------------------------
(* The theorems.                                                             *)
LEMMA NextKeepsInv == Inv /\ [Next]_vars => Inv'
<1> SUFFICES ASSUME Inv, [Next]_vars
             PROVE  Inv'
  OBVIOUS
<1>1. CASE UNCHANGED vars
  <2>1. /\ UNCHANGED <<tab, job, call, withdrawn, runs, tabs, publications, failures>>
        /\ late' \subseteq late /\ lease' = lease
    BY <1>1 DEF vars, server, script
  <2>2. QED
    BY <2>1, ForgettingKeepsInv
<1>2. ASSUME NEW s \in Servers, PressStart(s)
      PROVE  Inv'
  BY <1>2, PressStartKeepsInv
<1>3. ASSUME NEW s \in Servers, PressRetry(s) \/ PressCancel(s)
      PROVE  Inv'
  BY <1>3, TabKeepsInv
<1>4. ASSUME NEW s \in Servers, BeginAnswered(s)
      PROVE  Inv'
  BY <1>4, BeginAnsweredKeepsInv
<1>5. ASSUME NEW s \in Servers, Build(s)
      PROVE  Inv'
  BY <1>5, BuildKeepsInv
<1>6. ASSUME NEW s \in Servers, Advance(s)
      PROVE  Inv'
  BY <1>6, AdvanceKeepsInv
<1>7. ASSUME NEW s \in Servers, AdvanceAnswered(s)
      PROVE  Inv'
  BY <1>7, AdvanceAnsweredKeepsInv
<1>8. ASSUME NEW s \in Servers, Cancel(s)
      PROVE  Inv'
  BY <1>8, CancelKeepsInv
<1>9. ASSUME NEW s \in Servers, AbortAnswered(s)
      PROVE  Inv'
  BY <1>9, AbortAnsweredKeepsInv
<1>10. ASSUME NEW s \in Servers, Handle(s)
       PROVE  Inv'
  BY <1>10, HandleKeepsInv
<1>11. ASSUME NEW s \in Servers, LoseAnswer(s)
       PROVE  Inv'
  BY <1>11, LoseAnswerKeepsInv
<1>12. ASSUME NEW s \in Servers, Restart(s)
       PROVE  Inv'
  BY <1>12, RestartKeepsInv
<1>13. ASSUME NEW q \in late, HandleLate(q)
       PROVE  Inv'
  BY <1>13, HandleLateKeepsInv
<1>14. CASE ExpireLease
  BY <1>14, ExpireLeaseKeepsInv
<1>15. QED
  BY <1>1, <1>2, <1>3, <1>4, <1>5, <1>6, <1>7, <1>8, <1>9, <1>10, <1>11, <1>12, <1>13, <1>14 DEF Next

(* The invariant of the backups: what the tabs, the jobs, the requests on    *)
(* their way and the script know of each other.                              *)
THEOREM BackupInvariant == Spec => []Inv
<1>1. Init => Inv
  BY InitInv
<1>2. Inv /\ [Next]_vars => Inv'
  BY NextKeepsInv
<1>3. QED
  BY <1>1, <1>2, PTL DEF Spec

(* TypeOK: the tabs, the jobs, the calls and the script's properties are     *)
(* always of their kind, and no request is tried more than three times.      *)
THEOREM BackupTypeCorrect == Spec => []TypeOK
<1>1. Inv => TypeOK
  <2>1. Typed => TypeOK
    <3> SUFFICES ASSUME Typed
                 PROVE  TypeOK
      OBVIOUS
    <3>1. \A s \in Servers : call[s].reply \in Replies \cup {"none", "failed"} /\ call[s].attempt \in 0..Attempts
      BY DEF Typed, Calls
    <3>2. QED
      BY <3>1 DEF TypeOK, Typed, States, Leases
  <2>2. QED
    BY <2>1 DEF Inv
<1>2. QED
  BY <1>1, BackupInvariant, PTL

(* ResumeFits: advance_job is never out of step with the script by more than *)
(* the operation whose answer may be lost.                                   *)
THEOREM ResumesFit == Spec => []ResumeFits
<1>1. Inv => ResumeFits
  BY DEF Inv, LeaseFits, LeaseFitsAt, ResumeFits, Open, Resumable
<1>2. QED
  BY <1>1, BackupInvariant, PTL

(* CompleteWasPublished: a job is complete only once the spreadsheet has     *)
(* shown its run, whichever answers were lost, late or repeated.             *)
THEOREM CompleteIsPublished == Spec => []CompleteWasPublished
<1>1. Inv => CompleteWasPublished
  BY DEF Inv, Finished, FinishedAt, CompleteWasPublished
<1>2. QED
  BY <1>1, BackupInvariant, PTL

-----------------------------------------------------------------------------
(* The refinement: what the tabs of the published run and of a run with a    *)
(* live lease hold.                                                          *)
Whole == 0..(Publishing - 1)

Staged ==
    /\ \A r \in Runs : tabs[r] \subseteq Whole
    /\ published # 0 => tabs[published] = Whole
    /\ lease.live /\ lease.run \notin {0, published} => 0..(lease.next - 1) \subseteq tabs[lease.run]

LEMMA LastPublished ==
    ASSUME NEW ps \in Seq(Runs), NEW r \in Runs
    PROVE  Append(ps, r) # <<>> /\ Last(Append(ps, r)) = r
<1>1. Len(Append(ps, r)) = Len(ps) + 1 /\ Append(ps, r)[Len(ps) + 1] = r /\ Len(ps) \in Nat
  OBVIOUS
<1>2. Append(ps, r) # <<>>
  BY <1>1
<1>3. QED
  BY <1>1, <1>2 DEF Last

(* What a request may do to the tabs.                                        *)
Moved(held) == held = lease \/ held = [run |-> lease.run, next |-> lease.next + 1, live |-> lease.live]

Current(q) ==
    /\ lease.live /\ lease.run = q.run /\ q.seq = lease.next
    /\ q.run \in Runs /\ q.run # published /\ q.seq \in 0..Publishing

Nothing(q, o) ==
    o.tabs = tabs /\ o.publications = publications /\ o.lease \in {lease, NoLease}

Clears(q, o) ==
    /\ o.tabs = [r \in Runs |-> IF Abandoned(r) THEN {} ELSE tabs[r]]
    /\ o.publications = publications /\ ~Held
    /\ o.lease \in {lease, [run |-> q.run, next |-> 0, live |-> TRUE]}

Writes(q, o) ==
    /\ Current(q) /\ q.seq # Publishing
    /\ o.tabs = [tabs EXCEPT ![q.run] = @ \cup {q.seq}]
    /\ o.publications = publications /\ Moved(o.lease)

Publishes(q, o) ==
    /\ Current(q) /\ q.seq = Publishing
    /\ o.tabs = [r \in Runs |-> IF r = published THEN {} ELSE tabs[r]]
    /\ o.publications = Append(publications, q.run) /\ Moved(o.lease)

LEMMA AnswersDoNothing ==
    ASSUME NEW q, NEW reply, NEW next
    PROVE  Nothing(q, Answer(reply, next)) /\ Nothing(q, Failure(q, reply))
  BY DEF Nothing, Answer, Failure

LEMMA BeginEffect ==
    ASSUME NEW q, NEW o \in Begin(q)
    PROVE  Nothing(q, o) \/ Clears(q, o)
<1> DEFINE cleared == [r \in Runs |-> IF Abandoned(r) THEN {} ELSE tabs[r]]
<1>1. CASE o = Answer("next", lease.next) \/ o = Answer("busy", 0)
  BY <1>1, AnswersDoNothing
<1>2. CASE /\ ~Held
           /\ o = [reply |-> "next", next |-> 0, failure |-> 0, tabs |-> cleared,
                   lease |-> [run |-> q.run, next |-> 0, live |-> TRUE],
                   publications |-> publications]
  BY <1>2 DEF Clears
<1>3. CASE /\ ~Held
           /\ o = [reply |-> "temporary", next |-> 0, failure |-> Cost(q), tabs |-> cleared,
                   lease |-> lease, publications |-> publications]
  BY <1>3 DEF Clears
<1>4. QED
  BY <1>1, <1>2, <1>3 DEF Begin, Answer, Failure

LEMMA ApplyEffect ==
    ASSUME Typed, NEW q \in Calls, RequestOK(q), q.action = "apply", NEW o \in Apply(q)
    PROVE  Nothing(q, o) \/ Writes(q, o) \/ Publishes(q, o)
<1> DEFINE moved == [run |-> lease.run, next |-> lease.next + 1, live |-> lease.live]
           reply == IF q.seq = Publishing THEN "complete" ELSE "next"
           replaced == [r \in Runs |-> IF r = published THEN {} ELSE tabs[r]]
           written == [tabs EXCEPT ![q.run] = @ \cup {q.seq}]
<1>1. lease \in Leases /\ q.run \in Runs /\ q.seq \in 0..Publishing
  BY DEF Typed, RequestOK
<1>2. CASE \/ o = Answer("complete", 0) \/ o = Answer(Refusal(q), 0)
           \/ o = Answer("next", lease.next) \/ o = Answer("refused", 0)
  BY <1>2, AnswersDoNothing
<1>3. ASSUME q.run # published, Refusal(q) = "none", ~SeenBefore(q),
             NEW r, NEW n, NEW f, NEW held, Moved(held),
             o = Operated(q, [reply |-> r, next |-> n, failure |-> f, lease |-> held,
                              tabs |-> tabs, publications |-> publications])
      PROVE  Writes(q, o) \/ Publishes(q, o)
  <2>1. Current(q)
    BY <1>1, <1>3 DEF Current, Refusal, SeenBefore
  <2> HIDE DEF replaced, written
  <2>2. CASE q.seq = Publishing
    <3>1. o = [reply |-> r, next |-> n, failure |-> f, lease |-> held,
               tabs |-> replaced, publications |-> Append(publications, q.run)]
      BY <1>3, <2>2, OperatedRecord, Zenon DEF replaced
    <3>2. o.tabs = replaced /\ o.publications = Append(publications, q.run) /\ o.lease = held
      BY <3>1
    <3>3. QED
      BY <1>3, <2>1, <2>2, <3>2 DEF Publishes, replaced
  <2>3. CASE q.seq # Publishing
    <3>1. o = [reply |-> r, next |-> n, failure |-> f, lease |-> held,
               tabs |-> written, publications |-> publications]
      BY <1>3, <2>3, OperatedRecord, Zenon DEF written
    <3>2. o.tabs = written /\ o.publications = publications /\ o.lease = held
      BY <3>1
    <3>3. QED
      BY <1>3, <2>1, <2>3, <3>2 DEF Writes, written
  <2>4. QED
    BY <2>2, <2>3
<1>4. CASE /\ q.run # published /\ Refusal(q) = "none" /\ ~SeenBefore(q)
           /\ o = Operated(q, [Answer(reply, lease.next + 1) EXCEPT !.lease.next = @ + 1])
  <2>1. [lease EXCEPT !.next = @ + 1] = moved
    BY <1>1 DEF Leases
  <2>2. [Answer(reply, lease.next + 1) EXCEPT !.lease.next = @ + 1] =
        [reply |-> reply, next |-> lease.next + 1, failure |-> 0, lease |-> moved,
         tabs |-> tabs, publications |-> publications]
    BY <2>1 DEF Answer
  <2>3. Moved(moved)
    BY DEF Moved
  <2> HIDE DEF moved, reply
  <2>4. o = Operated(q, [reply |-> reply, next |-> lease.next + 1, failure |-> 0,
                         lease |-> moved, tabs |-> tabs, publications |-> publications])
    BY <1>4, <2>2, Zenon
  <2>5. QED
    BY <1>3, <1>4, <2>3, <2>4, Zenon
<1>5. CASE /\ q.run # published /\ Refusal(q) = "none" /\ ~SeenBefore(q)
           /\ o = Operated(q, Failure(q, "temporary"))
  <2>1. Failure(q, "temporary") =
        [reply |-> "temporary", next |-> 0, failure |-> Cost(q), lease |-> lease,
         tabs |-> tabs, publications |-> publications]
    BY DEF Answer, Failure
  <2>2. Moved(lease)
    BY DEF Moved
  <2>3. o = Operated(q, [reply |-> "temporary", next |-> 0, failure |-> Cost(q),
                         lease |-> lease, tabs |-> tabs, publications |-> publications])
    BY <1>5, <2>1, Zenon
  <2>4. QED
    BY <1>3, <1>5, <2>2, <2>3, Zenon
<1>6. QED
  BY <1>2, <1>4, <1>5 DEF Apply

LEMMA RequestEffect ==
    ASSUME Typed, NEW q \in Calls, RequestOK(q), q.action # "none", NEW o \in Outcomes(q)
    PROVE  Nothing(q, o) \/ Clears(q, o) \/ Writes(q, o) \/ Publishes(q, o)
<1>1. q.action \in {"begin", "abort", "apply"}
  BY DEF Calls
<1>2. CASE o \in {Failure(q, "temporary"), Failure(q, "refused"), Answer("busy", 0)}
  BY <1>2, AnswersDoNothing
<1>3. CASE q.action = "begin" /\ o \in Begin(q)
  BY <1>3, BeginEffect
<1>4. CASE q.action = "apply" /\ o \in Apply(q)
  BY <1>4, ApplyEffect
<1>5. CASE q.action = "abort" /\ o \in Abort(q)
  BY <1>5 DEF Abort, Answer, Nothing
<1>6. QED
  BY <1>1, <1>2, <1>3, <1>4, <1>5 DEF Outcomes

(* One request replaces what is shown by another whole snapshot, or leaves it.*)
LEMMA ReceiveRefines ==
    ASSUME Inv, Staged, NEW q, Requests(q), NEW o \in Outcomes(q), Receive(o)
    PROVE  /\ Staged'
           /\ published' = published \/ (published' \in Runs /\ published' # published)
<1>1. q \in Calls /\ RequestOK(q) /\ q.action # "none" /\ q.run \in Runs
  BY DEF Requests, Inv, Typed, RequestsOK, RequestOK
<1>2. Nothing(q, o) \/ Clears(q, o) \/ Writes(q, o) \/ Publishes(q, o)
  BY <1>1, RequestEffect DEF Inv
<1>3. lease' = o.lease /\ tabs' = o.tabs /\ publications' = o.publications
  BY DEF Receive
<1>4. /\ tabs \in [Runs -> SUBSET (0..Publishing)] /\ lease \in Leases /\ publications \in Seq(Runs)
      /\ published \in 0..MaxRuns /\ lease.next \in Nat /\ 0 \notin Runs /\ Publishing \in Nat
      /\ Steps \in Nat /\ MaxRuns \in Nat
  BY PublishedIsLast, BackupAssumption DEF Inv, Typed, Leases, Runs, Publishing
<1>5. published # 0 => published \in Runs
  BY <1>4 DEF Runs
<1>6. CASE Nothing(q, o)
  <2>1. publications' = publications /\ published' = published
    BY <1>3, <1>6 DEF Nothing, published
  <2>2. QED
    BY <1>3, <1>6, <2>1 DEF Nothing, Staged, NoLease
<1>7. CASE Clears(q, o)
  <2>1. published' = published
    BY <1>3, <1>7 DEF Clears, published
  <2>2. \A r \in Runs : tabs'[r] = IF r # published THEN {} ELSE tabs[r]
    BY <1>3, <1>7 DEF Clears, Abandoned
  <2>3. lease'.live /\ lease'.run \notin {0, published} => lease'.next = 0
    BY <1>3, <1>7 DEF Clears, Held
  <2>4. 0..(0 - 1) = {}
    OBVIOUS
  <2>5. lease'.live /\ lease'.run \notin {0, published} => 0..(lease'.next - 1) = {}
    BY <2>3, <2>4
  <2>6. QED
    BY <1>5, <2>1, <2>2, <2>5 DEF Staged
<1>8. CASE Writes(q, o)
  <2>1. published' = published
    BY <1>3, <1>8 DEF Writes, published
  <2>2. \A r \in Runs : tabs'[r] = IF r = q.run THEN tabs[r] \cup {q.seq} ELSE tabs[r]
    BY <1>3, <1>4, <1>8 DEF Writes
  <2>3. q.seq \in Whole /\ q.seq = lease.next /\ q.run = lease.run /\ q.run # published
    BY <1>4, <1>8 DEF Writes, Current, Whole
  <2>4. lease'.run = lease.run /\ lease'.next \in {lease.next, lease.next + 1}
    BY <1>3, <1>8 DEF Writes, Moved
  <2>5. 0..(lease.next - 1) \subseteq tabs[q.run]
    BY <1>1, <1>4, <1>8, <2>3 DEF Staged, Writes, Current
  <2>6. 0..(lease'.next - 1) \subseteq tabs'[q.run]
    <3>1. 0..((lease.next + 1) - 1) = 0..(lease.next - 1) \cup {lease.next}
      BY <1>4
    <3>2. tabs'[q.run] = tabs[q.run] \cup {lease.next}
      BY <1>1, <2>2, <2>3
    <3>3. QED
      BY <2>4, <2>5, <3>1, <3>2
  <2>7. \A r \in Runs : tabs'[r] \subseteq Whole
    <3>1. \A r \in Runs : tabs[r] \subseteq Whole
      BY DEF Staged
    <3>2. tabs[q.run] \cup {q.seq} \subseteq Whole
      BY <1>1, <2>3, <3>1
    <3>3. QED
      BY <2>2, <3>1, <3>2
  <2>8. published # 0 => tabs'[published] = Whole
    BY <1>5, <2>2, <2>3 DEF Staged
  <2>9. QED
    BY <2>1, <2>3, <2>4, <2>6, <2>7, <2>8 DEF Staged
<1>9. CASE Publishes(q, o)
  <2>1. published' = q.run
    <3>1. publications' = Append(publications, q.run)
      BY <1>3, <1>9 DEF Publishes
    <3>2. Append(publications, q.run) # <<>> /\ Last(Append(publications, q.run)) = q.run
      BY <1>1, <1>4, LastPublished
    <3>3. published' = IF publications' = <<>> THEN 0 ELSE Last(publications')
      BY DEF published
    <3>4. QED
      BY <3>1, <3>2, <3>3
  <2>2. \A r \in Runs : tabs'[r] = IF r = published THEN {} ELSE tabs[r]
    BY <1>3, <1>9 DEF Publishes
  <2>3. q.run = lease.run /\ q.run # published /\ lease.live /\ lease.next = Publishing
    BY <1>9 DEF Publishes, Current
  <2>4. tabs[q.run] = Whole
    BY <1>1, <1>4, <2>3 DEF Staged, Whole
  <2>5. lease'.run = q.run
    BY <1>3, <1>9, <2>3 DEF Publishes, Moved
  <2>6. tabs'[q.run] = Whole /\ \A r \in Runs : tabs'[r] \subseteq Whole
    BY <1>1, <2>2, <2>3, <2>4 DEF Staged
  <2>7. QED
    BY <1>1, <2>1, <2>3, <2>5, <2>6 DEF Staged
<1>10. QED
  BY <1>2, <1>6, <1>7, <1>8, <1>9

LEMMA StagedStep ==
    ASSUME Inv, Staged, [Next]_vars
    PROVE  /\ Staged'
           /\ published' = published \/ (published' \in Runs /\ published' # published)
<1>1. CASE UNCHANGED script
  BY <1>1 DEF Staged, script, published
<1>2. ASSUME NEW s \in Servers, Handle(s)
      PROVE  /\ Staged'
             /\ published' = published \/ (published' \in Runs /\ published' # published)
  <2>1. PICK o \in Outcomes(call[s]) : Receive(o)
    BY <1>2 DEF Handle
  <2>2. Requests(call[s])
    BY <1>2 DEF Handle, Waiting, Requests
  <2>3. QED
    BY <2>1, <2>2, ReceiveRefines
<1>3. ASSUME NEW q \in late, HandleLate(q), ~UNCHANGED script
      PROVE  /\ Staged'
             /\ published' = published \/ (published' \in Runs /\ published' # published)
  <2>1. PICK o \in Outcomes(q) : Receive(o)
    BY <1>3 DEF HandleLate
  <2>2. Requests(q)
    BY DEF Requests
  <2>3. QED
    BY <2>1, <2>2, ReceiveRefines
<1>4. CASE ExpireLease
  <2>1. ~lease'.live
    BY <1>4 DEF ExpireLease, Inv, Typed, Leases
  <2>2. tabs' = tabs /\ published' = published
    BY <1>4 DEF ExpireLease, published
  <2>3. QED
    BY <2>1, <2>2 DEF Staged
<1>5. ASSUME NEW s \in Servers,
             \/ PressStart(s) \/ PressRetry(s) \/ PressCancel(s) \/ BeginAnswered(s) \/ Build(s)
             \/ Advance(s) \/ AdvanceAnswered(s) \/ Cancel(s) \/ AbortAnswered(s)
             \/ LoseAnswer(s) \/ Restart(s)
      PROVE  UNCHANGED script
  BY <1>5 DEF PressStart, PressRetry, PressCancel, BeginAnswered, Build, Advance, AdvanceAnswered,
     Cancel, AbortAnswered, LoseAnswer, Restart
<1>6. CASE UNCHANGED vars
  BY <1>1, <1>6 DEF vars
<1>7. QED
  BY <1>1, <1>2, <1>3, <1>4, <1>5, <1>6 DEF Next

LEMMA InitStaged == Init => Staged /\ published = 0
<1> SUFFICES ASSUME Init
             PROVE  Staged /\ published = 0
  OBVIOUS
<1>1. tabs = [r \in Runs |-> {}] /\ publications = <<>> /\ lease = NoLease
  BY DEF Init
<1>2. published = 0 /\ ~lease.live
  BY <1>1 DEF published, NoLease
<1>3. QED
  BY <1>1, <1>2 DEF Staged

(* Under the invariant the refinement mapping is the published run.          *)
Shown == IF published = 0 THEN 0
         ELSE IF tabs[published] = 0..(Publishing - 1) THEN published
         ELSE -1

(* ImplementsPromise: doPost, dispatch and applyOperation implement the      *)
(* promise of the guide, the spreadsheet shows nothing or one whole snapshot *)
(* and every change of it replaces it by another in one step.                *)
THEOREM BackupImplementsPromise == Spec => ImplementsPromise
<1>1. Init => Promise!Init
  BY InitStaged DEF Promise!Init, Shown
<1>2. Inv /\ Staged /\ Staged' /\ [Next]_vars => [Promise!Next]_Shown
  <2> SUFFICES ASSUME Inv, Staged, Staged', [Next]_vars
               PROVE  [Promise!Next]_Shown
    OBVIOUS
  <2>1. Shown = published /\ Shown' = published'
    BY DEF Staged, Shown, Whole
  <2>2. published' = published \/ (published' \in Runs /\ published' # published)
    BY StagedStep
  <2>3. QED
    BY <2>1, <2>2 DEF Promise!Next, Promise!Replace, Shown
<1>3. Inv /\ Staged /\ [Next]_vars => Staged'
  BY StagedStep
<1>4. Init => Staged
  BY InitStaged
<1>5. QED
  BY <1>1, <1>2, <1>3, <1>4, BackupInvariant, PTL DEF Spec, ImplementsPromise, Promise!Spec, Shown
=============================================================================
