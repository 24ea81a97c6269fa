------------------------- MODULE JobAdmissionProofs -------------------------
(***************************************************************************)
(* Theorems about JobAdmission for every finite set of clients, every set  *)
(* of requests and every value of the limits.                              *)
(***************************************************************************)
EXTENDS JobAdmission, FiniteSetTheorems, TLAPS

-----------------------------------------------------------------------------
(***************************************************************************)
(* Types.                                                                  *)
(***************************************************************************)

RowType == [key : {r.key : r \in Requests}, project : {r.project : r \in Requests},
            chapter : Nat, status : {"active", "ended", "dead_lettered"},
            run : {"none", "active", "ended"}, revived : BOOLEAN]

Pcs == {"idle", "lookup", "count", "check_chapter", "check_run", "insert", "conflict",
        "answered"}

NoRequest == [kind |-> "none"]

ClientType == [pc : Pcs, request : Requests \cup {NoRequest}, job : Nat]

\* A client that asked has its request; one that was answered, a job.
Asked(c) ==
    /\ client[c].pc # "idle" => client[c].request \in Requests
    /\ client[c].pc = "idle" => client[c] = Idle
    /\ client[c].pc = "answered" => client[c].job \in Jobs
    /\ client[c].pc \in {"count", "check_chapter"} => client[c].request.kind = "job"
    /\ client[c].pc = "check_run" => client[c].request.kind = "book"

TypeInv ==
    /\ rows \in Seq(RowType)
    /\ client \in [Clients -> ClientType]
    /\ \A c \in Clients : Asked(c)
    /\ revivals \in 0..MaxRevivals

LEMMA IdleType == Idle \in ClientType /\ Idle.pc = "idle"
BY DEF Idle, ClientType, Pcs, NoRequest

LEMMA NewRowType ==
    ASSUME NEW r \in Requests
    PROVE  /\ NewRow(r) \in RowType
           /\ NewRow(r).key = r.key /\ NewRow(r).project = r.project
           /\ NewRow(r).chapter = r.chapter /\ NewRow(r).status = "active"
           /\ NewRow(r).run = IF r.kind = "book" THEN "active" ELSE "none"
           /\ ~NewRow(r).revived
BY JobAdmissionAssumption DEF NewRow, RowType

\* The steps that change the rows: one row is appended, or one row is ended or
\* revived.
Appends(c) ==
    /\ client[c].pc = "insert" /\ ~Conflict(client[c].request)
    /\ rows' = Append(rows, NewRow(client[c].request))
    /\ Answer(c, Len(rows) + 1)

Changed(old, new) ==
    /\ new \in RowType
    /\ new.key = old.key /\ new.project = old.project /\ new.chapter = old.chapter
    /\ \/ /\ new.status \in {"ended", "dead_lettered"} /\ new.run = old.run
          /\ new.revived = old.revived
       \/ new.status = old.status /\ new.run = "ended" /\ old.run = "active"
          /\ new.revived = old.revived
       \/ /\ old.status = "dead_lettered" /\ new.status = "active" /\ new.revived
          /\ new.run = old.run /\ ActiveOn(old.chapter) = {}

\* One row changes, or none.
Changes ==
    /\ UNCHANGED client
    /\ \E j \in Jobs : \E row \in RowType :
          Changed(rows[j], row) /\ rows' = [rows EXCEPT ![j] = row]

\* A client moves on without a new row.
Moves(c, new) ==
    /\ UNCHANGED rows
    /\ client' = [client EXCEPT ![c] = new]
    /\ new \in ClientType
    /\ \/ new = Idle
       \/ new.pc = "lookup" /\ new.request \in Requests
       \/ /\ client[c].pc = "lookup" /\ new.request = client[c].request
          /\ \/ new.pc = "count" /\ new.request.kind = "job"
             \/ new.pc = "check_run" /\ new.request.kind = "book"
       \/ /\ client[c].pc = "count" /\ new.request = client[c].request
          /\ new.pc = "check_chapter" /\ Room(new.request.project)
       \/ /\ client[c].pc = "check_chapter" /\ new.request = client[c].request
          /\ new.pc = "insert"
       \/ /\ client[c].pc = "check_run" /\ new.request = client[c].request
          /\ new.pc = "insert" /\ new.request.kind = "book"
       \/ /\ client[c].pc = "insert" /\ new.request = client[c].request
          /\ new.pc = "conflict"
       \/ /\ new.request = client[c].request /\ new.pc = "answered"
          /\ client[c].pc \in {"lookup", "check_run", "conflict"}
          /\ \/ new.job \in WithKey(new.request.key)
             \/ /\ new.job \in RunsOf(new.request.project)
                /\ new.request.kind = "book" /\ new.request.external

LEMMA CreateStep ==
    ASSUME TypeInv, NEW c \in Clients, Ask(c) \/ Create(c)
    PROVE  \/ \E new : Moves(c, new)
           \/ Appends(c)
<1>0. /\ client \in [Clients -> ClientType] /\ client[c] \in ClientType /\ Asked(c)
      /\ rows \in Seq(RowType)
  BY DEF TypeInv
<1> DEFINE r == client[c].request
           At(pc) == [client[c] EXCEPT !.pc = pc]
           Told(j) == [client[c] EXCEPT !.pc = "answered", !.job = j]
<1>1. ASSUME NEW pc \in Pcs
      PROVE  /\ At(pc) \in ClientType /\ At(pc).pc = pc /\ At(pc).request = r
             /\ Goto(c, pc) => client' = [client EXCEPT ![c] = At(pc)]
  BY <1>0 DEF ClientType, Goto
<1>2. ASSUME NEW j \in Nat
      PROVE  /\ Told(j) \in ClientType /\ Told(j).pc = "answered" /\ Told(j).job = j
             /\ Told(j).request = r
             /\ Answer(c, j) => client' = [client EXCEPT ![c] = Told(j)]
  BY <1>0 DEF ClientType, Answer, Pcs
<1> HIDE DEF At, Told
<1>3. Jobs \subseteq Nat
  BY <1>0 DEF Jobs
<1>4. ASSUME NEW j \in WithKey(r.key), Answer(c, j), UNCHANGED rows,
             client[c].pc \in {"lookup", "check_run", "conflict"}
      PROVE  \E new : Moves(c, new)
  <2>1. j \in Nat
    BY <1>3 DEF WithKey
  <2>2. Moves(c, Told(j))
    BY <1>2, <1>4, <2>1 DEF Moves
  <2>3. QED
    BY <2>2
<1>5. ASSUME Refuse(c), UNCHANGED rows PROVE \E new : Moves(c, new)
  <2>1. Moves(c, Idle)
    BY <1>5, IdleType DEF Moves, Refuse
  <2>2. QED
    BY <2>1
<1>6. CASE Ask(c)
  <2>1. ASSUME NEW q \in Requests,
               client' = [client EXCEPT ![c] = [Idle EXCEPT !.pc = "lookup", !.request = q]]
        PROVE  \E new : Moves(c, new)
    <3> DEFINE new == [Idle EXCEPT !.pc = "lookup", !.request = q]
    <3>1. new \in ClientType /\ new.pc = "lookup" /\ new.request = q
      BY DEF Idle, ClientType, Pcs
    <3>2. client' = [client EXCEPT ![c] = new]
      BY <2>1
    <3> HIDE DEF new
    <3>3. UNCHANGED rows
      <4>1. UNCHANGED <<rows, revivals>>
        BY <1>6, Zenon DEF Ask
      <4>2. QED
        BY <4>1
    <3>4. Moves(c, new)
      BY <3>1, <3>2, <3>3 DEF Moves
    <3>5. QED
      BY <3>4
  <2>2. QED
    BY <1>6, <2>1, ZenonT(30) DEF Ask
<1>7. CASE Lookup(c)
  <2>1. CASE \E j \in WithKey(r.key) : Answer(c, j)
    BY <1>4, <1>7, <2>1 DEF Lookup
  <2>2. CASE Goto(c, IF r.kind = "job" THEN "count" ELSE "check_run")
    <3>1. r \in Requests
      BY <1>0, <1>7 DEF Lookup, Asked
    <3>2. r.kind \in {"job", "book"}
      BY <3>1, JobAdmissionAssumption
    <3>3. CASE r.kind = "job"
      <4>1. Moves(c, At("count"))
        BY <1>1, <1>7, <2>2, <3>3 DEF Moves, Lookup, Pcs
      <4>2. QED
        BY <4>1
    <3>4. CASE r.kind = "book"
      <4>1. Moves(c, At("check_run"))
        BY <1>1, <1>7, <2>2, <3>4 DEF Moves, Lookup, Pcs
      <4>2. QED
        BY <4>1
    <3>5. QED
      BY <3>2, <3>3, <3>4
  <2>3. QED
    BY <1>7, <2>1, <2>2 DEF Lookup
<1>8. CASE CheckBackpressure(c)
  <2>1. CASE Room(r.project)
    <3>1. Moves(c, At("check_chapter"))
      BY <1>1, <1>8, <2>1 DEF Moves, CheckBackpressure, Pcs
    <3>2. QED
      BY <3>1
  <2>2. QED
    BY <1>5, <1>8, <2>1 DEF CheckBackpressure
<1>9. CASE CheckChapter(c)
  <2>1. CASE Goto(c, "insert")
    <3>1. Moves(c, At("insert"))
      BY <1>1, <1>9, <2>1 DEF Moves, CheckChapter, Pcs
    <3>2. QED
      BY <3>1
  <2>2. QED
    BY <1>5, <1>9, <2>1 DEF CheckChapter
<1>10. CASE CheckRun(c)
  <2>0. r \in Requests
    BY <1>0, <1>10 DEF CheckRun, Asked
  <2>1. CASE Goto(c, "insert")
    <3>1. Moves(c, At("insert"))
      BY <1>0, <1>1, <1>10, <2>1 DEF Moves, CheckRun, Pcs, Asked
    <3>2. QED
      BY <3>1
  <2>2. CASE r.external /\ \E j \in RunsOf(r.project) : Answer(c, j)
    <3>1. PICK j \in RunsOf(r.project) : Answer(c, j)
      BY <2>2
    <3>2. j \in Nat
      BY <1>3 DEF RunsOf
    <3>3. r.kind = "book"
      BY <1>0, <1>10 DEF CheckRun, Asked
    <3>4. Moves(c, Told(j))
      BY <1>2, <1>10, <2>2, <3>1, <3>2, <3>3 DEF Moves, CheckRun
    <3>5. QED
      BY <3>4
  <2>3. QED
    BY <1>5, <1>10, <2>1, <2>2 DEF CheckRun
<1>11. CASE Insert(c)
  <2>1. CASE Conflict(r)
    <3>1. Moves(c, At("conflict"))
      BY <1>1, <1>11, <2>1 DEF Moves, Insert, Pcs
    <3>2. QED
      BY <3>1
  <2>2. CASE ~Conflict(r)
    BY <1>11, <2>2 DEF Insert, Appends
  <2>3. QED
    BY <2>1, <2>2
<1>12. CASE SettleConflict(c)
  BY <1>4, <1>5, <1>12 DEF SettleConflict, Winners
<1>13. QED
  BY <1>6, <1>7, <1>8, <1>9, <1>10, <1>11, <1>12 DEF Create

LEMMA RowStep ==
    ASSUME TypeInv, NEW j \in Jobs, EndJob(j) \/ EndRun(j) \/ RetryDeadLetter(j)
    PROVE  Changes \/ UNCHANGED <<rows, client>>
<1>0. rows \in Seq(RowType) /\ rows[j] \in RowType /\ UNCHANGED client
  BY DEF TypeInv, Jobs, EndJob, EndRun, RetryDeadLetter
<1>1. CASE EndJob(j)
  <2>1. PICK status \in {"ended", "dead_lettered"} : rows' = [rows EXCEPT ![j].status = status]
    BY <1>1 DEF EndJob
  <2> DEFINE row == [rows[j] EXCEPT !.status = status]
  <2>2. /\ row \in RowType /\ row.key = rows[j].key /\ row.project = rows[j].project
        /\ row.chapter = rows[j].chapter /\ row.status = status /\ row.run = rows[j].run
        /\ row.revived = rows[j].revived
    BY <1>0 DEF RowType
  <2>3. rows' = [rows EXCEPT ![j] = row]
    BY <2>1
  <2>4. Changed(rows[j], row)
    BY <2>2 DEF Changed
  <2>5. QED
    BY <1>0, <2>2, <2>3, <2>4 DEF Changes
<1>2. CASE EndRun(j)
  <2> DEFINE row == [rows[j] EXCEPT !.run = "ended"]
  <2>2. /\ row \in RowType /\ row.key = rows[j].key /\ row.project = rows[j].project
        /\ row.chapter = rows[j].chapter /\ row.status = rows[j].status /\ row.run = "ended"
        /\ row.revived = rows[j].revived
    BY <1>0 DEF RowType
  <2>3. rows' = [rows EXCEPT ![j] = row] /\ rows[j].run = "active"
    BY <1>2 DEF EndRun
  <2>4. Changed(rows[j], row)
    BY <2>2, <2>3 DEF Changed
  <2>5. QED
    BY <1>0, <2>2, <2>3, <2>4 DEF Changes
<1>3. CASE RetryDeadLetter(j) /\ ActiveOn(rows[j].chapter) = {}
  <2> DEFINE row == [rows[j] EXCEPT !.status = "active", !.revived = TRUE]
  <2>2. /\ row \in RowType /\ row.key = rows[j].key /\ row.project = rows[j].project
        /\ row.chapter = rows[j].chapter /\ row.status = "active" /\ row.run = rows[j].run
        /\ row.revived
    BY <1>0 DEF RowType
  <2>3. rows' = [rows EXCEPT ![j] = row] /\ rows[j].status = "dead_lettered"
    BY <1>3 DEF RetryDeadLetter
  <2>4. Changed(rows[j], row)
    BY <1>3, <2>2, <2>3 DEF Changed
  <2>5. QED
    BY <1>0, <2>2, <2>3, <2>4 DEF Changes
<1>4. CASE RetryDeadLetter(j) /\ ActiveOn(rows[j].chapter) # {}
  BY <1>4 DEF RetryDeadLetter
<1>5. QED
  BY <1>1, <1>2, <1>3, <1>4

LEMMA NextStep ==
    ASSUME TypeInv, Next
    PROVE  \/ \E c \in Clients : Appends(c) /\ UNCHANGED revivals
           \/ \E c \in Clients : \E new : Moves(c, new) /\ UNCHANGED revivals
           \/ Changes /\ revivals' \in 0..MaxRevivals
           \/ UNCHANGED <<rows, client>> /\ revivals' \in 0..MaxRevivals
<1>0. revivals \in 0..MaxRevivals /\ MaxRevivals \in Nat
  BY JobAdmissionAssumption DEF TypeInv
<1>1. ASSUME NEW c \in Clients, Ask(c) \/ Create(c)
      PROVE  UNCHANGED revivals
  <2>1. CASE Ask(c)
    <3>1. UNCHANGED <<rows, revivals>>
      BY <2>1, Zenon DEF Ask
    <3>2. QED
      BY <3>1
  <2>2. CASE Create(c)
    BY <2>2 DEF Create, Lookup, CheckBackpressure, CheckChapter, CheckRun, Insert, SettleConflict
  <2>3. QED
    BY <1>1, <2>1, <2>2
<1>2. ASSUME NEW j \in Jobs, EndJob(j) \/ EndRun(j) \/ RetryDeadLetter(j)
      PROVE  revivals' \in 0..MaxRevivals
  BY <1>0, <1>2 DEF EndJob, EndRun, RetryDeadLetter
<1>3. CASE \E c \in Clients : Ask(c) \/ Create(c)
  <2>1. PICK c \in Clients : Ask(c) \/ Create(c)
    BY <1>3, Zenon
  <2>2. QED
    BY <1>1, <2>1, CreateStep
<1>4. CASE \E j \in Jobs : EndJob(j) \/ EndRun(j) \/ RetryDeadLetter(j)
  <2>1. PICK j \in Jobs : EndJob(j) \/ EndRun(j) \/ RetryDeadLetter(j)
    BY <1>4, Zenon
  <2>2. QED
    BY <1>2, <2>1, RowStep
<1>5. QED
  BY <1>3, <1>4, Zenon DEF Next

-----------------------------------------------------------------------------

LEMMA TypeInit == Init => TypeInv
<1> SUFFICES ASSUME Init PROVE TypeInv
  OBVIOUS
<1>1. \A c \in Clients : client[c] = Idle
  BY DEF Init
<1>2. client \in [Clients -> ClientType] /\ rows \in Seq(RowType)
  BY IdleType DEF Init
<1>3. \A c \in Clients : Asked(c)
  BY <1>1, IdleType DEF Asked
<1>4. QED
  BY <1>2, <1>3, JobAdmissionAssumption DEF TypeInv, Init

\* What a row that is appended and a row that changes mean for the sequence.
LEMMA AppendedRows ==
    ASSUME rows \in Seq(RowType), NEW row \in RowType, rows' = Append(rows, row)
    PROVE  /\ rows' \in Seq(RowType) /\ Jobs \subseteq Nat
           /\ Jobs' = Jobs \cup {Len(rows) + 1} /\ Len(rows) + 1 \notin Jobs
           /\ \A j \in Jobs : rows'[j] = rows[j]
           /\ rows'[Len(rows) + 1] = row
BY DEF Jobs

LEMMA ChangedRow ==
    ASSUME rows \in Seq(RowType), NEW row \in RowType, NEW j \in Jobs,
           rows' = [rows EXCEPT ![j] = row]
    PROVE  /\ rows' \in Seq(RowType) /\ Jobs' = Jobs
           /\ \A i \in Jobs : rows'[i] = IF i = j THEN row ELSE rows[i]
BY DEF Jobs

LEMMA TypeStep ==
    ASSUME TypeInv, [Next]_vars
    PROVE  TypeInv'
<1>0. /\ client \in [Clients -> ClientType] /\ rows \in Seq(RowType)
      /\ \A c \in Clients : Asked(c)
  BY DEF TypeInv
<1>1. ASSUME NEW c \in Clients, Appends(c), UNCHANGED revivals
      PROVE  TypeInv'
  <2> DEFINE r == client[c].request
             n == Len(rows) + 1
             new == [client[c] EXCEPT !.pc = "answered", !.job = n]
  <2>1. r \in Requests
    BY <1>0, <1>1 DEF Appends, Asked
  <2>2. rows' = Append(rows, NewRow(r)) /\ NewRow(r) \in RowType
    BY <1>1, <2>1, NewRowType DEF Appends
  <2>3. rows' \in Seq(RowType) /\ Jobs' = Jobs \cup {n} /\ n \in Nat
    BY <1>0, <2>2, AppendedRows
  <2>4. client' = [client EXCEPT ![c] = new]
    BY <1>0, <1>1 DEF Appends, Answer
  <2>5. client[c] \in ClientType /\ new \in ClientType /\ new.pc = "answered" /\ new.job = n
        /\ new.request = r
    BY <1>0, <2>3 DEF ClientType, Pcs
  <2> HIDE DEF new
  <2>6. client' \in [Clients -> ClientType]
        /\ \A d \in Clients : client'[d] = IF d = c THEN new ELSE client[d]
    BY <1>0, <2>4, <2>5
  <2>7. ASSUME NEW d \in Clients PROVE Asked(d)'
    BY <1>0, <2>1, <2>3, <2>5, <2>6 DEF Asked
  <2>8. QED
    BY <1>1, <2>3, <2>6, <2>7 DEF TypeInv
<1>2. ASSUME NEW c \in Clients, NEW new, Moves(c, new), UNCHANGED revivals
      PROVE  TypeInv'
  <2>1. /\ UNCHANGED rows /\ Jobs' = Jobs /\ new \in ClientType
        /\ client' = [client EXCEPT ![c] = new]
    BY <1>2 DEF Moves, Jobs
  <2>2. client' \in [Clients -> ClientType]
        /\ \A d \in Clients : client'[d] = IF d = c THEN new ELSE client[d]
    BY <1>0, <2>1
  <2>3. /\ new.pc # "idle" => new.request \in Requests
        /\ new.pc = "idle" => new = Idle
        /\ new.pc = "answered" => new.job \in Jobs
        /\ new.pc \in {"count", "check_chapter"} => new.request.kind = "job"
        /\ new.pc = "check_run" => new.request.kind = "book"
    BY <1>0, <1>2, IdleType DEF Moves, Asked, WithKey, RunsOf
  <2>4. ASSUME NEW d \in Clients PROVE Asked(d)'
    BY <1>0, <2>1, <2>2, <2>3 DEF Asked
  <2>5. QED
    BY <1>0, <1>2, <2>1, <2>2, <2>4 DEF TypeInv
<1>3. ASSUME Changes, revivals' \in 0..MaxRevivals
      PROVE  TypeInv'
  <2>1. rows' \in Seq(RowType) /\ Jobs' = Jobs /\ UNCHANGED client
    BY <1>0, <1>3, ChangedRow DEF Changes
  <2>2. \A d \in Clients : Asked(d)'
    BY <1>0, <2>1 DEF Asked
  <2>3. QED
    BY <1>0, <1>3, <2>1, <2>2 DEF TypeInv
<1>4. CASE UNCHANGED <<rows, client>> /\ revivals' \in 0..MaxRevivals
  BY <1>0, <1>4 DEF TypeInv, Asked, Jobs
<1>5. CASE UNCHANGED vars
  BY <1>0, <1>5 DEF TypeInv, Asked, Jobs, vars
<1>6. QED
  BY <1>1, <1>2, <1>3, <1>4, <1>5, NextStep

\* Rows and clients are well formed: a client past its first look-up carries
\* one of the requests, an answered one an existing job.
THEOREM TypeCorrect == Spec => []TypeOK
<1>1. TypeInv => TypeOK
  <2> SUFFICES ASSUME TypeInv PROVE TypeOK
    OBVIOUS
  <2>1. ASSUME NEW j \in Jobs PROVE rows[j] \in RowType
    BY DEF TypeInv, Jobs
  <2>2. ASSUME NEW c \in Clients PROVE client[c] \in ClientType /\ Asked(c)
    BY DEF TypeInv
  <2>3. QED
    BY <2>1, <2>2 DEF TypeOK, TypeInv, RowType, ClientType, Pcs, Asked
<1>2. QED
  BY <1>1, TypeInit, TypeStep, PTL DEF Spec

-----------------------------------------------------------------------------
(***************************************************************************)
(* Answers.                                                                *)
(***************************************************************************)

\* Clients compare keys only, so that they are told the right project needs
\* that a row's key decides its project.
KeysDecide ==
    /\ \A i, j \in Jobs : rows[i].key = rows[j].key => i = j
    /\ \A j \in Jobs : \A r \in Requests :
          rows[j].key = r.key => rows[j].project = r.project

Fits(r, j) ==
    /\ rows[j].project = r.project
    /\ rows[j].key = r.key \/ (r.kind = "book" /\ r.external)

AnswersFit ==
    \A c \in Clients :
       client[c].pc = "answered" => Fits(client[c].request, client[c].job)

AnswerInv == TypeInv /\ KeysDecide /\ AnswersFit

LEMMA AnswerStep ==
    ASSUME AnswerInv, [Next]_vars
    PROVE  AnswerInv'
<1>0. /\ client \in [Clients -> ClientType] /\ rows \in Seq(RowType) /\ Jobs \subseteq Nat
      /\ \A c \in Clients : Asked(c)
      /\ TypeInv /\ TypeInv' /\ KeysDecide /\ AnswersFit
  BY TypeStep DEF AnswerInv, TypeInv, Jobs
<1>1. ASSUME NEW c \in Clients, Appends(c)
      PROVE  KeysDecide' /\ AnswersFit'
  <2> DEFINE r == client[c].request
             n == Len(rows) + 1
             row == NewRow(r)
             new == [client[c] EXCEPT !.pc = "answered", !.job = n]
  <2>1. r \in Requests /\ WithKey(r.key) = {}
    BY <1>0, <1>1 DEF Appends, Asked, Conflict
  <2>2. rows' = Append(rows, row) /\ row \in RowType /\ row.key = r.key
        /\ row.project = r.project
    BY <1>1, <2>1, NewRowType DEF Appends
  <2> HIDE DEF row
  <2>3. /\ Jobs' = Jobs \cup {n} /\ n \notin Jobs
        /\ \A j \in Jobs : rows'[j] = rows[j]
        /\ rows'[n] = row
    BY <1>0, <2>2, AppendedRows
  <2>4. client' = [client EXCEPT ![c] = new]
    BY <1>0, <1>1 DEF Appends, Answer
  <2>5. client[c] \in ClientType /\ new.pc = "answered" /\ new.job = n
        /\ new.request = r
    BY <1>0, <2>3 DEF ClientType, Pcs
  <2> HIDE DEF new
  <2>6. \A d \in Clients : client'[d] = IF d = c THEN new ELSE client[d]
    BY <1>0, <2>4
  <2>7. \A j \in Jobs : rows[j].key # r.key
    BY <2>1 DEF WithKey
  <2> HIDE DEF n
  <2>8. \A q \in Requests : row.key = q.key => row.project = q.project
    BY <2>1, <2>2, JobAdmissionAssumption
  <2>9. KeysDecide'
    <3>1. ASSUME NEW i \in Jobs', NEW j \in Jobs', rows'[i].key = rows'[j].key
          PROVE  i = j
      <4>1. CASE i \in Jobs /\ j \in Jobs
        BY <1>0, <2>3, <3>1, <4>1 DEF KeysDecide
      <4>2. CASE i = n \/ j = n
        BY <2>2, <2>3, <2>7, <3>1, <4>2
      <4>3. QED
        BY <2>3, <4>1, <4>2
    <3>2. ASSUME NEW j \in Jobs', NEW q \in Requests, rows'[j].key = q.key
          PROVE  rows'[j].project = q.project
      BY <1>0, <2>3, <2>8, <3>2 DEF KeysDecide
    <3>3. QED
      BY <3>1, <3>2 DEF KeysDecide
  <2>10. AnswersFit'
    <3> SUFFICES ASSUME NEW d \in Clients, client'[d].pc = "answered"
                 PROVE  Fits(client[d].request, client[d].job)'
      BY DEF AnswersFit
    <3>1. CASE d = c
      BY <2>2, <2>3, <2>5, <2>6, <3>1 DEF Fits
    <3>2. CASE d # c
      <4>1. client'[d] = client[d] /\ client[d].job \in Jobs
        BY <1>0, <2>6, <3>2 DEF Asked
      <4>2. QED
        BY ZenonT(60), <1>0, <2>3, <4>1 DEF AnswersFit, Fits
    <3>3. QED
      BY <3>1, <3>2
  <2>11. QED
    BY <2>9, <2>10
<1>2. ASSUME NEW c \in Clients, NEW new, Moves(c, new)
      PROVE  KeysDecide' /\ AnswersFit'
  <2>1. UNCHANGED rows /\ Jobs' = Jobs /\ KeysDecide'
    BY <1>0, <1>2 DEF Moves, Jobs, KeysDecide
  <2>2. \A d \in Clients : client'[d] = IF d = c THEN new ELSE client[d]
    BY <1>0, <1>2 DEF Moves
  <2>3. ASSUME new.pc = "answered" PROVE Fits(new.request, new.job)
    <3>1. /\ new.request = client[c].request /\ client[c].pc # "idle"
          /\ \/ new.job \in WithKey(new.request.key)
             \/ /\ new.job \in RunsOf(new.request.project)
                /\ new.request.kind = "book" /\ new.request.external
      BY <1>2, <2>3, IdleType DEF Moves
    <3>2. new.request \in Requests
      BY <1>0, <3>1 DEF Asked
    <3>3. QED
      BY <1>0, <3>1, <3>2 DEF Fits, WithKey, RunsOf, Active, KeysDecide
  <2>4. ASSUME NEW r, NEW j PROVE Fits(r, j)' <=> Fits(r, j)
    BY <2>1 DEF Fits
  <2>5. QED
    BY <1>0, <2>1, <2>2, <2>3, <2>4 DEF AnswersFit, Fits
<1>3. ASSUME Changes
      PROVE  KeysDecide' /\ AnswersFit'
  <2>1. PICK j \in Jobs, row \in RowType :
           Changed(rows[j], row) /\ rows' = [rows EXCEPT ![j] = row]
    BY <1>3 DEF Changes
  <2>2. Jobs' = Jobs /\ UNCHANGED client
        /\ \A i \in Jobs : rows'[i].key = rows[i].key /\ rows'[i].project = rows[i].project
    <3>1. /\ Jobs' = Jobs
          /\ \A i \in Jobs : rows'[i] = IF i = j THEN row ELSE rows[i]
      BY <1>0, <2>1, ChangedRow
    <3>2. row.key = rows[j].key /\ row.project = rows[j].project
      BY <2>1 DEF Changed
    <3>3. UNCHANGED client
      BY <1>3 DEF Changes
    <3>4. QED
      BY <3>1, <3>2, <3>3
  <2>3. KeysDecide'
    <3>1. ASSUME NEW i \in Jobs, NEW k \in Jobs, rows'[i].key = rows'[k].key
          PROVE  i = k
      <4>1. rows[i].key = rows[k].key
        BY <2>2, <3>1
      <4>2. QED
        BY <1>0, <4>1 DEF KeysDecide
    <3>2. ASSUME NEW i \in Jobs, NEW q \in Requests, rows'[i].key = q.key
          PROVE  rows'[i].project = q.project
      <4>1. rows[i].key = q.key /\ rows'[i].project = rows[i].project
        BY <2>2, <3>2
      <4>2. QED
        BY <1>0, <4>1 DEF KeysDecide
    <3>3. Jobs' = Jobs
      BY <2>2
    <3>4. QED
      BY <3>1, <3>2, <3>3 DEF KeysDecide
  <2>4. \A d \in Clients : client[d].pc = "answered" => client[d].job \in Jobs
    BY <1>0 DEF Asked
  <2>5. QED
    BY <1>0, <2>2, <2>3, <2>4 DEF AnswersFit, Fits
<1>4. ASSUME UNCHANGED <<rows, client>>
      PROVE  KeysDecide' /\ AnswersFit'
  <2>1. Jobs' = Jobs /\ rows' = rows /\ client' = client
    BY <1>4 DEF Jobs
  <2>2. QED
    BY <1>0, <2>1 DEF KeysDecide, AnswersFit, Fits
<1>5. QED
  BY <1>0, <1>1, <1>2, <1>3, <1>4, NextStep DEF AnswerInv, vars

\* Whoever races, and whichever of the three transactions answers: a client is
\* told the one job of the key it is told, in the project it asked for, and
\* its own key unless it is a book asked for with a key of the client's.
THEOREM AnswersAreConsistent == Spec => []AnswersAgree
<1>1. Init => AnswerInv
  <2> SUFFICES ASSUME Init PROVE AnswerInv
    OBVIOUS
  <2>1. Jobs = {}
    BY DEF Init, Jobs
  <2>2. \A c \in Clients : client[c].pc = "idle"
    BY IdleType DEF Init
  <2>3. QED
    BY <2>1, <2>2, TypeInit DEF AnswerInv, KeysDecide, AnswersFit
<1>2. AnswerInv => AnswersAgree
  <2> SUFFICES ASSUME AnswerInv, NEW c \in Clients, client[c].pc = "answered"
               PROVE  LET r == client[c].request
                          j == client[c].job
                      IN  /\ WithKey(rows[j].key) = {j}
                          /\ rows[j].project = r.project
                          /\ rows[j].key = r.key \/ (r.kind = "book" /\ r.external)
    BY DEF AnswersAgree
  <2>1. client[c].job \in Jobs /\ Fits(client[c].request, client[c].job) /\ KeysDecide
    BY DEF AnswerInv, TypeInv, Asked, AnswersFit
  <2>2. QED
    BY <2>1 DEF WithKey, KeysDecide, Fits
<1>3. QED
  BY <1>1, <1>2, AnswerStep, PTL DEF Spec

-----------------------------------------------------------------------------
(***************************************************************************)
(* Limits.  A creation that found room and has not inserted its row yet    *)
(* holds a place that nobody else sees.  The rows counted and these places *)
(* together stay below the limit and one place for every client, in the    *)
(* system and in a project alike: P is the set of projects in question.    *)
(***************************************************************************)

CountedIn(P) == {j \in Counted : rows[j].project \in P}

PassingIn(P) ==
    {c \in Clients :
        /\ client[c].pc \in {"check_chapter", "insert"}
        /\ client[c].request.kind = "job" /\ client[c].request.project \in P}

PlacesWithin(P, limit) ==
    Cardinality(CountedIn(P)) + Cardinality(PassingIn(P)) <= limit - 1 + Cardinality(Clients)

LEMMA Finite ==
    ASSUME TypeInv, NEW P
    PROVE  /\ IsFiniteSet(Jobs) /\ IsFiniteSet(Active) /\ IsFiniteSet(CountedIn(P))
           /\ IsFiniteSet(PassingIn(P)) /\ IsFiniteSet(Clients)
           /\ Cardinality(CountedIn(P)) \in Nat
           /\ Cardinality(PassingIn(P)) \in 0..Cardinality(Clients)
           /\ Cardinality(Clients) \in Nat
<1>1. IsFiniteSet(Jobs)
  <2>1. Jobs = 1..Len(rows) /\ Len(rows) \in Nat
    BY DEF TypeInv, Jobs
  <2>2. QED
    BY <2>1, FS_Interval
<1>2. IsFiniteSet(Active) /\ IsFiniteSet(CountedIn(P))
  BY <1>1, FS_Subset DEF Active, Counted, CountedIn
<1>3. IsFiniteSet(Clients)
  BY JobAdmissionAssumption
<1>4. IsFiniteSet(PassingIn(P)) /\ Cardinality(PassingIn(P)) <= Cardinality(Clients)
  BY <1>3, FS_Subset DEF PassingIn
<1>5. QED
  BY <1>1, <1>2, <1>3, <1>4, FS_CardinalityType

\* A row is counted as long as it is active and of neither exception.
LEMMA CountedMember ==
    ASSUME NEW P, NEW j
    PROVE  j \in CountedIn(P) <=>
             /\ j \in Jobs /\ rows[j].status = "active" /\ rows[j].run = "none"
             /\ ~rows[j].revived /\ rows[j].project \in P
BY DEF CountedIn, Counted, Active

LEMMA PlacesStep ==
    ASSUME TypeInv, NEW P, NEW limit \in Nat \ {0}, PlacesWithin(P, limit),
           \A q \in P : Room(q) => Cardinality(CountedIn(P)) < limit,
           [Next]_vars
    PROVE  PlacesWithin(P, limit)'
<1>0. /\ client \in [Clients -> ClientType] /\ rows \in Seq(RowType) /\ Jobs \subseteq Nat
      /\ \A c \in Clients : Asked(c)
      /\ TypeInv /\ TypeInv'
  BY TypeStep DEF TypeInv, Jobs
<1> DEFINE C == CountedIn(P)
           W == PassingIn(P)
<1>f. /\ IsFiniteSet(C) /\ IsFiniteSet(W) /\ Cardinality(C) \in Nat /\ Cardinality(W) \in Nat
      /\ Cardinality(Clients) \in Nat
  BY <1>0, Finite
<1>f2. /\ IsFiniteSet(C') /\ IsFiniteSet(W') /\ Cardinality(C)' \in Nat
       /\ Cardinality(W)' \in 0..Cardinality(Clients)
  <2>1. (IsFiniteSet(C) /\ IsFiniteSet(W) /\ Cardinality(C) \in Nat
         /\ Cardinality(W) \in 0..Cardinality(Clients))'
    BY <1>0, Finite, PTL
  <2>2. QED
    BY <2>1
<1>p. Cardinality(C) + Cardinality(W) <= limit - 1 + Cardinality(Clients)
  BY DEF PlacesWithin
<1>1. ASSUME NEW c \in Clients, Appends(c)
      PROVE  PlacesWithin(P, limit)'
  <2> DEFINE r == client[c].request
             n == Len(rows) + 1
             row == NewRow(r)
             new == [client[c] EXCEPT !.pc = "answered", !.job = n]
  <2>1. r \in Requests /\ client[c].pc = "insert" /\ r.kind \in {"job", "book"}
    BY <1>0, <1>1, JobAdmissionAssumption DEF Appends, Asked
  <2>2. rows' = Append(rows, row) /\ row \in RowType
        /\ row.project = r.project /\ row.run = IF r.kind = "book" THEN "active" ELSE "none"
    BY <1>1, <2>1, NewRowType DEF Appends
  <2> HIDE DEF row
  <2>3. /\ Jobs' = Jobs \cup {n} /\ n \notin Jobs
        /\ \A j \in Jobs : rows'[j] = rows[j]
        /\ rows'[n] = row
    BY <1>0, <2>2, AppendedRows
  <2>4. client' = [client EXCEPT ![c] = new]
    BY <1>0, <1>1 DEF Appends, Answer
  <2>5. new.pc = "answered"
    BY <1>0 DEF ClientType
  <2> HIDE DEF new, n
  <2>6. \A d \in Clients : client'[d] = IF d = c THEN new ELSE client[d]
    BY <1>0, <2>4
  <2>7. W' = W \ {c}
    BY <2>5, <2>6 DEF PassingIn
  <2>8. C' \subseteq C \cup {n}
    BY <2>3 DEF CountedIn, Counted, Active
  <2>9. CASE r.kind = "job" /\ r.project \in P
    <3>1. c \in W
      BY <2>1, <2>9 DEF PassingIn
    <3>2. Cardinality(W') = Cardinality(W) - 1
      BY ZenonT(60), <1>f, <2>7, <3>1, FS_RemoveElement
    <3>3. IsFiniteSet(C \cup {n}) /\ Cardinality(C \cup {n}) <= Cardinality(C) + 1
          /\ Cardinality(C \cup {n}) \in Nat
      <4>1. IsFiniteSet(C \cup {n})
            /\ Cardinality(C \cup {n}) = IF n \in C THEN Cardinality(C) ELSE Cardinality(C) + 1
        BY <1>f, FS_AddElement
      <4>2. Cardinality(C \cup {n}) \in Nat
        BY <4>1, FS_CardinalityType
      <4>3. QED
        BY <1>f, <4>1, <4>2
    <3>4. Cardinality(C') <= Cardinality(C \cup {n})
      BY <2>8, <3>3, FS_Subset
    <3>5. QED
      BY <1>f, <1>f2, <1>p, <3>2, <3>3, <3>4 DEF PlacesWithin
  <2>10. CASE ~(r.kind = "job" /\ r.project \in P)
    <3>1. n \notin C'
      BY <2>1, <2>2, <2>3, <2>10 DEF CountedIn, Counted, Active
    <3>2. C' \subseteq C
      BY <2>8, <3>1
    <3>3. Cardinality(C') <= Cardinality(C)
      BY <1>f, <3>2, FS_Subset
    <3>4. W' \subseteq W
      BY <2>7
    <3>5. Cardinality(W') <= Cardinality(W)
      BY <1>f, <3>4, FS_Subset
    <3>6. QED
      BY <1>f, <1>f2, <1>p, <3>3, <3>5 DEF PlacesWithin
  <2>11. QED
    BY <2>9, <2>10
<1>2. ASSUME NEW c \in Clients, NEW new, Moves(c, new)
      PROVE  PlacesWithin(P, limit)'
  <2>1. UNCHANGED rows /\ Jobs' = Jobs
    BY <1>2 DEF Moves, Jobs
  <2>2. C' = C
    BY <2>1 DEF CountedIn, Counted, Active
  <2>3. \A d \in Clients : client'[d] = IF d = c THEN new ELSE client[d]
    BY <1>0, <1>2 DEF Moves
  <2>4. CASE new.pc = "check_chapter" /\ new.request.project \in P
    <3>1. Room(new.request.project)
      BY <1>2, <2>4, IdleType DEF Moves
    <3>2. Cardinality(C) < limit
      BY <2>4, <3>1
    <3>3. QED
      BY <1>f, <1>f2, <2>2, <3>2 DEF PlacesWithin
  <2>5. CASE ~(new.pc = "check_chapter" /\ new.request.project \in P)
    <3>1. c \in W' => c \in W
      <4> SUFFICES ASSUME c \in W' PROVE c \in W
        OBVIOUS
      <4>1. /\ new.pc = "insert" /\ new.request.kind = "job" /\ new.request.project \in P
        BY <2>3, <2>5 DEF PassingIn
      <4>2. client[c].pc = "check_chapter" /\ new.request = client[c].request
        <5>1. new.request.kind # "book"
          BY <4>1
        <5>2. QED
          BY <1>2, <4>1, <5>1, IdleType DEF Moves
      <4>3. QED
        BY <4>1, <4>2 DEF PassingIn
    <3>2. \A d \in W' : d \in W
      BY <2>3, <3>1 DEF PassingIn
    <3>3. Cardinality(W') <= Cardinality(W)
      BY <1>f, <3>2, FS_Subset
    <3>4. QED
      BY <1>f, <1>f2, <1>p, <2>2, <3>3 DEF PlacesWithin
  <2>6. QED
    BY <2>4, <2>5
<1>3. ASSUME Changes
      PROVE  PlacesWithin(P, limit)'
  <2>1. PICK j \in Jobs, row \in RowType :
           Changed(rows[j], row) /\ rows' = [rows EXCEPT ![j] = row]
    BY <1>3 DEF Changes
  <2>2. /\ Jobs' = Jobs
        /\ \A i \in Jobs : rows'[i] = IF i = j THEN row ELSE rows[i]
    BY <1>0, <2>1, ChangedRow
  <2>3. C' \subseteq C
    BY <2>1, <2>2 DEF CountedIn, Counted, Active, Changed
  <2>4. W' = W
    BY <1>3 DEF Changes, PassingIn
  <2>5. Cardinality(C') <= Cardinality(C)
    BY <1>f, <2>3, FS_Subset
  <2>6. QED
    BY <1>f, <1>f2, <1>p, <2>4, <2>5 DEF PlacesWithin
<1>4. ASSUME UNCHANGED <<rows, client>>
      PROVE  PlacesWithin(P, limit)'
  BY <1>p, <1>4 DEF PlacesWithin, CountedIn, Counted, Active, Jobs, PassingIn
<1>5. QED
  BY <1>0, <1>1, <1>2, <1>3, <1>4, NextStep DEF vars

Projects == {r.project : r \in Requests}

BoundInv ==
    /\ TypeInv
    /\ PlacesWithin(Projects, HardLimit)
    /\ \A p \in Projects : PlacesWithin({p}, ProjectLimit)

LEMMA BoundStep ==
    ASSUME BoundInv, [Next]_vars
    PROVE  BoundInv'
<1>1. TypeInv /\ TypeInv' /\ {HardLimit, ProjectLimit} \subseteq Nat \ {0}
  BY TypeStep, JobAdmissionAssumption DEF BoundInv
<1>2. ASSUME NEW q, Room(q) PROVE Cardinality(CountedIn(Projects)) < HardLimit
  <2>1. CountedIn(Projects) \subseteq Active
    BY DEF CountedIn, Counted
  <2>2. Cardinality(CountedIn(Projects)) <= Cardinality(Active)
        /\ Cardinality(CountedIn(Projects)) \in Nat /\ Cardinality(Active) \in Nat
    BY <1>1, <2>1, Finite, FS_Subset, FS_CardinalityType
  <2>3. QED
    BY <1>1, <1>2, <2>2 DEF Room
<1>3. PlacesWithin(Projects, HardLimit)'
  BY <1>1, <1>2, PlacesStep DEF BoundInv
<1>4. ASSUME NEW p \in Projects
      PROVE  PlacesWithin({p}, ProjectLimit)'
  <2>1. ASSUME Room(p) PROVE Cardinality(CountedIn({p})) < ProjectLimit
    <3>1. CountedIn({p}) \subseteq ActiveOf(p) /\ ActiveOf(p) \subseteq Active
      BY DEF CountedIn, Counted, ActiveOf
    <3>2. IsFiniteSet(ActiveOf(p))
      BY <1>1, <3>1, Finite, FS_Subset
    <3>3. Cardinality(CountedIn({p})) <= Cardinality(ActiveOf(p))
          /\ Cardinality(CountedIn({p})) \in Nat /\ Cardinality(ActiveOf(p)) \in Nat
      BY <1>1, <3>1, <3>2, Finite, FS_Subset, FS_CardinalityType
    <3>4. QED
      BY <1>1, <2>1, <3>3 DEF Room
  <2>2. PlacesWithin({p}, ProjectLimit)
    BY DEF BoundInv
  <2>3. QED
    BY <1>1, <2>1, <2>2, PlacesStep
<1>5. QED
  BY <1>1, <1>3, <1>4 DEF BoundInv

\* Creations that race pass the limit of the queue and the limit of their
\* project, which are checked in a statement of their own before the
\* insertion, by no more than one place for every client.
THEOREM AdmissionIsBounded == Spec => []AdmissionBounded
<1>1. Init => BoundInv
  <2> SUFFICES ASSUME Init PROVE BoundInv
    OBVIOUS
  <2>1. TypeInv /\ {HardLimit, ProjectLimit} \subseteq Nat \ {0}
    BY TypeInit, JobAdmissionAssumption
  <2>2. ASSUME NEW P, NEW limit \in Nat \ {0} PROVE PlacesWithin(P, limit)
    <3>1. CountedIn(P) = {}
      BY DEF Init, CountedIn, Counted, Active, Jobs
    <3>2. PassingIn(P) = {}
      BY IdleType DEF Init, PassingIn
    <3>3. Cardinality(Clients) \in Nat
      BY <2>1, Finite
    <3>4. QED
      BY <3>1, <3>2, <3>3, FS_EmptySet DEF PlacesWithin
  <2>3. QED
    BY <2>1, <2>2 DEF BoundInv
<1>2. BoundInv => AdmissionBounded
  <2> SUFFICES ASSUME BoundInv PROVE AdmissionBounded
    OBVIOUS
  <2>1. TypeInv /\ {HardLimit, ProjectLimit} \subseteq Nat \ {0}
    BY JobAdmissionAssumption DEF BoundInv
  <2>2. \A j \in Jobs : rows[j].project \in Projects
    <3>1. \A j \in Jobs : rows[j] \in RowType
      BY <2>1 DEF TypeInv, Jobs
    <3>2. QED
      BY <3>1 DEF RowType, Projects
  <2>3. Cardinality(Counted) <= HardLimit - 1 + Cardinality(Clients)
    <3>1. CountedIn(Projects) = Counted
      BY <2>2 DEF CountedIn, Counted, Active
    <3>2. QED
      BY <2>1, <3>1, Finite DEF BoundInv, PlacesWithin
  <2>4. ASSUME NEW j \in Jobs
        PROVE  Cardinality(Counted \cap ActiveOf(rows[j].project))
                  <= ProjectLimit - 1 + Cardinality(Clients)
    <3> DEFINE p == rows[j].project
    <3>1. CountedIn({p}) = Counted \cap ActiveOf(p)
      BY DEF CountedIn, Counted, ActiveOf
    <3>2. PlacesWithin({p}, ProjectLimit)
      BY <2>2 DEF BoundInv
    <3>3. Cardinality(CountedIn({p})) \in Nat /\ Cardinality(PassingIn({p})) \in Nat
          /\ Cardinality(Clients) \in Nat
      BY <2>1, Finite
    <3>4. Cardinality(CountedIn({p})) <= ProjectLimit - 1 + Cardinality(Clients)
      BY <2>1, <3>2, <3>3 DEF PlacesWithin
    <3>5. QED
      BY <3>1, <3>4
  <2>5. QED
    BY <2>3, <2>4 DEF AdmissionBounded
<1>3. QED
  BY <1>1, <1>2, BoundStep, PTL DEF Spec

-----------------------------------------------------------------------------
(***************************************************************************)
(* The partial unique indexes.                                             *)
(***************************************************************************)

SameChapter(x, y) ==
    /\ x.status = "active" /\ y.status = "active"
    /\ x.chapter = y.chapter /\ x.chapter # 0
SameRun(x, y) == x.run = "active" /\ y.run = "active" /\ x.project = y.project

LEMMA OneActivePlainly ==
    OneActive <=>
       \A i, j \in Jobs :
          SameChapter(rows[i], rows[j]) \/ SameRun(rows[i], rows[j]) => i = j
BY DEF OneActive, SameChapter, SameRun, ActiveOn, Active, RunsOf

LEMMA OneActiveStep ==
    ASSUME TypeInv, OneActive, [Next]_vars
    PROVE  OneActive'
<1> DEFINE Same(x, y) == SameChapter(x, y) \/ SameRun(x, y)
<1>0. /\ rows \in Seq(RowType) /\ Jobs \subseteq Nat /\ \A c \in Clients : Asked(c)
      /\ \A i, j \in Jobs : Same(rows[i], rows[j]) => i = j
  BY OneActivePlainly DEF TypeInv, Jobs
<1>s. \A x, y : Same(x, y) <=> Same(y, x)
  BY DEF SameChapter, SameRun
<1>q. SUFFICES \A i, j \in Jobs' : Same(rows'[i], rows'[j]) => i = j
  <2>1. OneActive' <=> \A i, j \in Jobs' : Same(rows'[i], rows'[j]) => i = j
    BY DEF OneActive, SameChapter, SameRun, ActiveOn, Active, RunsOf
  <2>2. QED
    BY <2>1
<1>1. ASSUME NEW c \in Clients, Appends(c)
      PROVE  \A i, j \in Jobs' : Same(rows'[i], rows'[j]) => i = j
  <2> DEFINE r == client[c].request
             n == Len(rows) + 1
             row == NewRow(r)
  <2>1. /\ r \in Requests /\ r.kind \in {"job", "book"}
        /\ r.kind = "book" => r.chapter = 0
        /\ r.kind = "job" => ActiveOn(r.chapter) = {}
        /\ r.kind = "book" => RunsOf(r.project) = {}
    BY <1>0, <1>1, JobAdmissionAssumption DEF Appends, Asked, Conflict
  <2>2. rows' = Append(rows, row) /\ row \in RowType
        /\ row.project = r.project /\ row.run = (IF r.kind = "book" THEN "active" ELSE "none")
        /\ row.chapter = r.chapter
    BY <1>1, <2>1, NewRowType DEF Appends
  <2> HIDE DEF row
  <2>3. /\ Jobs' = Jobs \cup {n}
        /\ \A j \in Jobs : rows'[j] = rows[j]
        /\ rows'[n] = row
    BY <1>0, <2>2, AppendedRows
  <2> HIDE DEF n
  <2>4. ASSUME NEW i \in Jobs PROVE ~Same(rows[i], row)
    BY <2>1, <2>2 DEF SameChapter, SameRun, ActiveOn, Active, RunsOf
  <2> HIDE DEF Same
  <2>5. QED
    BY <1>0, <1>s, <2>3, <2>4
<1>2. ASSUME UNCHANGED rows
      PROVE  \A i, j \in Jobs' : Same(rows'[i], rows'[j]) => i = j
  BY <1>0, <1>2 DEF Jobs
<1>3. ASSUME Changes
      PROVE  \A i, j \in Jobs' : Same(rows'[i], rows'[j]) => i = j
  <2>1. PICK k \in Jobs, row \in RowType :
           Changed(rows[k], row) /\ rows' = [rows EXCEPT ![k] = row]
    BY <1>3 DEF Changes
  <2>2. /\ Jobs' = Jobs
        /\ \A i \in Jobs : rows'[i] = IF i = k THEN row ELSE rows[i]
    BY <1>0, <2>1, ChangedRow
  <2>3. ASSUME NEW i \in Jobs, i # k PROVE ~Same(rows[i], row)
    <3>1. ~Same(rows[i], rows[k])
      BY <1>0, <2>3
    <3>2. QED
      BY <2>1, <3>1 DEF Changed, SameChapter, SameRun, ActiveOn, Active
  <2> HIDE DEF Same
  <2>4. QED
    BY <1>0, <1>s, <2>2, <2>3
<1>4. QED
  BY <1>1, <1>2, <1>3, NextStep DEF Moves, vars

\* No two jobs of a chapter and no two runs of a project are ever active
\* together: the insertions that race and the dead letters that are revived
\* meet in the partial unique indexes.
THEOREM ActiveJobsAreUnique == Spec => []OneActive
<1>1. Init => TypeInv /\ OneActive
  <2>1. Init => OneActive
    BY DEF Init, OneActive, Jobs
  <2>2. QED
    BY <2>1, TypeInit
<1>2. TypeInv /\ OneActive /\ [Next]_vars => TypeInv' /\ OneActive'
  BY TypeStep, OneActiveStep
<1>3. QED
  BY <1>1, <1>2, PTL DEF Spec
=============================================================================
