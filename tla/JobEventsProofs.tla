--------------------------- MODULE JobEventsProofs ---------------------------
(***************************************************************************)
(* Theorems about JobEvents for every set of writers, every finite set of  *)
(* readers and every value of the bounds.                                  *)
(***************************************************************************)
EXTENDS JobEvents, FiniteSetTheorems, SequenceTheorems, TLAPS

-----------------------------------------------------------------------------
(***************************************************************************)
(* Types.                                                                  *)
(***************************************************************************)

Positive == Nat \ {0}
Event == [id : Positive, seq : Positive]
Transactions ==
    [pc : {"idle", "updated", "inserted"}, seq : Nat, id : Nat, final : BOOLEAN]
Streams ==
    [pc : {"closed", "read", "emit", "waiting"}, cursor : Nat, batch : Seq(Event),
     emitted : BOOLEAN, woken : BOOLEAN, complete : BOOLEAN]

WriterTypes ==
    /\ terminal \in BOOLEAN /\ sequence \in Nat /\ history \in Seq(Event)
    /\ nextId \in Positive
    /\ writer \in [Writers -> Transactions]
    /\ gaps \in 0..MaxGaps

ReaderTypes ==
    /\ slots \in Int
    /\ reader \in [Readers -> Streams]
    /\ received \in [Readers -> Seq(Positive)]

TypeInv == WriterTypes /\ ReaderTypes

LEMMA InitialValues ==
    /\ NoTransaction \in Transactions /\ NoTransaction.pc = "idle"
    /\ Closed \in Streams /\ Closed.pc = "closed" /\ Closed.batch = <<>>
BY DEF NoTransaction, Transactions, Closed, Streams

-----------------------------------------------------------------------------
(***************************************************************************)
(* The writers.  The lock on the job's row admits one transaction at a     *)
(* time, so the id it draws is above every id that is visible, and its     *)
(* number is the next one.                                                 *)
(***************************************************************************)

OneWriter ==
    \A v, w \in Writers : writer[v].pc # "idle" /\ writer[w].pc # "idle" => v = w

Ordered ==
    \A i, j \in 1..Len(history) : i < j => history[i].id < history[j].id

Numbered ==
    /\ sequence = Len(history)
    /\ \A i \in 1..Len(history) : history[i].seq = i
    /\ \A i \in 1..Len(history) : history[i].id < nextId

NextInLine(w) ==
    /\ writer[w].pc # "idle" => writer[w].seq = sequence + 1 /\ Len(history) < MaxEvents
    /\ writer[w].pc = "inserted" =>
          /\ writer[w].id \in Positive /\ writer[w].id < nextId
          /\ \A i \in 1..Len(history) : history[i].id < writer[w].id

\* No more ids are drawn than there are events and gaps, but for the one of
\* the open transaction.
Drawn ==
    /\ Len(history) <= MaxEvents
    /\ nextId <= Len(history) + gaps + 2
    /\ (\A w \in Writers : writer[w].pc # "inserted") => nextId <= Len(history) + gaps + 1
    /\ \A i \in 1..Len(history) : history[i].id \in Ids

WriterInv ==
    /\ WriterTypes /\ OneWriter /\ Ordered /\ Numbered /\ Drawn
    /\ \A w \in Writers : NextInLine(w)

writers == <<terminal, sequence, history, nextId, writer, gaps>>

LEMMA WriterInit == Init => WriterInv
<1> SUFFICES ASSUME Init PROVE WriterInv
  OBVIOUS
<1>1. history = <<>> /\ Len(history) = 0 /\ sequence = 0 /\ nextId = 1 /\ gaps = 0
      /\ \A w \in Writers : writer[w] = NoTransaction
  BY DEF Init
<1>2. WriterTypes
  <2>1. writer \in [Writers -> Transactions]
    BY InitialValues DEF Init
  <2>2. history \in Seq(Event)
    BY <1>1
  <2>3. terminal \in BOOLEAN
    BY DEF Init
  <2>4. QED
    BY <1>1, <2>1, <2>2, <2>3, JobEventsAssumption DEF WriterTypes, Positive
<1>3. QED
  BY <1>1, <1>2, InitialValues, JobEventsAssumption
     DEF WriterInv, OneWriter, Ordered, Numbered, NextInLine, Drawn

\* The row of a commit is the last one in the order of ids.
LEMMA CommitAppends ==
    ASSUME history \in Seq(Event), NEW row \in Event,
           \A i \in 1..Len(history) : history[i].id < row.id
    PROVE  InOrder(row) = Append(history, row)
<1>1. \A i \in 1..Len(history) : history[i] \in Event
  OBVIOUS
<1>2. \A i \in 1..Len(history) : history[i].id <= row.id
  <2>1. row.id \in Nat /\ \A i \in 1..Len(history) : history[i].id \in Nat
    BY <1>1 DEF Event, Positive
  <2>2. QED
    BY <2>1
<1>3. UpTo(row.id) = 1..Len(history)
  BY <1>2 DEF UpTo
<1>4. Cardinality(UpTo(row.id)) = Len(history)
  <2>1. Cardinality(1..Len(history)) = IF 1 > Len(history) THEN 0 ELSE Len(history) - 1 + 1
    BY FS_Interval
  <2>2. QED
    BY <1>3, <2>1
<1>5. SubSeq(history, 1, Len(history)) = history
      /\ SubSeq(history, Len(history) + 1, Len(history)) = <<>>
  OBVIOUS
<1>6. InOrder(row) = SubSeq(history, 1, Len(history) + 1 - 1) \o <<row>>
                       \o SubSeq(history, Len(history) + 1, Len(history))
  BY <1>4 DEF InOrder, InsertAt
<1>7. Len(history) + 1 - 1 = Len(history)
  OBVIOUS
<1>8. history \o <<row>> = Append(history, row)
      /\ Append(history, row) \o <<>> = Append(history, row)
  OBVIOUS
<1>9. QED
  BY <1>5, <1>6, <1>7, <1>8

LEMMA WriterStep ==
    ASSUME WriterInv, [Next]_vars
    PROVE  WriterInv'
<1>0. /\ WriterTypes /\ OneWriter /\ Ordered /\ Numbered /\ Drawn
      /\ \A w \in Writers : NextInLine(w)
      /\ history \in Seq(Event) /\ Len(history) \in Nat /\ gaps \in Nat /\ nextId \in Nat
      /\ MaxEvents \in Nat /\ MaxGaps \in Nat
  BY JobEventsAssumption DEF WriterInv, WriterTypes, Positive
<1>1. ASSUME NEW w \in Writers, Begin(w) PROVE WriterInv'
  <2>1. PICK final \in BOOLEAN :
           writer' = [writer EXCEPT ![w] = [pc |-> "updated", seq |-> sequence + 1,
                                            id |-> 0, final |-> final]]
    BY <1>1 DEF Begin
  <2> DEFINE t == [pc |-> "updated", seq |-> sequence + 1, id |-> 0, final |-> final]
  <2>2. t \in Transactions /\ t.pc = "updated" /\ t.seq = sequence + 1
    BY <1>0 DEF WriterTypes, Transactions
  <2>3. writer' = [writer EXCEPT ![w] = t]
    BY <2>1
  <2> HIDE DEF t
  <2>4. writer' \in [Writers -> Transactions]
        /\ \A v \in Writers : writer'[v] = IF v = w THEN t ELSE writer[v]
    BY <1>0, <2>2, <2>3 DEF WriterTypes
  <2>5. /\ UNCHANGED <<terminal, sequence, history, nextId, gaps>>
        /\ Len(history) < MaxEvents
        /\ \A v \in Writers : writer[v].pc = "idle"
    BY <1>1 DEF Begin, RowFree, Open
  <2>6. WriterTypes' /\ OneWriter' /\ Ordered' /\ Numbered' /\ Drawn'
    BY <1>0, <2>2, <2>4, <2>5 DEF WriterTypes, OneWriter, Ordered, Numbered, Drawn
  <2>7. \A v \in Writers : NextInLine(v)'
    BY <1>0, <2>2, <2>4, <2>5 DEF NextInLine
  <2>8. QED
    BY <2>6, <2>7 DEF WriterInv
<1>2. ASSUME NEW w \in Writers, Insert(w) PROVE WriterInv'
  <2> DEFINE t == [writer[w] EXCEPT !.pc = "inserted", !.id = nextId]
  <2>1. /\ t \in Transactions /\ t.pc = "inserted" /\ t.id = nextId /\ t.seq = writer[w].seq
        /\ writer[w].pc = "updated"
    BY <1>0, <1>2 DEF WriterTypes, Transactions, Insert
  <2>2. writer' = [writer EXCEPT ![w] = t]
    BY <1>2 DEF Insert
  <2> HIDE DEF t
  <2>3. writer' \in [Writers -> Transactions]
        /\ \A v \in Writers : writer'[v] = IF v = w THEN t ELSE writer[v]
    BY <1>0, <2>1, <2>2 DEF WriterTypes
  <2>4. UNCHANGED <<terminal, sequence, history, gaps>> /\ nextId' = nextId + 1
    BY <1>2 DEF Insert
  <2>5. \A v \in Writers : v # w => writer[v].pc = "idle"
    BY <1>0, <2>1 DEF OneWriter
  <2>6. WriterTypes' /\ OneWriter' /\ Ordered'
    BY <1>0, <2>1, <2>3, <2>4, <2>5 DEF WriterTypes, OneWriter, Ordered, Positive
  <2>7. Numbered' /\ Drawn'
    <3>1. \A v \in Writers : writer[v].pc # "inserted"
      BY <2>1, <2>5
    <3>2. nextId <= Len(history) + gaps + 1
      BY <1>0, <3>1 DEF Drawn
    <3>3. writer'[w].pc = "inserted"
      BY <2>1, <2>3
    <3>4. \A i \in 1..Len(history) : history[i] \in Event
      BY <1>0
    <3>5. \A i \in 1..Len(history) : history[i].id \in Nat
      BY <3>4 DEF Event, Positive
    <3>6. Numbered'
      BY <1>0, <2>4, <3>5 DEF Numbered
    <3>7. Drawn'
      BY <1>0, <2>4, <3>2, <3>3 DEF Drawn
    <3>8. QED
      BY <3>6, <3>7
  <2>8. ASSUME NEW v \in Writers PROVE NextInLine(v)'
    <3>1. CASE v = w
      BY <1>0, <2>1, <2>3, <2>4, <3>1 DEF NextInLine, Numbered, WriterTypes
    <3>2. CASE v # w
      BY <2>3, <2>5, <3>2 DEF NextInLine
    <3>3. QED
      BY <3>1, <3>2
  <2>9. QED
    BY <2>6, <2>7, <2>8 DEF WriterInv
<1>3. ASSUME NEW w \in Writers, Commit(w) PROVE WriterInv'
  <2> DEFINE t == writer[w]
             row == [id |-> t.id, seq |-> t.seq]
             n == Len(history)
  <2>1. /\ t \in Transactions /\ t.pc = "inserted" /\ t.seq = n + 1 /\ n < MaxEvents
        /\ t.id \in Positive /\ t.id < nextId
        /\ \A i \in 1..n : history[i].id < t.id
    BY <1>0, <1>3 DEF WriterTypes, Commit, NextInLine, Numbered
  <2>2. row \in Event /\ row.id = t.id /\ row.seq = n + 1
    BY <1>0, <2>1 DEF Event, Positive
  <2>3. history' = Append(history, row)
    <3>1. history' = InOrder(row)
      BY <1>3 DEF Commit
    <3>2. QED
      BY <1>0, <2>1, <2>2, <3>1, CommitAppends
  <2>4. /\ terminal' = t.final /\ sequence' = n + 1 /\ UNCHANGED <<nextId, gaps>>
        /\ writer' = [writer EXCEPT ![w] = NoTransaction]
    BY <1>3, <2>1 DEF Commit
  <2> HIDE DEF row
  <2>5. /\ history' \in Seq(Event) /\ Len(history') = n + 1
        /\ \A i \in 1..n : history'[i] = history[i]
        /\ history'[n + 1] = row
    BY <1>0, <2>2, <2>3
  <2>6. writer' \in [Writers -> Transactions]
        /\ \A v \in Writers : writer'[v].pc = "idle"
    BY <1>0, <2>1, <2>4, InitialValues DEF WriterTypes, OneWriter
  <2>7. WriterTypes'
    BY <1>0, <2>1, <2>4, <2>5, <2>6 DEF WriterTypes, Transactions
  <2>8. OneWriter' /\ \A v \in Writers : NextInLine(v)'
    BY <2>6 DEF OneWriter, NextInLine
  <2>9. Ordered'
    BY <1>0, <2>1, <2>2, <2>5 DEF Ordered
  <2>10. Numbered'
    <3>1. ASSUME NEW i \in 1..(n + 1) PROVE history'[i].seq = i /\ history'[i].id < nextId
      <4>1. CASE i = n + 1
        BY <2>1, <2>2, <2>5, <4>1
      <4>2. CASE i \in 1..n
        BY <1>0, <2>5, <4>2 DEF Numbered
      <4>3. QED
        BY <1>0, <4>1, <4>2
    <3>2. QED
      BY <2>4, <2>5, <3>1 DEF Numbered
  <2>11. Drawn'
    <3>1. nextId' <= Len(history') + gaps' + 1
      BY <1>0, <2>4, <2>5 DEF Drawn
    <3>2. t.id <= n + gaps + 1 /\ gaps <= MaxGaps /\ t.id \in Nat /\ t.id >= 1
      BY SMTT(60), <1>0, <2>1 DEF Drawn, WriterTypes, Positive
    <3>3. row.id \in Ids
      BY SMTT(30), <1>0, <2>1, <2>2, <3>2 DEF Ids
    <3>4. ASSUME NEW i \in 1..Len(history') PROVE history'[i].id \in Ids
      <4>1. CASE i = n + 1
        BY <2>5, <3>3, <4>1
      <4>2. CASE i \in 1..n
        BY <1>0, <2>5, <4>2 DEF Drawn
      <4>3. QED
        BY <1>0, <2>5, <4>1, <4>2
    <3>5. QED
      BY <1>0, <2>1, <2>4, <2>5, <3>1, <3>4 DEF Drawn
  <2>12. QED
    BY <2>7, <2>8, <2>9, <2>10, <2>11 DEF WriterInv
<1>4. ASSUME NEW w \in Writers, Rollback(w) PROVE WriterInv'
  <2>1. /\ UNCHANGED <<terminal, sequence, history, nextId>> /\ gaps' = gaps + 1
        /\ gaps < MaxGaps
        /\ writer' = [writer EXCEPT ![w] = NoTransaction] /\ writer[w].pc # "idle"
    BY <1>4 DEF Rollback
  <2>2. writer' \in [Writers -> Transactions]
        /\ \A v \in Writers : writer'[v].pc = "idle"
    BY <1>0, <2>1, InitialValues DEF WriterTypes, OneWriter
  <2>3. WriterTypes' /\ OneWriter' /\ Ordered' /\ Numbered'
    BY <1>0, <2>1, <2>2 DEF WriterTypes, OneWriter, Ordered, Numbered
  <2>4. Drawn' /\ \A v \in Writers : NextInLine(v)'
    BY <1>0, <2>1, <2>2 DEF Drawn, NextInLine
  <2>5. QED
    BY <2>3, <2>4 DEF WriterInv
<1>5. ASSUME OtherJob PROVE WriterInv'
  <2>1. /\ UNCHANGED <<terminal, sequence, history, writer>> /\ nextId' = nextId + 1
        /\ gaps' = gaps + 1 /\ gaps < MaxGaps
    BY <1>5 DEF OtherJob
  <2>2. \A i \in 1..Len(history) : history[i] \in Event
    BY <1>0
  <2>3. WriterTypes' /\ OneWriter' /\ Ordered' /\ Numbered'
    BY <1>0, <2>1, <2>2 DEF WriterTypes, OneWriter, Ordered, Numbered, Positive, Event
  <2>4. \A w \in Writers : writer[w] \in Transactions
    BY <1>0 DEF WriterTypes
  <2>5. Drawn' /\ \A v \in Writers : NextInLine(v)'
    BY <1>0, <2>1, <2>4 DEF Drawn, NextInLine, Positive, Transactions
  <2>6. QED
    BY <2>3, <2>5 DEF WriterInv
<1>6. ASSUME UNCHANGED writers PROVE WriterInv'
  BY <1>0, <1>6 DEF WriterInv, WriterTypes, OneWriter, Ordered, Numbered, Drawn, NextInLine,
     writers
<1>7. ASSUME NEW r \in Readers, Connect(r) \/ Serve(r) \/ Disconnect(r)
      PROVE  UNCHANGED writers
  BY <1>7 DEF Connect, Serve, Disconnect, Read, Emit, CheckStatus, Wait, job, writers
<1>8. CASE UNCHANGED vars
  BY <1>6, <1>8 DEF vars, job, writers
<1>9. QED
  BY <1>1, <1>2, <1>3, <1>4, <1>5, <1>6, <1>7, <1>8 DEF Next, Write

\* The numbers and the ids of a job's events agree, although ids are shared
\* with other jobs and transactions roll back: event_sequence is raised in the
\* statement that locks the job's row.
THEOREM EventsAreNumbered == Spec => []HistoryOrdered
<1>1. WriterInv => HistoryOrdered
  BY DEF WriterInv, WriterTypes, Numbered, HistoryOrdered
<1>2. QED
  BY <1>1, WriterInit, WriterStep, PTL DEF Spec

-----------------------------------------------------------------------------
(***************************************************************************)
(* The readers.  What the client has is the beginning of the history, the  *)
(* batch that the server holds is what comes next, and the cursor is the   *)
(* id between the two.                                                     *)
(***************************************************************************)

LastOf(ids) == IF ids = <<>> THEN 0 ELSE ids[Len(ids)]

Continues(ids, stream) ==
    /\ Len(ids) + Len(stream.batch) <= Len(history)
    /\ \A i \in 1..Len(ids) : ids[i] = history[i].id
    /\ \A i \in 1..Len(stream.batch) : stream.batch[i] = history[Len(ids) + i]
    /\ stream.pc # "emit" => stream.batch = <<>>
    /\ stream.pc # "closed" => stream.cursor = LastOf(ids)

Follows(r) == Continues(received[r], reader[r])

StreamInv ==
    /\ WriterInv /\ ReaderTypes
    /\ \A r \in Readers : Follows(r)

LEMMA LastReceivedIsLast == \A r \in Readers : LastReceived(r) = LastOf(received[r])
BY DEF LastReceived, Last, LastOf

LEMMA Shorter ==
    \A a, b, c \in Nat :
       a + b <= c =>
          /\ a <= c /\ a \in 0..c /\ a + 0 <= c
          /\ b > 0 => a + 1 + (b - 1) <= c
OBVIOUS

LEMMA Lengths ==
    ASSUME StreamInv, NEW r \in Readers
    PROVE  /\ received[r] \in Seq(Positive) /\ Len(received[r]) \in Nat
           /\ reader[r] \in Streams /\ reader[r].batch \in Seq(Event)
           /\ Len(reader[r].batch) \in Nat
           /\ history \in Seq(Event) /\ Len(history) \in Nat
           /\ Follows(r) /\ slots \in Int
<1>1. /\ received[r] \in Seq(Positive) /\ reader[r] \in Streams /\ history \in Seq(Event)
      /\ Follows(r) /\ slots \in Int
  BY DEF StreamInv, ReaderTypes, WriterInv, WriterTypes
<1>2. reader[r].batch \in Seq(Event)
  BY <1>1 DEF Streams
<1>3. QED
  BY <1>1, <1>2

\* With a cursor at the last event received, the events up to the cursor are
\* those received: the batch starts with the next one.
LEMMA ReadNext ==
    ASSUME WriterInv, NEW n \in 0..Len(history), NEW cursor \in Nat,
           cursor = IF n = 0 THEN 0 ELSE history[n].id
    PROVE  /\ ListAfter(cursor) \in Seq(Event)
           /\ n + Len(ListAfter(cursor)) <= Len(history)
           /\ \A i \in 1..Len(ListAfter(cursor)) : ListAfter(cursor)[i] = history[n + i]
<1>1. /\ history \in Seq(Event) /\ Ordered /\ Batch \in Nat /\ Len(history) \in Nat
  BY JobEventsAssumption DEF WriterInv, WriterTypes
<1>2. \A i \in 1..Len(history) : history[i] \in Event
  BY <1>1
<1>3. \A i \in 1..Len(history) : history[i].id \in Nat /\ history[i].id > 0
  BY <1>2 DEF Event, Positive
<1>4. ASSUME NEW i \in 1..Len(history) PROVE history[i].id <= cursor <=> i <= n
  <2>1. CASE n = 0
    BY <1>3, <2>1
  <2>2. CASE n # 0
    <3>1. n \in 1..Len(history) /\ cursor = history[n].id
      BY <1>1, <2>2
    <3>2. CASE i < n
      BY <1>1, <1>3, <3>1, <3>2 DEF Ordered
    <3>3. CASE i = n
      BY <1>3, <3>1, <3>3
    <3>4. CASE n < i
      <4>1. history[n].id < history[i].id
        BY <1>1, <3>1, <3>4 DEF Ordered
      <4>2. QED
        BY SMTT(60), <1>3, <3>1, <3>4, <4>1
    <3>5. QED
      BY <3>2, <3>3, <3>4
  <2>3. QED
    BY <2>1, <2>2
<1>5. UpTo(cursor) = 1..n
  BY <1>1, <1>4 DEF UpTo
<1>6. Cardinality(UpTo(cursor)) = n
  <2>1. Cardinality(1..n) = IF 1 > n THEN 0 ELSE n - 1 + 1
    BY FS_Interval
  <2>2. QED
    BY <1>5, <2>1
<1> DEFINE last == IF Len(history) > n + Batch THEN n + Batch ELSE Len(history)
<1>7. ListAfter(cursor) = SubSeq(history, n + 1, last)
  BY <1>6 DEF ListAfter
<1>8. last \in n..Len(history)
  BY <1>1
<1> HIDE DEF last
<1>9. /\ SubSeq(history, n + 1, last) \in Seq(Event)
      /\ Len(SubSeq(history, n + 1, last)) = last - n
      /\ \A i \in 1..(last - n) : SubSeq(history, n + 1, last)[i] = history[n + i]
  BY <1>1, <1>8
<1>10. last - n \in Nat /\ n + (last - n) <= Len(history)
  BY <1>1, <1>8
<1>11. QED
  BY <1>7, <1>9, <1>10

LEMMA StreamInit == Init => StreamInv
<1> SUFFICES ASSUME Init PROVE StreamInv
  OBVIOUS
<1>1. WriterInv
  BY WriterInit
<1>2. /\ history = <<>> /\ Len(history) = 0
      /\ \A r \in Readers : reader[r] = Closed /\ received[r] = <<>>
  BY DEF Init
<1>3. reader \in [Readers -> Streams]
  BY InitialValues DEF Init
<1>4. received \in [Readers -> Seq(Positive)]
  <2>1. <<>> \in Seq(Positive)
    OBVIOUS
  <2>2. QED
    BY <2>1 DEF Init
<1>5. slots \in Int
  BY JobEventsAssumption DEF Init
<1>6. ASSUME NEW r \in Readers PROVE Follows(r)
  <2>1. Continues(<<>>, Closed)
    <3>1. Len(<<>>) = 0
      OBVIOUS
    <3>2. Len(Closed.batch) = 0
      BY InitialValues
    <3>3. QED
      BY <1>2, <3>1, <3>2, InitialValues DEF Continues
  <2>2. QED
    BY <1>2, <2>1 DEF Follows
<1>7. QED
  BY <1>1, <1>3, <1>4, <1>5, <1>6 DEF StreamInv, ReaderTypes

\* The history grows at its end only, so a commit disturbs no reader.
LEMMA WritersKeepReaders ==
    ASSUME StreamInv, Write
    PROVE  StreamInv'
<1>0. /\ WriterInv /\ WriterInv' /\ ReaderTypes /\ \A r \in Readers : Follows(r)
      /\ history \in Seq(Event) /\ reader \in [Readers -> Streams]
      /\ received \in [Readers -> Seq(Positive)] /\ slots \in Int
  BY WriterStep DEF StreamInv, Next, WriterInv, WriterTypes, ReaderTypes
<1>1. UNCHANGED <<slots, received>>
  BY DEF Write, Begin, Insert, Commit, Rollback, OtherJob, streams
<1>2. \/ UNCHANGED history
      \/ \E row \in Event : history' = Append(history, row)
  <2>1. ASSUME NEW w \in Writers, Commit(w)
        PROVE  \E row \in Event : history' = Append(history, row)
    <3> DEFINE row == [id |-> writer[w].id, seq |-> writer[w].seq]
    <3>1. /\ writer[w] \in Transactions /\ writer[w].pc = "inserted"
          /\ NextInLine(w) /\ sequence \in Nat
      BY <1>0, <2>1 DEF WriterInv, WriterTypes, Commit
    <3>2. row \in Event /\ row.id = writer[w].id
      BY <3>1 DEF Event, Positive, NextInLine
    <3>3. \A i \in 1..Len(history) : history[i].id < row.id
      BY <3>1, <3>2 DEF NextInLine
    <3>4. history' = InOrder(row)
      BY <2>1 DEF Commit
    <3> HIDE DEF row
    <3>5. QED
      BY <1>0, <3>2, <3>3, <3>4, CommitAppends
  <2>2. QED
    BY <2>1 DEF Write, Begin, Insert, Rollback, OtherJob
<1>3. /\ Len(history) \in Nat /\ Len(history') \in Nat /\ Len(history) <= Len(history')
      /\ \A i \in 1..Len(history) : history'[i] = history[i]
  BY SMTT(60), <1>0, <1>2
<1>4. /\ reader' \in [Readers -> Streams]
      /\ \A r \in Readers :
            /\ reader'[r].pc = reader[r].pc /\ reader'[r].batch = reader[r].batch
            /\ reader'[r].cursor = reader[r].cursor
  <2>1. CASE UNCHANGED reader
    BY <1>0, <2>1
  <2>2. CASE reader' = [r \in Readers |->
                          [reader[r] EXCEPT !.woken = @ \/ reader[r].pc = "waiting"]]
    <3>1. ASSUME NEW r \in Readers
          PROVE  /\ reader'[r] \in Streams
                 /\ reader'[r].pc = reader[r].pc /\ reader'[r].batch = reader[r].batch
                 /\ reader'[r].cursor = reader[r].cursor
      <4>1. reader[r] \in Streams
        BY <1>0
      <4>2. reader'[r] = [reader[r] EXCEPT !.woken = @ \/ reader[r].pc = "waiting"]
        BY <2>2
      <4>3. QED
        BY <4>1, <4>2 DEF Streams
    <3>2. reader' \in [Readers -> Streams]
      BY <2>2, <3>1
    <3>3. QED
      BY <3>1, <3>2
  <2>3. QED
    BY <2>1, <2>2 DEF Write, Begin, Insert, Commit, Rollback, OtherJob, streams
<1>5. ASSUME NEW r \in Readers PROVE Follows(r)'
  <2>1. /\ Len(received[r]) \in Nat /\ Len(reader[r].batch) \in Nat
        /\ Continues(received[r], reader[r])
    BY Lengths DEF Follows
  <2> DEFINE m == Len(received[r])
             b == Len(reader[r].batch)
  <2>c. /\ m + b <= Len(history)
        /\ \A i \in 1..m : received[r][i] = history[i].id
        /\ \A i \in 1..b : reader[r].batch[i] = history[m + i]
    BY <2>1, Zenon DEF Continues
  <2> HIDE DEF m, b
  <2>n. m \in Nat /\ b \in Nat /\ Len(history) \in Nat /\ Len(history') \in Nat
        /\ Len(history) <= Len(history')
    BY <1>3, <2>1 DEF m, b
  <2>2. m + b <= Len(history')
    BY <2>n, <2>c
  <2>3. ASSUME NEW i \in 1..m PROVE received[r][i] = history'[i].id
    <3>1. i \in 1..Len(history)
      BY <2>n, <2>c
    <3>2. QED
      BY <1>3, <2>c, <3>1
  <2>4. ASSUME NEW i \in 1..b PROVE reader[r].batch[i] = history'[m + i]
    <3>1. m + i \in 1..Len(history)
      BY <2>n, <2>c
    <3>2. QED
      BY <1>3, <2>c, <3>1
  <2> USE DEF m, b
  <2>5. QED
    BY <1>1, <1>4, <2>1, <2>2, <2>3, <2>4 DEF Follows, Continues
<1>6. QED
  BY <1>0, <1>1, <1>4, <1>5 DEF StreamInv, ReaderTypes

\* Only r's part of the state of the readers changes.
Serves(r, stream, ids) ==
    /\ reader' = [reader EXCEPT ![r] = stream]
    /\ received' = [received EXCEPT ![r] = ids]
    /\ stream \in Streams /\ ids \in Seq(Positive)
    /\ Continues(ids, stream)

LEMMA ServesIsEnough ==
    ASSUME StreamInv, WriterInv', UNCHANGED history, slots' \in Int,
           NEW r \in Readers, NEW stream, NEW ids, Serves(r, stream, ids)
    PROVE  StreamInv'
<1>1. /\ reader' \in [Readers -> Streams] /\ received' \in [Readers -> Seq(Positive)]
      /\ reader'[r] = stream /\ received'[r] = ids
      /\ \A q \in Readers : q # r => reader'[q] = reader[q] /\ received'[q] = received[q]
  BY DEF StreamInv, ReaderTypes, Serves
<1>2. ASSUME NEW q \in Readers PROVE Follows(q)'
  <2>1. Continues(received'[q], reader'[q])
    BY <1>1 DEF StreamInv, Follows, Serves
  <2>2. QED
    BY <2>1 DEF Follows, Continues
<1>3. QED
  BY <1>1, <1>2 DEF StreamInv, ReaderTypes

LEMMA ReaderStep ==
    ASSUME StreamInv, NEW r \in Readers, Connect(r) \/ Serve(r) \/ Disconnect(r)
    PROVE  StreamInv'
<1> DEFINE s == reader[r]
           ids == received[r]
<1>0. /\ WriterInv /\ WriterInv' /\ Follows(r) /\ history \in Seq(Event)
      /\ s \in Streams /\ ids \in Seq(Positive) /\ slots \in Int
      /\ received = [received EXCEPT ![r] = ids]
      /\ Len(ids) \in Nat /\ Len(history) \in Nat /\ Continues(ids, s)
      /\ s.batch \in Seq(Event) /\ Len(s.batch) \in Nat
  <2>1. WriterInv'
    BY WriterStep DEF StreamInv, Next
  <2>2. WriterInv /\ received = [received EXCEPT ![r] = ids]
    BY DEF StreamInv, ReaderTypes
  <2>3. QED
    BY <2>1, <2>2, Lengths DEF Follows
<1>c. /\ Len(ids) + Len(s.batch) <= Len(history)
      /\ \A i \in 1..Len(ids) : ids[i] = history[i].id
      /\ \A i \in 1..Len(s.batch) : s.batch[i] = history[Len(ids) + i]
      /\ s.pc # "emit" => s.batch = <<>>
      /\ s.pc # "closed" => s.cursor = LastOf(ids)
  BY <1>0, Zenon DEF Continues
<1>n. Len(ids) \in Nat /\ Len(history) \in Nat /\ Len(s.batch) \in Nat
  BY <1>0
<1>m. Len(ids) + Len(s.batch) <= Len(history)
  BY <1>c
<1>1. UNCHANGED history /\ slots' \in Int
  BY <1>0 DEF Connect, Serve, Disconnect, Read, Emit, CheckStatus, Wait, Close, job
<1>2. ASSUME NEW stream \in Streams, reader' = [reader EXCEPT ![r] = stream],
             UNCHANGED received,
             \/ stream.pc = "closed" /\ stream.batch = <<>>
             \/ stream.pc \in {"read", "waiting"} /\ stream.batch = <<>>
                /\ stream.cursor = LastOf(ids)
      PROVE  StreamInv'
  <2>1. Continues(ids, stream)
    <3>1. stream.batch = <<>> /\ Len(stream.batch) = 0
      BY <1>2
    <3>2. Len(ids) + Len(stream.batch) <= Len(history)
      <4>1. Len(ids) + 0 <= Len(history)
        BY <1>m, <1>n, Shorter
      <4>2. QED
        BY <3>1, <4>1
    <3>3. \A i \in 1..Len(stream.batch) : stream.batch[i] = history[Len(ids) + i]
      BY <3>1
    <3>4. QED
      BY <1>c, <1>2, <3>1, <3>2, <3>3, Zenon DEF Continues
  <2>2. Serves(r, stream, ids)
    BY <1>0, <1>2, <2>1 DEF Serves
  <2>3. QED
    BY <1>0, <1>1, <2>2, ServesIsEnough
<1>3. CASE Connect(r)
  <2> DEFINE stream == [Closed EXCEPT !.pc = "read", !.cursor = LastReceived(r)]
  <2>1. LastReceived(r) = LastOf(ids) /\ LastOf(ids) \in Nat
    BY <1>0, LastReceivedIsLast DEF LastOf, Positive
  <2>2. /\ stream \in Streams /\ stream.pc = "read" /\ stream.batch = <<>>
        /\ stream.cursor = LastOf(ids)
    <3> DEFINE cursor == LastReceived(r)
               opened == [Closed EXCEPT !.pc = "read", !.cursor = cursor]
    <3>1. cursor \in Nat /\ cursor = LastOf(ids)
      BY <2>1
    <3> HIDE DEF cursor
    <3>2. /\ opened \in Streams /\ opened.pc = "read" /\ opened.batch = <<>>
          /\ opened.cursor = cursor
      BY <3>1, InitialValues DEF Streams
    <3>3. stream = opened
      BY DEF cursor
    <3>4. QED
      BY <3>1, <3>2, <3>3
  <2>3. reader' = [reader EXCEPT ![r] = stream] /\ UNCHANGED received
    BY <1>3 DEF Connect
  <2> HIDE DEF stream
  <2>4. QED
    BY <1>2, <2>2, <2>3
<1>4. CASE Read(r)
  <2> DEFINE rows == ListAfter(s.cursor)
             stream == [s EXCEPT !.pc = "emit", !.batch = rows, !.emitted = rows # <<>>]
  <2>1. s.pc = "read" /\ s.cursor = LastOf(ids) /\ s.cursor \in Nat
    BY <1>0, <1>c, <1>4 DEF Read, Streams
  <2>2. Len(ids) \in 0..Len(history)
    BY <1>m, <1>n, Shorter
  <2>3. s.cursor = IF Len(ids) = 0 THEN 0 ELSE history[Len(ids)].id
    BY <1>0, <1>c, <2>1 DEF LastOf
  <2>4. /\ rows \in Seq(Event) /\ Len(ids) + Len(rows) <= Len(history)
        /\ \A i \in 1..Len(rows) : rows[i] = history[Len(ids) + i]
    BY <1>0, <2>1, <2>2, <2>3, ReadNext
  <2>5. reader' = [reader EXCEPT ![r] = stream] /\ UNCHANGED received
    BY <1>4 DEF Read
  <2> HIDE DEF rows
  <2>6. /\ stream \in Streams /\ stream.pc = "emit" /\ stream.batch = rows
        /\ stream.cursor = s.cursor
    BY <1>0, <2>4 DEF Streams
  <2> HIDE DEF stream
  <2>7. Serves(r, stream, ids)
    <3>1. Continues(ids, stream)
      BY <1>c, <2>1, <2>4, <2>6, Zenon DEF Continues
    <3>2. QED
      BY <1>0, <2>5, <2>6, <3>1 DEF Serves
  <2>8. QED
    BY <1>0, <1>1, <2>7, ServesIsEnough
<1>5. CASE Emit(r)
  <2> DEFINE e == Head(s.batch)
             stream == [s EXCEPT !.batch = Tail(s.batch), !.cursor = e.id]
             n == Len(ids)
  <2>1. s.pc = "emit" /\ s.batch # <<>>
    BY <1>5 DEF Emit
  <2>2. /\ e \in Event /\ Tail(s.batch) \in Seq(Event) /\ e = s.batch[1]
        /\ Len(Tail(s.batch)) = Len(s.batch) - 1 /\ Len(s.batch) >= 1
        /\ \A i \in 1..Len(Tail(s.batch)) : Tail(s.batch)[i] = s.batch[i + 1]
    BY <1>0, <2>1
  <2>3. reader' = [reader EXCEPT ![r] = stream]
    BY <1>5 DEF Emit
  <2>4. received' = [received EXCEPT ![r] = Append(ids, e.id)]
    BY <1>5 DEF Emit
  <2>5. e = history[n + 1]
    <3>1. 1 \in 1..Len(s.batch)
      BY <1>0, <2>2
    <3>2. QED
      BY <1>c, <2>2, <3>1
  <2>6. e.id \in Positive /\ e.id \in Nat
    BY <2>2 DEF Event, Positive
  <2> HIDE DEF e
  <2>7. /\ stream \in Streams /\ stream.pc = "emit" /\ stream.batch = Tail(s.batch)
        /\ stream.cursor = e.id
    BY <1>0, <2>1, <2>2, <2>6 DEF Streams
  <2> HIDE DEF stream
  <2>8. /\ Append(ids, e.id) \in Seq(Positive) /\ Len(Append(ids, e.id)) = n + 1
        /\ \A i \in 1..n : Append(ids, e.id)[i] = ids[i]
        /\ Append(ids, e.id)[n + 1] = e.id /\ Append(ids, e.id) # <<>>
    <3> DEFINE id == e.id
    <3> HIDE DEF id
    <3>1. id \in Positive
      BY <2>6 DEF id
    <3>2. /\ Append(ids, id) \in Seq(Positive) /\ Len(Append(ids, id)) = n + 1
          /\ \A i \in 1..n : Append(ids, id)[i] = ids[i]
          /\ Append(ids, id)[n + 1] = id
      BY <1>0, <3>1
    <3>3. Append(ids, id) # <<>>
      <4>1. Len(Append(ids, id)) # 0
        BY <1>n, <3>2
      <4>2. QED
        BY <4>1
    <3>4. QED
      BY <3>2, <3>3 DEF id
  <2>9. \A i \in 1..(n + 1) : Append(ids, e.id)[i] = history[i].id
    <3>1. \A i \in 1..n : Append(ids, e.id)[i] = history[i].id
      BY <1>c, <2>8
    <3>2. ASSUME NEW i \in 1..(n + 1) PROVE Append(ids, e.id)[i] = history[i].id
      <4>1. i \in 1..n \/ i = n + 1
        BY <1>n
      <4>2. QED
        BY <2>5, <2>8, <3>1, <4>1
    <3>3. QED
      BY <3>2
  <2>10. \A i \in 1..Len(stream.batch) : stream.batch[i] = history[n + 1 + i]
    <3>1. ASSUME NEW i \in 1..Len(stream.batch) PROVE stream.batch[i] = history[n + 1 + i]
      <4>0. Len(stream.batch) = Len(s.batch) - 1 /\ i \in 1..(Len(s.batch) - 1)
        BY <2>2, <2>7
      <4>1. i + 1 \in 1..Len(s.batch) /\ stream.batch[i] = s.batch[i + 1]
        BY <1>n, <2>2, <2>7, <4>0
      <4>2. s.batch[i + 1] = history[n + (i + 1)]
        BY <1>c, <4>1
      <4>3. n + (i + 1) = n + 1 + i
        <5>1. i \in Nat /\ n \in Nat
          BY <1>n, <4>0
        <5> HIDE DEF n
        <5>2. QED
          BY <5>1
      <4>4. QED
        BY <4>1, <4>2, <4>3
    <3>2. QED
      BY <3>1
  <2>11. n + 1 + Len(stream.batch) <= Len(history)
    <3>1. Len(stream.batch) = Len(s.batch) - 1 /\ Len(s.batch) > 0
      BY <1>n, <2>2, <2>7
    <3>2. n + 1 + (Len(s.batch) - 1) <= Len(history)
      BY <1>m, <1>n, <3>1, Shorter, Zenon
    <3>3. QED
      BY <3>1, <3>2
  <2>12. Serves(r, stream, Append(ids, e.id))
    <3>1. LastOf(Append(ids, e.id)) = e.id
      BY <2>8 DEF LastOf
    <3>2. Continues(Append(ids, e.id), stream)
      BY <2>7, <2>8, <2>9, <2>10, <2>11, <3>1, Zenon DEF Continues
    <3>3. QED
      BY <2>3, <2>4, <2>7, <2>8, <3>2 DEF Serves
  <2>13. QED
    BY <1>0, <1>1, <2>12, ServesIsEnough
<1>6. CASE CheckStatus(r)
  <2>1. s.pc = "emit" /\ s.batch = <<>> /\ s.cursor = LastOf(ids) /\ UNCHANGED received
    BY <1>c, <1>6 DEF CheckStatus
  <2>2. CASE terminal
    <3> DEFINE stream == [Closed EXCEPT !.complete = (Len(received[r]) = Len(history))]
    <3>1. stream \in Streams /\ stream.pc = "closed" /\ stream.batch = <<>>
      BY InitialValues DEF Streams
    <3>2. reader' = [reader EXCEPT ![r] = stream]
      BY <1>6, <2>2 DEF CheckStatus, Close
    <3> HIDE DEF stream
    <3>3. QED
      BY <1>2, <2>1, <3>1, <3>2
  <2>3. CASE ~terminal
    <3> DEFINE pc == IF s.emitted THEN "read" ELSE "waiting"
               stream == [s EXCEPT !.pc = pc]
    <3>1. /\ stream \in Streams /\ stream.pc \in {"read", "waiting"} /\ stream.batch = <<>>
          /\ stream.cursor = s.cursor
      BY <1>0, <2>1 DEF Streams
    <3>2. reader' = [reader EXCEPT ![r] = stream]
      BY <1>6, <2>3 DEF CheckStatus
    <3> HIDE DEF stream
    <3>3. QED
      BY <1>2, <2>1, <3>1, <3>2
  <2>4. QED
    BY <2>2, <2>3
<1>7. CASE Wait(r)
  <2> DEFINE stream == [s EXCEPT !.pc = "read", !.woken = FALSE]
  <2>1. s.pc = "waiting" /\ s.batch = <<>> /\ s.cursor = LastOf(ids) /\ UNCHANGED received
    BY <1>c, <1>7 DEF Wait
  <2>2. /\ stream \in Streams /\ stream.pc = "read" /\ stream.batch = <<>>
        /\ stream.cursor = s.cursor
    BY <1>0, <2>1 DEF Streams
  <2>3. reader' = [reader EXCEPT ![r] = stream]
    BY <1>7 DEF Wait
  <2> HIDE DEF stream
  <2>4. QED
    BY <1>2, <2>1, <2>2, <2>3
<1>8. CASE Disconnect(r)
  <2> DEFINE stream == [Closed EXCEPT !.complete = TRUE]
  <2>1. stream \in Streams /\ stream.pc = "closed" /\ stream.batch = <<>>
    BY InitialValues DEF Streams
  <2>2. reader' = [reader EXCEPT ![r] = stream] /\ UNCHANGED received
    BY <1>8 DEF Disconnect, Close
  <2> HIDE DEF stream
  <2>3. QED
    BY <1>2, <2>1, <2>2
<1>9. QED
  BY <1>3, <1>4, <1>5, <1>6, <1>7, <1>8 DEF Serve

LEMMA StreamStep ==
    ASSUME StreamInv, [Next]_vars
    PROVE  StreamInv'
<1>1. ASSUME UNCHANGED vars PROVE StreamInv'
  <2>1. WriterInv'
    BY <1>1, WriterStep DEF StreamInv
  <2>2. QED
    BY <1>1, <2>1 DEF StreamInv, ReaderTypes, Follows, Continues, vars, job, streams
<1>2. QED
  BY <1>1, WritersKeepReaders, ReaderStep DEF Next

\* Over any number of connections, lost notifications and late commits, a
\* client receives the job's events from the first one on, each once and in
\* order: an id is never visible before a smaller one of the same job.
THEOREM StreamsSkipNothing == Spec => []ReceivedIsPrefix
<1>1. StreamInv => ReceivedIsPrefix
  <2> SUFFICES ASSUME StreamInv, NEW r \in Readers
               PROVE  /\ Len(received[r]) <= Len(history)
                      /\ \A i \in DOMAIN received[r] : received[r][i] = history[i].id
    BY DEF ReceivedIsPrefix
  <2>1. /\ Len(received[r]) \in Nat /\ Len(history) \in Nat /\ Len(reader[r].batch) \in Nat
        /\ DOMAIN received[r] = 1..Len(received[r]) /\ Continues(received[r], reader[r])
    BY Lengths DEF Follows
  <2>2. /\ Len(received[r]) + Len(reader[r].batch) <= Len(history)
        /\ \A i \in 1..Len(received[r]) : received[r][i] = history[i].id
    BY <2>1, Zenon DEF Continues
  <2>3. Len(received[r]) <= Len(history)
    <3>1. Len(received[r]) + Len(reader[r].batch) <= Len(history)
      BY <2>2
    <3>2. Len(received[r]) \in Nat /\ Len(history) \in Nat /\ Len(reader[r].batch) \in Nat
      BY <2>1
    <3>3. QED
      BY <3>1, <3>2, Shorter
  <2>4. QED
    BY <2>1, <2>2, <2>3
<1>2. StreamInv /\ [Next]_vars => StreamInv'
  BY StreamStep
<1>3. QED
  BY <1>1, <1>2, StreamInit, PTL DEF Spec

-----------------------------------------------------------------------------
(***************************************************************************)
(* The places of the semaphore.                                            *)
(***************************************************************************)

Connected == {r \in Readers : reader[r].pc # "closed"}

PlaceInv == StreamInv /\ slots \in Nat /\ SlotsBacked

LEMMA PlaceStep ==
    ASSUME PlaceInv, [Next]_vars
    PROVE  PlaceInv'
<1>0. /\ StreamInv /\ StreamInv' /\ slots \in Nat /\ MaxConnections \in Nat
      /\ slots + Cardinality(Connected) = MaxConnections
      /\ reader \in [Readers -> Streams]
      /\ IsFiniteSet(Connected) /\ Cardinality(Connected) \in Nat
  <2>1. IsFiniteSet(Connected)
    BY JobEventsAssumption, FS_Subset DEF Connected
  <2>2. QED
    BY <2>1, StreamStep, FS_CardinalityType, JobEventsAssumption
       DEF PlaceInv, StreamInv, ReaderTypes, SlotsBacked, Connected
<1>q. ASSUME slots' \in Nat, slots' + Cardinality(Connected') = MaxConnections
      PROVE  PlaceInv'
  BY <1>0, <1>q DEF PlaceInv, SlotsBacked, Connected
<1>1. ASSUME UNCHANGED slots, \A r \in Readers : reader'[r].pc # "closed" <=> reader[r].pc # "closed"
      PROVE  PlaceInv'
  <2>1. Connected' = Connected
    BY <1>1 DEF Connected
  <2>2. QED
    BY <1>0, <1>1, <1>q, <2>1
<1>2. ASSUME NEW r \in Readers, NEW stream \in Streams, reader' = [reader EXCEPT ![r] = stream],
             UNCHANGED slots, reader[r].pc # "closed", stream.pc # "closed"
      PROVE  PlaceInv'
  BY <1>0, <1>1, <1>2
<1>3. ASSUME NEW r \in Readers, NEW complete, reader[r].pc # "closed", Close(r, complete)
      PROVE  PlaceInv'
  <2>1. reader'[r].pc = "closed" /\ slots' = slots + 1
        /\ \A q \in Readers : q # r => reader'[q] = reader[q]
    BY <1>0, <1>3 DEF Close, Closed
  <2>2. Connected' = Connected \ {r} /\ r \in Connected
    BY <1>3, <2>1 DEF Connected
  <2>3. Cardinality(Connected') = Cardinality(Connected) - 1
    BY <1>0, <2>2, FS_RemoveElement
  <2>4. QED
    BY <1>0, <1>q, <2>1, <2>3
<1>4. ASSUME NEW r \in Readers, Connect(r) PROVE PlaceInv'
  <2>1. /\ reader[r].pc = "closed" /\ slots > 0 /\ slots' = slots - 1
        /\ reader'[r].pc = "read"
        /\ \A q \in Readers : q # r => reader'[q] = reader[q]
    BY <1>0, <1>4 DEF Connect, Closed
  <2>2. Connected' = Connected \cup {r} /\ r \notin Connected
    BY <2>1 DEF Connected
  <2>3. Cardinality(Connected') = Cardinality(Connected) + 1
    BY <1>0, <2>2, FS_AddElement
  <2>4. QED
    BY <1>0, <1>q, <2>1, <2>3
<1>5. ASSUME NEW r \in Readers, Serve(r) PROVE PlaceInv'
  <2>0. reader[r] \in Streams /\ reader' \in [Readers -> Streams] /\ reader'[r] \in Streams
    BY <1>0 DEF StreamInv, ReaderTypes
  <2>1. CASE Read(r)
    <3>1. /\ UNCHANGED slots /\ reader[r].pc = "read" /\ reader'[r].pc = "emit"
          /\ \A q \in Readers : q # r => reader'[q] = reader[q]
      BY <1>0, <2>0, <2>1 DEF Read, Streams
    <3>2. QED
      BY <1>1, <3>1
  <2>2. CASE Emit(r)
    <3>1. /\ UNCHANGED slots /\ reader[r].pc = "emit" /\ reader'[r].pc = "emit"
          /\ \A q \in Readers : q # r => reader'[q] = reader[q]
      BY <1>0, <2>0, <2>2 DEF Emit, Streams
    <3>2. QED
      BY <1>1, <3>1
  <2>3. CASE CheckStatus(r) /\ terminal
    BY <1>3, <2>3 DEF CheckStatus
  <2>4. CASE CheckStatus(r) /\ ~terminal
    <3>1. /\ UNCHANGED slots /\ reader[r].pc = "emit" /\ reader'[r].pc \in {"read", "waiting"}
          /\ \A q \in Readers : q # r => reader'[q] = reader[q]
      BY <1>0, <2>0, <2>4 DEF CheckStatus, Streams
    <3>2. QED
      BY <1>1, <3>1
  <2>5. CASE Wait(r)
    <3>1. /\ UNCHANGED slots /\ reader[r].pc = "waiting" /\ reader'[r].pc = "read"
          /\ \A q \in Readers : q # r => reader'[q] = reader[q]
      BY <1>0, <2>0, <2>5 DEF Wait, Streams
    <3>2. QED
      BY <1>1, <3>1
  <2>6. QED
    BY <1>5, <2>1, <2>2, <2>3, <2>4, <2>5 DEF Serve
<1>6. ASSUME NEW r \in Readers, Disconnect(r) PROVE PlaceInv'
  BY <1>3, <1>6 DEF Disconnect
<1>7. ASSUME Write PROVE PlaceInv'
  <2>1. UNCHANGED slots
    BY <1>7 DEF Write, Begin, Insert, Commit, Rollback, OtherJob, streams
  <2>2. CASE UNCHANGED reader
    BY <1>1, <2>1, <2>2
  <2>3. CASE reader' = [r \in Readers |->
                          [reader[r] EXCEPT !.woken = @ \/ reader[r].pc = "waiting"]]
    <3>1. ASSUME NEW r \in Readers PROVE reader'[r].pc = reader[r].pc
      <4>1. reader[r] \in Streams
            /\ reader'[r] = [reader[r] EXCEPT !.woken = @ \/ reader[r].pc = "waiting"]
        BY <1>0, <2>3
      <4>2. QED
        BY <4>1 DEF Streams
    <3>2. QED
      BY <1>1, <2>1, <3>1
  <2>4. QED
    BY <1>7, <2>2, <2>3 DEF Write, Begin, Insert, Commit, Rollback, OtherJob, streams
<1>8. CASE UNCHANGED vars
  BY <1>1, <1>8 DEF vars, streams
<1>9. QED
  BY <1>4, <1>5, <1>6, <1>7, <1>8 DEF Next

LEMMA PlaceInit == Init => PlaceInv
<1> SUFFICES ASSUME Init PROVE PlaceInv
  OBVIOUS
<1>1. {r \in Readers : reader[r].pc # "closed"} = {}
  BY InitialValues DEF Init
<1>2. slots = MaxConnections /\ MaxConnections \in Nat
  BY JobEventsAssumption DEF Init
<1>3. QED
  BY <1>1, <1>2, StreamInit, FS_EmptySet DEF PlaceInv, SlotsBacked

\* Every place of the semaphore is free or held by one open stream, however
\* the streams end: the server never turns clients away for good.
THEOREM PlacesAreGivenBack == Spec => []SlotsBacked
<1>1. PlaceInv => SlotsBacked
  BY DEF PlaceInv
<1>2. QED
  BY <1>1, PlaceInit, PlaceStep, PTL DEF Spec

\* No id exceeds the events and gaps there may be, and no more streams are
\* open than there are places.
THEOREM TypeCorrect == Spec => []TypeOK
<1>1. PlaceInv => TypeOK
  <2> SUFFICES ASSUME PlaceInv PROVE TypeOK
    OBVIOUS
  <2>1. /\ WriterTypes /\ Numbered /\ Drawn /\ history \in Seq(Event)
        /\ reader \in [Readers -> Streams] /\ writer \in [Writers -> Transactions]
    BY DEF PlaceInv, StreamInv, WriterInv, WriterTypes, ReaderTypes
  <2>2. Len(history) \in Nat /\ Len(history) <= MaxEvents /\ MaxEvents \in Nat
    BY <2>1, JobEventsAssumption DEF Drawn
  <2>3. history \in Seq([id : Ids, seq : 1..MaxEvents])
    <3>1. ASSUME NEW i \in 1..Len(history)
          PROVE  history[i] \in [id : Ids, seq : 1..MaxEvents]
      <4>1. history[i] \in Event
        BY <2>1
      <4>2. history[i].id \in Ids /\ history[i].seq = i
        BY <2>1 DEF Drawn, Numbered
      <4>3. i \in 1..MaxEvents
        BY <2>2
      <4>4. QED
        BY <4>1, <4>2, <4>3 DEF Event
    <3>2. history = [i \in 1..Len(history) |-> history[i]]
      BY <2>1
    <3>3. history \in [1..Len(history) -> [id : Ids, seq : 1..MaxEvents]]
      BY <3>1, <3>2
    <3>4. QED
      BY <2>2, <3>3, SeqDef
  <2>4. slots \in 0..MaxConnections
    <3>1. IsFiniteSet(Connected)
      BY JobEventsAssumption, FS_Subset DEF Connected
    <3>2. Cardinality(Connected) \in Nat
      BY <3>1, FS_CardinalityType
    <3>3. slots \in Nat /\ slots + Cardinality(Connected) = MaxConnections
      BY DEF PlaceInv, SlotsBacked, Connected
    <3>4. QED
      BY <3>2, <3>3, JobEventsAssumption
  <2>5. sequence \in 0..MaxEvents
    BY <2>1, <2>2 DEF Numbered
  <2>6. terminal \in BOOLEAN /\ nextId \in Nat \ {0}
    BY <2>1 DEF WriterTypes, Positive
  <2>7. \A w \in Writers : writer[w].pc \in {"idle", "updated", "inserted"}
    BY <2>1 DEF Transactions
  <2>8. \A r \in Readers : reader[r].pc \in {"closed", "read", "emit", "waiting"}
    BY <2>1 DEF Streams
  <2>9. QED
    BY <2>3, <2>4, <2>5, <2>6, <2>7, <2>8 DEF TypeOK
<1>2. QED
  BY <1>1, PlaceInit, PlaceStep, PTL DEF Spec
=============================================================================
