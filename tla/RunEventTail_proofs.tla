------------------------- MODULE RunEventTail_proofs -------------------------
(***************************************************************************)
(* Theorems about RunEventTail: for pages of any size and logs of any      *)
(* length, in one event loop or across processes.                          *)
(***************************************************************************)
EXTENDS RunEventTail, SequenceTheorems, TLAPS

-----------------------------------------------------------------------------
(* Type correctness. *)

\* A page after an offset of the log.
LEMMA PageFacts ==
  ASSUME TypeOK, NEW a \in 0 .. Len(log)
  PROVE  /\ PageEnd(a) \in a .. Len(log)
         /\ PageAfter(a) \in Seq(Nat)
         /\ Len(PageAfter(a)) = PageEnd(a) - a
         /\ \A i \in 1 .. PageEnd(a) - a : PageAfter(a)[i] = a + i
<1>1. Len(log) \in Nat /\ PageLimit \in Nat
  BY TailAssumption DEF TypeOK
<1>2. PageEnd(a) \in a .. Len(log)
  BY <1>1 DEF PageEnd
<1> QED BY <1>1, <1>2 DEF PageAfter

LEMMA ScriptsTyped ==
  /\ \A s \in {"FINISHED", "ERROR"} : EndScript(s) \in Seq(Statement)
  /\ CancelScript \in Seq(Statement)
  /\ ExpireScript \in Seq(Statement)
<1>1. /\ \A e \in Event : Append1(e) \in Statement
      /\ \A s \in Terminal : Mark(s) \in Statement
  BY DEF Append1, Mark, Statement
<1>2. /\ {"FINISHED", "ERROR", "CANCELLED", "EXPIRED"} = Terminal
      /\ {"result", "done"} \cup Terminal \subseteq Event
  BY DEF Event, Terminal
<1> QED BY <1>1, <1>2 DEF EndScript, CancelScript, ExpireScript

\* What the writer does, as far as the reader can tell.
LEMMA WriterFacts ==
  ASSUME TypeOK, Writer
  PROVE  /\ UNCHANGED reader
         /\ alive' \in BOOLEAN /\ todo' \in Seq(Statement)
         /\ log' = log \/ \E e \in Event : log' = Append(log, e)
         /\ row' = row \/ row' \in Terminal
<1>1. CASE Emit
  BY <1>1 DEF Emit, TypeOK, Event
<1>2. CASE \E status \in {"FINISHED", "ERROR"} : EndTurn(status)
  BY <1>2, ScriptsTyped DEF EndTurn, TypeOK
<1>3. CASE \E script \in {CancelScript, ExpireScript} : Overtake(script)
  BY <1>3, ScriptsTyped DEF Overtake, TypeOK
<1>4. CASE WriterStatement
  <2>1. todo \in Seq(Statement) /\ todo # <<>>
    BY <1>4 DEF WriterStatement, TypeOK
  <2>2. Head(todo) \in Statement /\ Tail(todo) \in Seq(Statement)
    BY <2>1, HeadTailProperties
  <2>3. Head(todo).arg \in Event /\ (Head(todo).do = "mark" => Head(todo).arg \in Terminal)
    BY <2>2 DEF Statement, Event
  <2> QED BY <1>4, <2>2, <2>3 DEF WriterStatement, TypeOK
<1>5. CASE WriterCrashes
  BY <1>5, EmptySeq DEF WriterCrashes, TypeOK
<1> QED BY <1>1, <1>2, <1>3, <1>4, <1>5 DEF Writer

LEMMA InitType == Init => TypeOK
<1>1. <<"message">> \in Seq(Event) /\ <<>> \in Seq(Statement) /\ <<>> \in Seq(Nat)
  BY EmptySeq DEF Event
<1> SUFFICES ASSUME Init PROVE TypeOK
  OBVIOUS
<1>2. log \in Seq(Event) /\ todo \in Seq(Statement) /\ page \in Seq(Nat) /\ got \in Seq(Nat)
  BY <1>1 DEF Init
<1>3. from \in Nat /\ offset \in Nat /\ client \in Client
  BY TailAssumption DEF Init, Client
<1> QED BY <1>2, <1>3 DEF Init, TypeOK

LEMMA StartType ==
  ASSUME TypeOK, NEW m \in {"replay", "tail", "replay-and-tail"}, Start(m) PROVE TypeOK'
BY DEF Start, TypeOK, writer

-----------------------------------------------------------------------------
(* Pages join without a gap or an overlap. *)

\* The three parts of ExactlyOnceInOrder.
Increasing == \A i, j \in DOMAIN got : i < j => got[i] < got[j]
Delivered(k) == \E i \in DOMAIN got : got[i] = k
AllDelivered == \A k \in from + 1 .. offset : Yields(log[k]) <=> Delivered(k)
WithinReach == \A i \in DOMAIN got : from < got[i] /\ got[i] <= offset

LEMMA ExactlyOnceParts == ExactlyOnceInOrder <=> Increasing /\ AllDelivered /\ WithinReach
BY DEF ExactlyOnceInOrder, Increasing, AllDelivered, Delivered, WithinReach

LEMMA InitPaging == Init => PagingInv
<1> SUFFICES ASSUME Init PROVE PagingInv
  OBVIOUS
<1>1. /\ got = <<>> /\ page = <<>> /\ from = offset /\ offset \in {0, 1} /\ Len(log) = 1
  BY DEF Init
<1> QED BY <1>1 DEF PagingInv, ExactlyOnceInOrder, PageIsNext

LEMMA WriterPaging ==
  ASSUME TypeOK, PagingInv, Writer PROVE TypeOK' /\ PagingInv'
<1>1. /\ UNCHANGED reader
      /\ alive' \in BOOLEAN /\ todo' \in Seq(Statement)
      /\ log' = log \/ \E e \in Event : log' = Append(log, e)
      /\ row' = row \/ row' \in Terminal
  BY WriterFacts
<1>2. /\ log' \in Seq(Event) /\ Len(log) <= Len(log')
      /\ \A k \in 1 .. Len(log) : log'[k] = log[k]
      /\ Len(log) \in Nat /\ Len(log') \in Nat
  <2>1. log \in Seq(Event)
    BY DEF TypeOK
  <2>2. CASE log' = log
    BY <2>1, <2>2
  <2>3. CASE \E e \in Event : log' = Append(log, e)
    BY <2>1, <2>3, AppendProperties
  <2> QED BY <1>1, <2>2, <2>3
<1>3. TypeOK'
  BY <1>1, <1>2 DEF TypeOK, reader
<1>4. PageIsNext'
  BY <1>1, <1>2 DEF PagingInv, PageIsNext, TypeOK, reader
<1>5. ExactlyOnceInOrder'
  <2>1. from \in Nat /\ offset \in Nat /\ offset <= Len(log)
    BY <1>2 DEF PagingInv, PageIsNext, TypeOK
  <2>2. UNCHANGED <<from, offset, got, client>>
    BY <1>1 DEF reader
  <2>3. ASSUME NEW k \in from + 1 .. offset PROVE Yields(log[k])' <=> Yields(log[k])
    <3>1. k \in 1 .. Len(log)
      BY <2>1, <1>2
    <3> QED BY <3>1, <2>2, <1>2 DEF Yields
  <2> QED BY <2>2, <2>3 DEF PagingInv, ExactlyOnceInOrder, Yields
<1> QED BY <1>3, <1>4, <1>5 DEF PagingInv

\* A step that moves neither the offset nor what has been delivered.
LEMMA StayPaging ==
  ASSUME TypeOK, PagingInv, UNCHANGED <<log, client, from, offset, page, got>>,
         pc' \in {"start", "drain"} => pc \in {"start", "drain"}
  PROVE  PagingInv'
BY DEF PagingInv, ExactlyOnceInOrder, PageIsNext, Yields

LEMMA StartPaging ==
  ASSUME TypeOK, PagingInv, NEW m \in {"replay", "tail", "replay-and-tail"}, Start(m)
  PROVE  TypeOK' /\ PagingInv'
<1>1. TypeOK'
  BY DEF Start, TypeOK, writer
<1>2. PagingInv'
  BY StayPaging DEF Start, writer
<1> QED BY <1>1, <1>2

LEMMA TakePaging ==
  ASSUME TypeOK, PagingInv, TakeEvent PROVE PagingInv'
<1> DEFINE k == offset + 1
<1>1. /\ page \in Seq(Nat) /\ page # <<>> /\ got \in Seq(Nat)
      /\ offset \in Nat /\ from \in Nat /\ Len(log) \in Nat
      /\ UNCHANGED <<log, client, from>>
  BY DEF TakeEvent, TypeOK, writer
<1>2. Head(page) = k /\ Len(page) \in Nat /\ Len(page) >= 1
  BY <1>1 DEF PagingInv, PageIsNext
<1>3. /\ offset' = k /\ page' = Tail(page)
      /\ got' = IF Yields(log[k]) THEN Append(got, k) ELSE got
      /\ pc' \notin {"start", "drain"}
  BY <1>2 DEF TakeEvent
<1>4. PageIsNext'
  <2>1. /\ Len(Tail(page)) = Len(page) - 1
        /\ \A i \in 1 .. Len(page) - 1 : Tail(page)[i] = page[i + 1]
    BY <1>1, HeadTailProperties
  <2>2. /\ from <= offset /\ offset + Len(page) <= Len(log)
        /\ \A i \in 1 .. Len(page) : page[i] = offset + i
    BY <1>1 DEF PagingInv, PageIsNext
  <2>3. from <= k /\ k + Len(Tail(page)) <= Len(log)
    BY <1>1, <1>2, <2>1, <2>2
  <2>4. \A i \in 1 .. Len(page) - 1 : Tail(page)[i] = k + i
    BY <1>1, <1>2, <2>1, <2>2
  <2>5. DOMAIN Tail(page) = 1 .. Len(page) - 1
    BY <1>1, <2>1
  <2> QED BY <1>1, <1>3, <2>3, <2>4, <2>5 DEF PageIsNext
<1>5. Increasing /\ AllDelivered /\ WithinReach
  BY ExactlyOnceParts DEF PagingInv
<1>6. CASE ~Yields(log[k])
  <2>1. got' = got /\ offset' = k /\ UNCHANGED <<log, client, from>>
    BY <1>1, <1>3, <1>6
  <2>2. ~Delivered(k)
    BY <1>1, <1>5 DEF Delivered, WithinReach
  <2>3. Increasing'
    BY <2>1, <1>5 DEF Increasing
  <2>4. WithinReach'
    BY <2>1, <1>1, <1>5 DEF WithinReach
  <2>5. AllDelivered'
    <3> SUFFICES ASSUME NEW j \in from + 1 .. k PROVE Yields(log[j]) <=> Delivered(j)
      BY <2>1 DEF AllDelivered, Delivered, Yields
    <3> QED BY <2>2, <1>1, <1>5, <1>6 DEF AllDelivered
  <2> QED BY <1>4, <2>3, <2>4, <2>5, ExactlyOnceParts DEF PagingInv, ExactlyOnceInOrder,
             Increasing, AllDelivered, Delivered, WithinReach
<1>7. CASE Yields(log[k])
  <2>1. /\ got' = Append(got, k) /\ offset' = k /\ UNCHANGED <<log, client, from>>
    BY <1>1, <1>3, <1>7
  <2>2. /\ Len(got) \in Nat /\ Len(got') = Len(got) + 1
        /\ \A i \in 1 .. Len(got) : got'[i] = got[i]
        /\ got'[Len(got) + 1] = k
        /\ DOMAIN got' = 1 .. Len(got) + 1 /\ DOMAIN got = 1 .. Len(got)
    BY <1>1, <2>1
  <2>3. \A i \in 1 .. Len(got) : from < got[i] /\ got[i] <= offset /\ got[i] \in Nat
    <3>1. \A i \in 1 .. Len(got) : got[i] \in Nat
      BY <1>1, ElementOfSeq
    <3>2. \A i \in 1 .. Len(got) : from < got[i] /\ got[i] <= offset
      BY <1>5, <2>2 DEF WithinReach
    <3> QED BY <3>1, <3>2
  <2>4. Increasing'
    <3> SUFFICES ASSUME NEW i \in 1 .. Len(got) + 1, NEW j \in 1 .. Len(got) + 1, i < j
                 PROVE  got'[i] < got'[j]
      BY <2>2 DEF Increasing
    <3>1. i \in 1 .. Len(got)
      BY <2>2
    <3>2. CASE j = Len(got) + 1
      BY <1>1, <2>2, <2>3, <3>1, <3>2
    <3>3. CASE j \in 1 .. Len(got)
      BY <1>5, <2>2, <3>1, <3>3 DEF Increasing
    <3> QED BY <2>2, <3>2, <3>3
  <2>5. WithinReach'
    <3>1. from <= offset
      BY DEF PagingInv, PageIsNext
    <3> SUFFICES ASSUME NEW i \in 1 .. Len(got) + 1 PROVE from < got'[i] /\ got'[i] <= k
      BY <2>1, <2>2 DEF WithinReach
    <3>2. CASE i = Len(got) + 1
      BY <1>1, <2>2, <3>1, <3>2
    <3>3. CASE i \in 1 .. Len(got)
      BY <1>1, <2>2, <2>3, <3>3
    <3> QED BY <2>2, <3>2, <3>3
  <2>6. AllDelivered'
    <3> SUFFICES ASSUME NEW j \in from + 1 .. k PROVE Yields(log[j]) <=> Delivered(j)'
      BY <2>1 DEF AllDelivered, Delivered, Yields
    <3>1. CASE j = k
      BY <1>7, <2>2, <3>1 DEF Delivered
    <3>2. CASE j # k
      <4>1. j \in from + 1 .. offset
        BY <1>1, <3>2
      <4>2. Yields(log[j]) <=> Delivered(j)
        BY <1>5, <4>1 DEF AllDelivered
      <4>3. Delivered(j) <=> Delivered(j)'
        BY <2>2, <3>2 DEF Delivered
      <4> QED BY <4>2, <4>3
    <3> QED BY <3>1, <3>2
  <2> QED BY <1>4, <2>4, <2>5, <2>6 DEF PagingInv, ExactlyOnceInOrder,
             Increasing, AllDelivered, Delivered, WithinReach
<1> QED BY <1>6, <1>7

LEMMA ReaderPaging ==
  ASSUME TypeOK, PagingInv, ReaderStep PROVE TypeOK' /\ PagingInv'
<1>1. /\ offset \in 0 .. Len(log) /\ offset \in Nat /\ Len(log) \in Nat
      /\ from \in Nat /\ from <= offset
  BY DEF PagingInv, PageIsNext, TypeOK
<1>2. PageEnd(offset) \in offset .. Len(log)
  BY <1>1, PageFacts
<1>3. CASE Drain
  <2>1. TypeOK'
    BY <1>1, <1>2, <1>3 DEF Drain, TypeOK, writer
  <2>2. got = <<>> /\ page = <<>>
    BY <1>3 DEF Drain, PagingInv, PageIsNext
  <2>3. /\ UNCHANGED <<log, got, page, client>>
        /\ from' = PageEnd(offset) /\ offset' = PageEnd(offset)
    BY <1>3 DEF Drain, writer
  <2>4. PageIsNext'
    BY <1>1, <1>2, <2>2, <2>3 DEF PageIsNext
  <2>5. ExactlyOnceInOrder'
    BY <1>1, <1>2, <2>2, <2>3 DEF ExactlyOnceInOrder
  <2> QED BY <2>1, <2>4, <2>5 DEF PagingInv
<1>4. CASE ListPage
  <2>1. /\ PageAfter(offset) \in Seq(Nat)
        /\ Len(PageAfter(offset)) = PageEnd(offset) - offset
        /\ \A i \in 1 .. PageEnd(offset) - offset : PageAfter(offset)[i] = offset + i
    BY <1>1, PageFacts
  <2>2. TypeOK'
    <3>1. page' \in Seq(Nat) /\ more' \in BOOLEAN
      BY <1>4, <2>1 DEF ListPage, MoreAfter
    <3> QED BY <1>4, <3>1 DEF ListPage, TypeOK, writer
  <2>3. UNCHANGED <<log, client, from, offset, got>> /\ page' = PageAfter(offset) /\ pc' = "page"
    BY <1>4 DEF ListPage, writer
  <2>4. PageIsNext'
    BY <1>1, <1>2, <2>1, <2>3 DEF PageIsNext
  <2>5. ExactlyOnceInOrder'
    BY <2>3 DEF PagingInv, ExactlyOnceInOrder, Yields
  <2> QED BY <2>2, <2>4, <2>5 DEF PagingInv
<1>5. CASE TakeEvent
  <2>1. page \in Seq(Nat) /\ page # <<>> /\ got \in Seq(Nat)
    BY <1>5 DEF TakeEvent, TypeOK
  <2>2. Head(page) \in Nat /\ Tail(page) \in Seq(Nat)
    BY <2>1, HeadTailProperties
  <2>3. got' \in Seq(Nat)
    BY <1>5, <2>1, <2>2 DEF TakeEvent
  <2>4. TypeOK'
    BY <1>5, <2>2, <2>3 DEF TakeEvent, TypeOK, writer, IsTerminalEvent
  <2> QED BY <1>5, <2>4, TakePaging
<1>6. CASE ConsumerReturns \/ PageDone \/ ReadRow \/ Wake \/ WaitFindsRun
  <2>1. TypeOK'
    BY <1>6 DEF ConsumerReturns, PageDone, ReadRow, Wake, WaitFindsRun, AfterStream, TypeOK, writer
  <2>2. PagingInv'
    BY <1>6, StayPaging
       DEF ConsumerReturns, PageDone, ReadRow, Wake, WaitFindsRun, AfterStream, writer
  <2> QED BY <2>1, <2>2
<1> QED BY <1>3, <1>4, <1>5, <1>6 DEF ReaderStep

LEMMA NextPaging == TypeOK /\ PagingInv /\ [Next]_vars => TypeOK' /\ PagingInv'
<1> SUFFICES ASSUME TypeOK, PagingInv, [Next]_vars PROVE TypeOK' /\ PagingInv'
  OBVIOUS
<1>1. CASE UNCHANGED vars
  <2>1. TypeOK'
    BY <1>1 DEF vars, TypeOK
  <2>2. PagingInv'
    BY <1>1, StayPaging DEF vars
  <2> QED BY <2>1, <2>2
<1> QED BY <1>1, WriterPaging, StartPaging, ReaderPaging DEF Next

\* The reader's state is well formed in every run of the module.
THEOREM TailTypeCorrect == Spec => []TypeOK
BY InitType, InitPaging, NextPaging, PTL DEF Spec

\* Whatever the page size, however the log grows between two pages and wherever the
\* reader began: what is meant for the consumer is delivered exactly once, in order.
THEOREM ExactlyOnceCorrect == Spec => []ExactlyOnceInOrder
<1>1. PagingInv => ExactlyOnceInOrder
  BY DEF PagingInv
<1> QED BY <1>1, InitType, InitPaging, NextPaging, PTL DEF Spec

-----------------------------------------------------------------------------
(* A tail ends only with its run. *)

EndSeen == \E k \in 1 .. offset : IsTerminalEvent(log[k])

\* What the reader has concluded from a page or from the row is still so.
EndInv ==
  /\ saw => EndSeen
  /\ mode = "replay" /\ pc # "start" => row # "RUNNING"
  /\ NeverEndsEarly

\* The end that was seen stays: the offset only advances, the log is append-only
\* and an ended run does not run again.
LEMMA EndSeenStays ==
  ASSUME TypeOK, PagingInv, Writer \/ ReaderStep
  PROVE  /\ EndSeen => EndSeen'
         /\ row # "RUNNING" => row' # "RUNNING"
<1>1. /\ offset \in Nat /\ offset <= Len(log) /\ Len(log) \in Nat
      /\ PageEnd(offset) \in offset .. Len(log)
  <2>1. offset \in 0 .. Len(log) /\ Len(log) \in Nat
    BY DEF PagingInv, PageIsNext, TypeOK
  <2> QED BY <2>1, PageFacts
<1>2. CASE Writer
  <2>1. /\ UNCHANGED reader
        /\ log' = log \/ \E e \in Event : log' = Append(log, e)
        /\ row' = row \/ row' \in Terminal
    BY <1>2, WriterFacts
  <2>2. \A k \in 1 .. Len(log) : log'[k] = log[k]
    <3>1. log \in Seq(Event)
      BY DEF TypeOK
    <3>2. CASE log' = log
      BY <3>2
    <3>3. CASE \E e \in Event : log' = Append(log, e)
      BY <3>1, <3>3, AppendProperties
    <3> QED BY <2>1, <3>2, <3>3
  <2>3. \A k \in 1 .. offset : k \in 1 .. Len(log)
    BY <1>1
  <2>4. offset' = offset
    BY <2>1 DEF reader
  <2>5. EndSeen => EndSeen'
    BY <2>2, <2>3, <2>4 DEF EndSeen
  <2>6. row # "RUNNING" => row' # "RUNNING"
    BY <2>1 DEF Terminal
  <2> QED BY <2>5, <2>6
<1>3. CASE ReaderStep
  <2>1. UNCHANGED <<log, row>>
    BY <1>3 DEF ReaderStep, Drain, ListPage, TakeEvent, ConsumerReturns, PageDone, ReadRow,
                Wake, WaitFindsRun, writer
  <2>2. TypeOK'
    BY <1>3, ReaderPaging
  <2>3. offset <= offset'
    <3>1. CASE TakeEvent
      <4>1. page \in Seq(Nat) /\ page # <<>>
        BY <3>1 DEF TakeEvent, TypeOK
      <4>2. Head(page) = offset + 1
        BY <4>1 DEF PagingInv, PageIsNext
      <4> QED BY <1>1, <3>1, <4>2 DEF TakeEvent
    <3>2. CASE Drain
      BY <1>1, <3>2 DEF Drain
    <3>3. CASE ~TakeEvent /\ ~Drain
      BY <1>1, <1>3, <3>3 DEF ReaderStep, ListPage, ConsumerReturns, PageDone, ReadRow,
                Wake, WaitFindsRun
    <3> QED BY <3>1, <3>2, <3>3
  <2>4. ASSUME NEW k \in 1 .. offset PROVE k \in 1 .. offset'
    BY <1>1, <2>2, <2>3 DEF TypeOK
  <2> QED BY <2>1, <2>4 DEF EndSeen
<1> QED BY <1>2, <1>3

LEMMA NextEnd == TypeOK /\ PagingInv /\ EndInv /\ [Next]_vars => EndInv'
<1> SUFFICES ASSUME TypeOK, PagingInv, EndInv, [Next]_vars PROVE EndInv'
  OBVIOUS
<1>1. CASE UNCHANGED vars
  BY <1>1 DEF EndInv, EndSeen, NeverEndsEarly, vars
<1>2. CASE \E m \in {"replay", "tail", "replay-and-tail"} : Start(m)
  <2>1. /\ UNCHANGED <<log, row, offset, saw>>
        /\ mode' = "replay" => row \in Terminal
        /\ pc' \notin {"find_run", "ended"}
    BY <1>2 DEF Start, writer
  <2> QED BY <2>1 DEF EndInv, EndSeen, NeverEndsEarly, Terminal
<1>3. CASE Writer
  <2>1. UNCHANGED <<pc, mode, saw>>
    BY <1>3, WriterFacts DEF reader
  <2> QED BY <1>3, <2>1, EndSeenStays DEF EndInv, EndSeen, NeverEndsEarly
<1>4. CASE ReaderStep
  <2>1. /\ EndSeen => EndSeen'
        /\ row # "RUNNING" => row' # "RUNNING"
    BY <1>4, EndSeenStays
  <2>2. mode' = mode /\ pc # "start"
    BY <1>4 DEF ReaderStep, Drain, ListPage, TakeEvent, ConsumerReturns, PageDone, ReadRow,
                Wake, WaitFindsRun
  <2>3. saw' => EndSeen'
    <3>1. CASE TakeEvent
      <4>1. page \in Seq(Nat) /\ page # <<>>
        BY <3>1 DEF TakeEvent, TypeOK
      <4>2. Head(page) = offset + 1 /\ offset \in Nat
        BY <4>1 DEF PagingInv, PageIsNext, TypeOK
      <4>3. offset' = offset + 1 /\ log' = log
        BY <3>1, <4>2 DEF TakeEvent, writer
      <4>4. IsTerminalEvent(log[offset + 1]) => EndSeen'
        BY <4>2, <4>3 DEF EndSeen
      <4> QED BY <2>1, <3>1, <4>2, <4>4 DEF TakeEvent, EndInv
    <3>2. CASE ~TakeEvent
      <4>1. saw' = saw \/ saw' = FALSE
        BY <1>4, <3>2 DEF ReaderStep, Drain, ListPage, ConsumerReturns, PageDone, ReadRow,
                Wake, WaitFindsRun
      <4> QED BY <2>1, <4>1 DEF EndInv
    <3> QED BY <3>1, <3>2
  <2>4. pc' \in {"find_run", "ended"} => row # "RUNNING" \/ EndSeen
    BY <1>4 DEF EndInv, EndSeen, NeverEndsEarly, ReaderStep, Drain, ListPage, TakeEvent,
                ConsumerReturns, PageDone, ReadRow, Wake, WaitFindsRun, AfterStream, Terminal
  <2>5. NeverEndsEarly'
    BY <2>1, <2>4 DEF NeverEndsEarly, EndSeen
  <2> QED BY <2>1, <2>2, <2>3, <2>5 DEF EndInv
<1> QED BY <1>1, <1>2, <1>3, <1>4 DEF Next

\* A reader that stops has seen its run end, whatever the writer does between the
\* reader's look at the log and its look at the row, also when the writer dies.
THEOREM NeverEndsEarlyCorrect == Spec => []NeverEndsEarly
<1>1. Init => EndInv
  BY DEF Init, EndInv, NeverEndsEarly
<1>2. EndInv => NeverEndsEarly
  BY DEF EndInv
<1> QED BY <1>1, <1>2, InitType, InitPaging, NextPaging, NextEnd, PTL DEF Spec

\* A tail gives what the log holds and goes on for as long as the run does, for
\* any log and page size: the theorems of paging and of the end together.
THEOREM TailIsFaithfulCorrect == Spec => []TailIsFaithful
<1>1. ExactlyOnceInOrder /\ NeverEndsEarly => TailIsFaithful
  BY DEF TailIsFaithful
<1> QED BY <1>1, ExactlyOnceCorrect, NeverEndsEarlyCorrect, PTL

-----------------------------------------------------------------------------
(* Who reads in the writer's own loop has the whole of the run. *)

Has(l, S) == \E k \in 1 .. Len(l) : l[k] \in S

\* Nothing closes a stream in the log before a verdict does.
Closed(l) ==
  \A k \in 1 .. Len(l) : l[k] \in {"result", "done"} => \E j \in 1 .. k : l[j] \in Terminal

LEMMA HasAppend ==
  ASSUME NEW l \in Seq(Event), NEW e, NEW S
  PROVE  Has(Append(l, e), S) <=> Has(l, S) \/ e \in S
<1> DEFINE n == Len(l)
<1>1. /\ n \in Nat /\ Len(Append(l, e)) = n + 1 /\ Append(l, e)[n + 1] = e
      /\ \A k \in 1 .. n : Append(l, e)[k] = l[k]
  OBVIOUS
<1> DEFINE m == Append(l, e)
<1> HIDE DEF n, m
<1>2. (\E k \in 1 .. n + 1 : m[k] \in S) <=> (\E k \in 1 .. n : l[k] \in S) \/ e \in S
  <2>1. /\ n \in Nat /\ m[n + 1] = e /\ \A k \in 1 .. n : m[k] = l[k]
    BY <1>1 DEF m
  <2>2. \A k \in 1 .. n + 1 : k \in 1 .. n \/ k = n + 1
    BY <2>1
  <2>3. n + 1 \in 1 .. n + 1 /\ \A k \in 1 .. n : k \in 1 .. n + 1
    BY <2>1
  <2> QED BY <2>1, <2>2, <2>3
<1> QED BY <1>1, <1>2 DEF Has, m, n

LEMMA ClosedAppend ==
  ASSUME NEW l \in Seq(Event), NEW e, Closed(l), e \in {"result", "done"} => Has(l, Terminal)
  PROVE  Closed(Append(l, e))
<1> DEFINE n == Len(l)
           m == Append(l, e)
<1>1. /\ n \in Nat /\ Len(m) = n + 1 /\ m[n + 1] = e /\ \A k \in 1 .. n : m[k] = l[k]
  OBVIOUS
<1>2. /\ e \in {"result", "done"} => \E j \in 1 .. n : l[j] \in Terminal
      /\ \A k \in 1 .. n : l[k] \in {"result", "done"} => \E j \in 1 .. k : l[j] \in Terminal
  BY DEF Has, Closed
<1> HIDE DEF n, m
<1>3. ASSUME NEW k \in 1 .. n + 1, m[k] \in {"result", "done"}
      PROVE  \E j \in 1 .. k : m[j] \in Terminal
  <2>1. PICK j \in 1 .. n : j <= k /\ l[j] \in Terminal
    <3>1. CASE k = n + 1
      BY <1>1, <1>2, <1>3, <3>1
    <3>2. CASE k \in 1 .. n
      BY <1>1, <1>2, <1>3, <3>2
    <3> QED BY <1>1, <3>1, <3>2
  <2>2. m[j] \in Terminal /\ j \in 1 .. k
    BY <1>1, <2>1
  <2> QED BY <2>2
<1> QED BY <1>1, <1>3 DEF Closed, m

\* Why: the statements that are left of the writer's segment say how far the log
\* and the row have come.
Marking(s) == << Mark(s), Append1("result"), Append1("done") >>
Cancelling == << Append1("CANCELLED"), Append1("result"), Append1("done") >>
Expiring == << Append1("EXPIRED") >>
Closing == << Append1("result"), Append1("done") >>
LastOne == << Append1("done") >>

Verdict == Has(log, Terminal)
Failure == Has(log, {"ERROR"})

TodoInv ==
  \/ todo = <<>> /\ (row \in Terminal <=> Verdict)
  \/ \E s \in {"FINISHED", "ERROR"} : todo = EndScript(s) /\ ~alive /\ ~Failure
  \/ \E s \in {"FINISHED", "ERROR"} :
       todo = Marking(s) /\ ~alive /\ Verdict /\ (Failure => s = "ERROR")
  \/ todo \in {Closing, LastOne} /\ Verdict /\ row \in Terminal
  \/ todo \in {CancelScript, ExpireScript} /\ row = "RUNNING" /\ ~Failure
  \/ todo \in {Cancelling, Expiring} /\ row \in Terminal /\ ~Failure

FailureInv == Failure => ~alive /\ (row = "ERROR" \/ todo = Marking("ERROR"))

WriterInv == SharedLoop => Closed(log) /\ TodoInv /\ FailureInv

\* A reader that does not give the loop away within a page: the page it holds ends
\* where the log ends, or more follows, until the next sleep.
Steady == client.place = "loop" \/ (SharedLoop /\ client.op = "wait")

SteadyInv ==
  /\ SharedLoop /\ ~Suspended => todo = <<>>
  /\ Steady =>
     /\ pc \in {"page", "held"} => (more <=> Len(log) > offset + Len(page))
     /\ pc = "row" => offset = Len(log)
     /\ pc \in {"find_run", "ended"} => \E k \in 1 .. offset : log[k] \in Terminal
     /\ pc = "ended" /\ client.op = "wait" =>
          /\ result \in Terminal
          /\ \A i \in DOMAIN got : log[got[i]] = "ERROR" => result = "ERROR"

LEMMA TailsOfScripts ==
  /\ \A s : /\ Head(EndScript(s)) = Append1(s) /\ Tail(EndScript(s)) = Marking(s)
            /\ Head(Marking(s)) = Mark(s) /\ Tail(Marking(s)) = Closing
  /\ Head(Closing) = Append1("result") /\ Tail(Closing) = LastOne
  /\ Head(LastOne) = Append1("done") /\ Tail(LastOne) = <<>>
  /\ Head(CancelScript) = Mark("CANCELLED") /\ Tail(CancelScript) = Cancelling
  /\ Head(Cancelling) = Append1("CANCELLED") /\ Tail(Cancelling) = Closing
  /\ Head(ExpireScript) = Mark("EXPIRED") /\ Tail(ExpireScript) = Expiring
  /\ Head(Expiring) = Append1("EXPIRED") /\ Tail(Expiring) = <<>>
BY DEF EndScript, Marking, Closing, LastOne, CancelScript, Cancelling, ExpireScript, Expiring

\* An event is appended: the first statement of the rest t.
LEMMA WriterAppends ==
  ASSUME TypeOK, WriterStatement, NEW e \in Event, Head(todo) = Append1(e),
         Closed(log), e \in {"result", "done"} => Verdict
  PROVE  /\ todo' = Tail(todo) /\ UNCHANGED <<row, alive, reader>>
         /\ Closed(log')
         /\ Verdict' <=> Verdict \/ e \in Terminal
         /\ Failure' <=> Failure \/ e = "ERROR"
<1>1. log' = Append(log, e) /\ UNCHANGED row
  BY DEF WriterStatement, Append1
<1>2. log \in Seq(Event)
  BY DEF TypeOK
<1>3. Has(Append(log, e), Terminal) <=> Has(log, Terminal) \/ e \in Terminal
  BY <1>2, HasAppend
<1>4. Has(Append(log, e), {"ERROR"}) <=> Has(log, {"ERROR"}) \/ e = "ERROR"
  BY <1>2, HasAppend
<1>5. Closed(Append(log, e))
  BY <1>2, ClosedAppend DEF Verdict
<1> QED BY <1>1, <1>3, <1>4, <1>5 DEF Verdict, Failure, WriterStatement

LEMMA WriterMarks ==
  ASSUME TypeOK, WriterStatement, NEW s \in Terminal, Head(todo) = Mark(s)
  PROVE  todo' = Tail(todo) /\ row' = s /\ UNCHANGED <<log, alive, reader>>
BY DEF WriterStatement, Mark

LEMMA WriterKeeps ==
  ASSUME TypeOK, WriterInv, SharedLoop, Writer
  PROVE  Closed(log') /\ TodoInv' /\ FailureInv'
<1>0. Closed(log) /\ TodoInv /\ FailureInv
  BY DEF WriterInv
<1>t. /\ \A s \in {"FINISHED", "ERROR", "CANCELLED", "EXPIRED"} : s \in Terminal /\ s \in Event
      /\ "message" \notin Terminal /\ "result" \notin Terminal /\ "done" \notin Terminal
      /\ {"message", "result", "done"} \subseteq Event /\ "RUNNING" \notin Terminal
  BY DEF Terminal, Event
<1>1. CASE Emit
  <2>1. log' = Append(log, "message") /\ log \in Seq(Event) /\ todo = <<>> /\ alive
        /\ UNCHANGED <<row, alive, todo>>
    BY <1>1 DEF Emit, TypeOK
  <2>2. Verdict' <=> Verdict
    BY <2>1, <1>t, HasAppend DEF Verdict
  <2>3. Failure' <=> Failure
    <3>1. Has(Append(log, "message"), {"ERROR"}) <=> Has(log, {"ERROR"}) \/ "message" \in {"ERROR"}
      BY <2>1, HasAppend
    <3> QED BY <2>1, <3>1 DEF Failure
  <2>4. Closed(log')
    BY <1>0, <2>1, ClosedAppend
  <2> QED BY <1>0, <2>1, <2>2, <2>3, <2>4 DEF TodoInv, FailureInv
<1>2. ASSUME NEW s \in {"FINISHED", "ERROR"}, EndTurn(s) PROVE Closed(log') /\ TodoInv' /\ FailureInv'
  <2>1. todo' = EndScript(s) /\ ~alive' /\ alive /\ UNCHANGED log
    BY <1>2 DEF EndTurn
  <2>2. ~Failure /\ ~Failure'
    BY <1>0, <2>1 DEF FailureInv, Failure
  <2> QED BY <1>0, <1>2, <2>1, <2>2 DEF TodoInv, FailureInv
<1>3. ASSUME NEW script \in {CancelScript, ExpireScript}, Overtake(script)
      PROVE  Closed(log') /\ TodoInv' /\ FailureInv'
  <2>1. todo = <<>> /\ row = "RUNNING" /\ todo' = script /\ UNCHANGED <<log, row, alive>>
    BY <1>3 DEF Overtake
  <2>2. ~Failure /\ ~Failure'
    <3>1. Marking("ERROR") # <<>>
      BY DEF Marking
    <3> QED BY <1>0, <2>1, <3>1 DEF FailureInv, Failure
  <2> QED BY <1>0, <1>3, <2>1, <2>2 DEF TodoInv, FailureInv
<1>4. CASE WriterStatement
  <2>0. todo # <<>>
    BY <1>4 DEF WriterStatement
  <2>1. ASSUME NEW s \in {"FINISHED", "ERROR"}, todo = EndScript(s), ~alive, ~Failure
        PROVE  Closed(log') /\ TodoInv' /\ FailureInv'
    <3>1. /\ todo' = Marking(s) /\ ~alive' /\ Closed(log') /\ Verdict'
          /\ Failure' => s = "ERROR"
      BY <1>0, <1>4, <1>t, <2>1, TailsOfScripts, WriterAppends
    <3> QED BY <3>1 DEF TodoInv, FailureInv
  <2>2. ASSUME NEW s \in {"FINISHED", "ERROR"}, todo = Marking(s), ~alive, Verdict,
               Failure => s = "ERROR"
        PROVE  Closed(log') /\ TodoInv' /\ FailureInv'
    <3>1. todo' = Closing /\ row' = s /\ UNCHANGED <<log, alive>>
      BY <1>4, <1>t, <2>2, TailsOfScripts, WriterMarks
    <3>2. UNCHANGED <<Verdict, Failure>>
      BY <3>1 DEF Verdict, Failure
    <3> QED BY <1>0, <1>t, <2>2, <3>1, <3>2 DEF TodoInv, FailureInv
  <2>3. CASE todo = Closing /\ Verdict /\ row \in Terminal
    <3>1. /\ todo' = LastOne /\ UNCHANGED <<row, alive>> /\ Closed(log') /\ Verdict'
          /\ Failure' <=> Failure
      BY <1>0, <1>4, <1>t, <2>3, TailsOfScripts, WriterAppends
    <3>2. Closing # Marking("ERROR")
      BY TailsOfScripts DEF Append1, Mark
    <3> QED BY <1>0, <2>3, <3>1, <3>2 DEF TodoInv, FailureInv
  <2>4. CASE todo = LastOne /\ Verdict /\ row \in Terminal
    <3>1. /\ todo' = <<>> /\ UNCHANGED <<row, alive>> /\ Closed(log') /\ Verdict'
          /\ Failure' <=> Failure
      BY <1>0, <1>4, <1>t, <2>4, TailsOfScripts, WriterAppends
    <3>2. LastOne # Marking("ERROR")
      BY TailsOfScripts DEF Append1, Mark
    <3> QED BY <1>0, <2>4, <3>1, <3>2 DEF TodoInv, FailureInv
  <2>5. CASE todo = CancelScript /\ row = "RUNNING" /\ ~Failure
    <3>1. todo' = Cancelling /\ row' = "CANCELLED" /\ UNCHANGED <<log, alive>>
      BY <1>4, <1>t, <2>5, TailsOfScripts, WriterMarks
    <3>2. ~Failure'
      BY <2>5, <3>1 DEF Failure
    <3> QED BY <1>0, <1>t, <3>1, <3>2 DEF TodoInv, FailureInv
  <2>6. CASE todo = ExpireScript /\ row = "RUNNING" /\ ~Failure
    <3>1. todo' = Expiring /\ row' = "EXPIRED" /\ UNCHANGED <<log, alive>>
      BY <1>4, <1>t, <2>6, TailsOfScripts, WriterMarks
    <3>2. ~Failure'
      BY <2>6, <3>1 DEF Failure
    <3> QED BY <1>0, <1>t, <3>1, <3>2 DEF TodoInv, FailureInv
  <2>7. CASE todo = Cancelling /\ row \in Terminal /\ ~Failure
    <3>1. /\ todo' = Closing /\ UNCHANGED <<row, alive>> /\ Closed(log') /\ Verdict' /\ ~Failure'
      BY <1>0, <1>4, <1>t, <2>7, TailsOfScripts, WriterAppends
    <3> QED BY <2>7, <3>1 DEF TodoInv, FailureInv
  <2>8. CASE todo = Expiring /\ row \in Terminal /\ ~Failure
    <3>1. /\ todo' = <<>> /\ UNCHANGED <<row, alive>> /\ Closed(log') /\ Verdict' /\ ~Failure'
      BY <1>0, <1>4, <1>t, <2>8, TailsOfScripts, WriterAppends
    <3> QED BY <2>8, <3>1 DEF TodoInv, FailureInv
  <2> QED BY <1>0, <2>0, <2>1, <2>2, <2>3, <2>4, <2>5, <2>6, <2>7, <2>8 DEF TodoInv
<1>5. CASE WriterCrashes
  BY <1>5 DEF WriterCrashes
<1> QED BY <1>1, <1>2, <1>3, <1>4, <1>5 DEF Writer

LEMMA NextWriter == TypeOK /\ WriterInv /\ [Next]_vars => WriterInv'
<1> SUFFICES ASSUME TypeOK, WriterInv, [Next]_vars PROVE WriterInv'
  OBVIOUS
<1>1. CASE Writer
  <2>1. SharedLoop' <=> SharedLoop
    BY <1>1, WriterFacts DEF reader, SharedLoop
  <2> QED BY <1>1, <2>1, WriterKeeps DEF WriterInv
<1>2. CASE UNCHANGED <<writer, client>>
  BY <1>2 DEF WriterInv, TodoInv, FailureInv, Verdict, Failure, writer, SharedLoop
<1>3. ASSUME NEW m \in {"replay", "tail", "replay-and-tail"}, Start(m) PROVE UNCHANGED <<writer, client>>
  BY <1>3 DEF Start
<1>4. CASE ReaderStep
  BY <1>2, <1>4 DEF ReaderStep, Drain, ListPage, TakeEvent, ConsumerReturns, PageDone, ReadRow,
                    Wake, WaitFindsRun
<1>5. CASE UNCHANGED vars
  BY <1>2, <1>5 DEF vars, writer
<1> QED BY <1>1, <1>2, <1>3, <1>4, <1>5 DEF Next

\* The writer goes on only where a reader of its loop has given the loop away.
LEMMA WriterSteady ==
  ASSUME TypeOK, PagingInv, SteadyInv, Writer PROVE SteadyInv'
<1>1. /\ UNCHANGED reader /\ UNCHANGED <<pc, client, offset, page, more, got, result>>
      /\ log' = log \/ \E e \in Event : log' = Append(log, e)
  BY WriterFacts DEF reader
<1>2. /\ Len(log) \in Nat /\ Len(log) <= Len(log') /\ \A k \in 1 .. Len(log) : log'[k] = log[k]
  <2>1. log \in Seq(Event)
    BY DEF TypeOK
  <2>2. CASE log' = log
    BY <2>1, <2>2
  <2>3. CASE \E e \in Event : log' = Append(log, e)
    BY <2>1, <2>3, AppendProperties
  <2> QED BY <1>1, <2>2, <2>3
<1>3. SharedLoop => Suspended
  BY DEF Writer, Emit, EndTurn, Overtake, WriterStatement, WriterCrashes, WriterRuns
<1>4. offset \in Nat /\ offset <= Len(log)
  BY <1>2 DEF TypeOK, PagingInv, PageIsNext
<1>5. Steady => SharedLoop /\ pc \in {"start", "sleep", "ended"}
  BY <1>3 DEF Steady, SharedLoop, Suspended
<1>6. Suspended' <=> Suspended
  BY <1>1 DEF Suspended
<1>7. (SharedLoop /\ ~Suspended => todo = <<>>)'
  BY <1>1, <1>3, <1>6 DEF SharedLoop
<1>8. ASSUME Steady, pc = "ended"
      PROVE  /\ \E k \in 1 .. offset : log'[k] \in Terminal
             /\ client.op = "wait" =>
                  /\ result \in Terminal
                  /\ \A i \in DOMAIN got : log'[got[i]] = "ERROR" => result = "ERROR"
  <2>1. PICK k \in 1 .. offset : log[k] \in Terminal
    BY <1>8 DEF SteadyInv
  <2>2. \E j \in 1 .. offset : log'[j] \in Terminal
    BY <1>2, <1>4, <2>1
  <2>3. ASSUME NEW i \in DOMAIN got PROVE log'[got[i]] = log[got[i]]
    <3>1. got[i] \in Nat /\ from \in Nat /\ from < got[i] /\ got[i] <= offset
      BY DEF PagingInv, ExactlyOnceInOrder, TypeOK
    <3>2. got[i] \in 1 .. Len(log)
      BY <1>2, <1>4, <3>1
    <3> QED BY <1>2, <3>2
  <2> QED BY <1>8, <2>2, <2>3 DEF SteadyInv
<1> QED BY <1>1, <1>5, <1>7, <1>8 DEF SteadyInv, Steady, SharedLoop

\* A verdict is within reach of a reader that saw the end, and the row agrees.
LEMMA EndIsVerdict ==
  ASSUME TypeOK, PagingInv, EndInv, WriterInv, SharedLoop, saw
  PROVE  \E k \in 1 .. offset : log[k] \in Terminal
<1>1. PICK k \in 1 .. offset : IsTerminalEvent(log[k])
  BY DEF EndInv, EndSeen
<1>2. offset \in Nat /\ Len(log) \in Nat /\ k \in 1 .. Len(log)
  BY <1>1 DEF TypeOK, PagingInv, PageIsNext
<1>3. log[k] \in Terminal \/ \E j \in 1 .. k : log[j] \in Terminal
  BY <1>1, <1>2 DEF WriterInv, Closed, IsTerminalEvent
<1> QED BY <1>1, <1>2, <1>3

LEMMA ReaderSteady ==
  ASSUME TypeOK, PagingInv, EndInv, WriterInv, SteadyInv, ReaderStep PROVE SteadyInv'
<1>1. /\ UNCHANGED <<log, row, alive, todo, client>>
      /\ SharedLoop => todo = <<>>
      /\ pc \notin {"start", "ended"}
  BY DEF ReaderStep, Drain, ListPage, TakeEvent, ConsumerReturns, PageDone, ReadRow,
                Wake, WaitFindsRun, writer, ReaderRuns
<1>2. /\ offset \in Nat /\ Len(log) \in Nat /\ PageLimit \in Nat /\ Len(page) \in Nat
      /\ from \in Nat /\ offset + Len(page) <= Len(log) /\ page \in Seq(Nat)
      /\ PageEnd(offset) \in offset .. Len(log)
      /\ Len(PageAfter(offset)) = PageEnd(offset) - offset
  <2>1. /\ offset \in 0 .. Len(log) /\ offset \in Nat /\ Len(log) \in Nat /\ page \in Seq(Nat)
        /\ offset + Len(page) <= Len(log) /\ from \in Nat
    BY DEF PagingInv, PageIsNext, TypeOK
  <2>2. Len(page) \in Nat
    BY <2>1
  <2> QED BY <2>1, <2>2, PageFacts, TailAssumption
<1>3. SharedLoop' => todo' = <<>>
  BY <1>1 DEF SharedLoop
<1>s. Steady => SharedLoop
  BY DEF Steady, SharedLoop
<1>4. SUFFICES ASSUME Steady
      PROVE /\ pc' \in {"page", "held"} => (more' <=> Len(log) > offset' + Len(page'))
            /\ pc' = "row" => offset' = Len(log)
            /\ pc' \in {"find_run", "ended"} => \E k \in 1 .. offset' : log[k] \in Terminal
            /\ pc' = "ended" /\ client.op = "wait" =>
                 /\ result' \in Terminal
                 /\ \A i \in DOMAIN got' : log[got'[i]] = "ERROR" => result' = "ERROR"
  BY <1>1, <1>3 DEF SteadyInv, Steady, SharedLoop
\* an ended row, with nothing of a segment left, is a verdict in the log
<1>5. /\ todo = <<>> /\ SharedLoop
      /\ row \in Terminal <=> \E k \in 1 .. Len(log) : log[k] \in Terminal
  <2>1. todo = <<>> /\ SharedLoop
    BY <1>1, <1>4, <1>s
  <2>2. row \in Terminal <=> Verdict
    <3>1. /\ \A s : EndScript(s) # <<>> /\ Marking(s) # <<>>
          /\ Closing # <<>> /\ LastOne # <<>> /\ CancelScript # <<>> /\ ExpireScript # <<>>
          /\ Cancelling # <<>> /\ Expiring # <<>>
      BY DEF EndScript, Marking, Closing, LastOne, CancelScript, Cancelling, ExpireScript, Expiring
    <3> QED BY <2>1, <3>1 DEF WriterInv, TodoInv
  <2> QED BY <2>1, <2>2 DEF Verdict, Has
<1>6. CASE Drain
  BY <1>6 DEF Drain
<1>7. CASE ListPage
  <2>1. /\ page' = PageAfter(offset) /\ more' = MoreAfter(offset) /\ offset' = offset /\ pc' = "page"
    BY <1>7 DEF ListPage
  <2>2. MoreAfter(offset) <=> Len(log) > PageEnd(offset)
    BY <1>2 DEF MoreAfter, PageEnd
  <2>3. offset + Len(PageAfter(offset)) = PageEnd(offset)
    BY <1>2
  <2> QED BY <2>1, <2>2, <2>3
<1>8. CASE TakeEvent
  <2>1. page # <<>> /\ pc = "page"
    BY <1>8 DEF TakeEvent
  <2>2. Head(page) = offset + 1 /\ Len(Tail(page)) = Len(page) - 1
    BY <1>2, <2>1 DEF PagingInv, PageIsNext
  <2>3. offset' = offset + 1 /\ page' = Tail(page) /\ more' = more /\ pc' \in {"held", "page"}
    BY <1>8, <2>2 DEF TakeEvent
  <2>4. more <=> Len(log) > offset + Len(page)
    BY <1>4, <2>1 DEF SteadyInv
  <2>5. Len(page') = Len(page) - 1
    BY <2>2, <2>3
  <2> DEFINE n == Len(page)
             m == Len(page')
  <2>6. n \in Nat /\ m = n - 1 /\ offset' = offset + 1 /\ offset \in Nat
    BY <1>2, <2>3, <2>5
  <2> HIDE DEF n, m
  <2>7. offset' + m = offset + n
    BY <2>6
  <2> QED BY <2>3, <2>4, <2>7 DEF n, m
<1>9. CASE ConsumerReturns
  <2>1. UNCHANGED <<offset, page, more>> /\ pc = "held" /\ pc' = "page"
    BY <1>9 DEF ConsumerReturns
  <2> QED BY <1>4, <2>1 DEF SteadyInv
<1>10. CASE PageDone
  <2>1. /\ UNCHANGED <<offset, got, result>> /\ pc = "page" /\ page = <<>>
        /\ pc' = IF saw THEN AfterStream
                 ELSE IF more THEN "list"
                 ELSE IF mode = "replay" THEN AfterStream
                 ELSE "row"
    BY <1>10 DEF PageDone
  <2>2. ~more => offset = Len(log)
    <3>1. more <=> Len(log) > offset + Len(page)
      BY <1>4, <2>1 DEF SteadyInv
    <3> QED BY <1>2, <2>1, <3>1
  <2>3. saw => \E k \in 1 .. offset : log[k] \in Terminal
    BY <1>5, EndIsVerdict
  <2>4. ~more /\ mode = "replay" => \E k \in 1 .. offset : log[k] \in Terminal
    <3>1. mode = "replay" => row \in Terminal
      BY <2>1 DEF EndInv, TypeOK
    <3> QED BY <1>5, <2>2, <3>1
  <2>5. /\ AfterStream \in {"find_run", "ended"}
        /\ client.op = "wait" => AfterStream = "find_run"
    BY DEF AfterStream
  <2> QED BY <2>1, <2>2, <2>3, <2>4, <2>5
<1>11. CASE ReadRow
  <2>1. /\ UNCHANGED <<offset, got, result>> /\ pc = "row"
        /\ pc' = IF row \in Terminal THEN AfterStream ELSE "sleep"
    BY <1>11 DEF ReadRow
  <2>2. offset = Len(log)
    BY <1>4, <2>1 DEF SteadyInv
  <2>3. /\ AfterStream \in {"find_run", "ended"}
        /\ client.op = "wait" => AfterStream = "find_run"
    BY DEF AfterStream
  <2> QED BY <1>5, <2>1, <2>2, <2>3
<1>12. CASE Wake
  BY <1>12 DEF Wake
<1>13. CASE WaitFindsRun
  <2>1. UNCHANGED <<offset, got>> /\ pc = "find_run" /\ pc' = "ended" /\ result' = row
    BY <1>13 DEF WaitFindsRun
  <2>2. PICK k \in 1 .. offset : log[k] \in Terminal
    BY <1>4, <2>1 DEF SteadyInv
  <2>3. row \in Terminal
    BY <1>2, <1>5, <2>2
  <2>4. ASSUME NEW i \in DOMAIN got, log[got[i]] = "ERROR" PROVE row = "ERROR"
    <3>1. got[i] \in Nat /\ from < got[i] /\ got[i] <= offset
      BY DEF PagingInv, ExactlyOnceInOrder, TypeOK
    <3>2. got[i] \in 1 .. Len(log)
      BY <1>2, <3>1
    <3>3. Failure
      BY <2>4, <3>2 DEF Failure, Has
    <3>4. Marking("ERROR") # <<>>
      BY DEF Marking
    <3> QED BY <1>5, <3>3, <3>4 DEF WriterInv, FailureInv
  <2> QED BY <2>1, <2>2, <2>3, <2>4
<1> QED BY <1>6, <1>7, <1>8, <1>9, <1>10, <1>11, <1>12, <1>13 DEF ReaderStep

LEMMA NextSteady ==
  TypeOK /\ PagingInv /\ EndInv /\ WriterInv /\ SteadyInv /\ [Next]_vars => SteadyInv'
<1> SUFFICES ASSUME TypeOK, PagingInv, EndInv, WriterInv, SteadyInv, [Next]_vars PROVE SteadyInv'
  OBVIOUS
<1>1. CASE UNCHANGED vars
  BY <1>1 DEF SteadyInv, Steady, SharedLoop, Suspended, vars
<1>2. ASSUME NEW m \in {"replay", "tail", "replay-and-tail"}, Start(m) PROVE SteadyInv'
  <2>1. /\ UNCHANGED <<todo, client>> /\ (SharedLoop => todo = <<>>)
        /\ pc' \in {"drain", "list"}
    BY <1>2 DEF Start, writer, ReaderRuns
  <2> QED BY <2>1 DEF SteadyInv, SharedLoop
<1> QED BY <1>1, <1>2, WriterSteady, ReaderSteady DEF Next

\* In the writer's own loop nothing of a run is lost between the end of a page and
\* the look at the row, and wait() returns the status of a run that has ended, which
\* is ERROR if the stream said so.  Both rest on segments of statements that a reader
\* of the loop never splits.
THEOREM LoopReadersAgreeCorrect == Spec => []LoopReadersAgree
<1>1. Init => WriterInv /\ SteadyInv
  <2> SUFFICES ASSUME Init PROVE WriterInv /\ SteadyInv
    OBVIOUS
  <2>1. /\ log = <<"message">> /\ row = "RUNNING" /\ todo = <<>> /\ pc = "start"
        /\ Len(log) = 1 /\ log[1] = "message"
    BY DEF Init
  <2>2. ~Verdict /\ ~Failure /\ Closed(log) /\ row \notin Terminal
    BY <2>1 DEF Verdict, Failure, Has, Closed, Terminal
  <2> QED BY <2>1, <2>2 DEF WriterInv, TodoInv, FailureInv, SteadyInv, Suspended
<1>2. TypeOK /\ PagingInv /\ SteadyInv => LoopReadersAgree
  <2> SUFFICES ASSUME TypeOK, PagingInv, SteadyInv PROVE LoopReadersAgree
    OBVIOUS
  <2>1. NothingLost
    <3> SUFFICES ASSUME client.place = "loop", pc = "ended", NEW k \in 1 .. Len(log), FirstVerdict(k)
                 PROVE  k <= offset
      BY DEF NothingLost, VerdictDelivered
    <3>1. PICK j \in 1 .. offset : log[j] \in Terminal
      BY DEF SteadyInv, Steady
    <3>2. offset \in Nat /\ Len(log) \in Nat
      BY DEF TypeOK
    <3> QED BY <3>1, <3>2 DEF FirstVerdict
  <2>2. WaitReportsVerdict
    BY DEF WaitReportsVerdict, SteadyInv, Steady
  <2> QED BY <2>1, <2>2 DEF LoopReadersAgree
<1>3. Init => EndInv
  BY DEF Init, EndInv, NeverEndsEarly
<1> QED BY <1>1, <1>2, <1>3, InitType, InitPaging, NextPaging, NextEnd, NextWriter, NextSteady,
           PTL DEF Spec

=============================================================================
