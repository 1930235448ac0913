------------------------ MODULE CloudRunStream_proofs ------------------------
(* Theorems about CloudRunStream. *)
EXTENDS MCFollowing, SequenceTheorems, TLAPS

\* The actions that change the events at the service: it reports, the run ends, or
\* a cancel ends it.
ServiceSteps ==
  \/ \E f \in Cloud!Frame \ {"result"} : Cloud!Report(f)
  \/ Cloud!RunEnds \/ Cloud!CancelArrives

\* The actions that read an event of the connection.
ReadSteps == Cloud!ReadFrame \/ Cloud!FrameRaises \/ Cloud!ReadResult

OtherSteps ==
  \/ Cloud!Begin \/ Cloud!DeadlinePasses
  \/ Cloud!Opens \/ Cloud!OpenFails \/ Cloud!OpenDenied \/ Cloud!OpenRejectsId
  \/ Cloud!ReadError \/ Cloud!ReadRejectsId \/ Cloud!Drops
  \/ Cloud!RunAnswers \/ Cloud!Refetched \/ Cloud!RefetchDenied \/ Cloud!BackoffEnds \/ Cloud!WaitEnds
  \/ Cloud!CancelSent \/ Cloud!CancelReturns \/ Cloud!CancelRaises

\* Next, sorted by what a step does to the events.
LEMMA NextSplit ==
  ASSUME Cloud!Next
  PROVE  ServiceSteps \/ ReadSteps \/ OtherSteps
BY Zenon DEF Cloud!Next, Cloud!Attempt, Cloud!Cancel, ServiceSteps, ReadSteps, OtherSteps

\* The service appends one event; the client does nothing but learn of its cancel.
LEMMA ServiceStep ==
  ASSUME Cloud!TypeOK, ServiceSteps
  PROVE  /\ \E f \in Cloud!Frame : frames' = Append(frames, f) \/ frames' = frames
         /\ server' \in Cloud!Status /\ (server # "running" => server' = server)
         /\ cancel' = cancel \/ (cancel' = "accepted" /\ server' = "cancelled")
                             \/ cancel' = "refused"
         /\ UNCHANGED <<loop, Cloud!session, status, abort, late, Cloud!output>>
<1>1. CASE \E f \in Cloud!Frame \ {"result"} : Cloud!Report(f)
  <2>1. PICK f \in Cloud!Frame \ {"result"} : Cloud!Report(f)
    BY <1>1
  <2> QED
    BY <2>1 DEF Cloud!Report, Cloud!TypeOK
<1>2. CASE Cloud!RunEnds
  BY <1>2 DEF Cloud!RunEnds, Cloud!Ends, Cloud!TypeOK, Cloud!Frame, Cloud!Status
<1>3. CASE Cloud!CancelArrives
  BY <1>3 DEF Cloud!CancelArrives, Cloud!Ends, Cloud!TypeOK, Cloud!Frame, Cloud!Status,
     Cloud!service
<1> QED
  BY <1>1, <1>2, <1>3 DEF ServiceSteps

\* Appending to a sequence keeps what it holds and adds the last element.
LEMMA Appended ==
  ASSUME NEW S, NEW q \in Seq(S), NEW e \in S
  PROVE  /\ Append(q, e) \in Seq(S)
         /\ Len(Append(q, e)) = Len(q) + 1 /\ Len(q) \in Nat
         /\ DOMAIN q = 1 .. Len(q) /\ DOMAIN Append(q, e) = 1 .. Len(q) + 1
         /\ Append(q, e)[Len(q) + 1] = e
         /\ \A i \in DOMAIN q : Append(q, e)[i] = q[i]
<1>1. Append(q, e) \in Seq(S) /\ Len(Append(q, e)) = Len(q) + 1
  BY AppendProperties
<1>2. DOMAIN q = 1 .. Len(q) /\ Len(q) \in Nat
  BY LenProperties
<1>3. DOMAIN Append(q, e) = 1 .. Len(q) + 1
  BY <1>1, LenProperties
<1>4. Append(q, e)[Len(q) + 1] = e /\ \A i \in 1 .. Len(q) : Append(q, e)[i] = q[i]
  BY AppendProperties
<1> QED
  BY <1>1, <1>2, <1>3, <1>4

\* The events at the service only grow.
LEMMA FramesGrow ==
  ASSUME Cloud!TypeOK, ServiceSteps
  PROVE  /\ frames' \in Seq(Cloud!Frame) /\ DOMAIN frames = 1 .. Len(frames)
         /\ Len(frames) \in Nat /\ Len(frames') \in Nat /\ Len(frames) <= Len(frames')
         /\ DOMAIN frames' = 1 .. Len(frames')
         /\ \A k \in DOMAIN frames : frames'[k] = frames[k]
<1>1. PICK f \in Cloud!Frame : frames' = Append(frames, f) \/ frames' = frames
  BY ServiceStep
<1>2. frames \in Seq(Cloud!Frame)
  BY DEF Cloud!TypeOK
<1> QED
  BY <1>1, <1>2, Appended, LenProperties

\* Reading an event queues it or leaves the queue alone.
LEMMA QueueGrows ==
  ASSUME Cloud!TypeOK, ReadSteps
  PROVE  /\ queue' \in Seq(DOMAIN frames) /\ DOMAIN queue = 1 .. Len(queue)
         /\ next \in DOMAIN frames /\ DOMAIN frames = 1 .. Len(frames)
         /\ \A i \in DOMAIN queue : i \in DOMAIN queue' /\ queue'[i] = queue[i]
         /\ \A i \in DOMAIN queue' :
              queue'[i] = next \/ (i \in DOMAIN queue /\ queue'[i] = queue[i])
         /\ queue' = queue \/ (Len(queue') \in DOMAIN queue' /\ queue'[Len(queue')] = next)
<1>1. queue' = queue \/ queue' = Append(queue, next)
  BY DEF ReadSteps, Cloud!ReadFrame, Cloud!FrameRaises, Cloud!ReadResult, Cloud!output
<1>2. frames \in Seq(Cloud!Frame) /\ queue \in Seq(DOMAIN frames) /\ next \in Nat \ {0}
  BY DEF Cloud!TypeOK
<1>3. next \in DOMAIN frames /\ DOMAIN frames = 1 .. Len(frames)
  BY <1>2, LenProperties DEF ReadSteps, Cloud!ReadFrame, Cloud!FrameRaises,
     Cloud!ReadResult, Cloud!HasNext
<1>4. DOMAIN queue = 1 .. Len(queue) /\ Len(queue) \in Nat
  BY <1>2, LenProperties
<1>5. CASE queue' = Append(queue, next)
  <2>1. /\ queue' \in Seq(DOMAIN frames)
        /\ Len(queue') = Len(queue) + 1 /\ DOMAIN queue' = 1 .. Len(queue) + 1
        /\ queue'[Len(queue) + 1] = next
        /\ \A i \in DOMAIN queue : queue'[i] = queue[i]
    BY <1>2, <1>3, <1>5, Appended
  <2>2. \A i \in DOMAIN queue' : i \in DOMAIN queue \/ i = Len(queue) + 1
    BY <1>4, <2>1
  <2> QED
    BY <1>3, <1>4, <2>1, <2>2
<1> QED
  BY <1>1, <1>2, <1>3, <1>4, <1>5

-----------------------------------------------------------------------------
(* The events and what was made of them *)

\* Of the events fs, every message up to the k-th one was queued, or raised when it
\* was handled.
HandledOf(fs, q, raised, k) ==
  \A j \in DOMAIN fs :
    j <= k /\ Cloud!IsMessage(fs[j]) => j \in raised \/ \E i \in DOMAIN q : q[i] = j

Handled(k) == HandledOf(frames, queue, skipped, k)

\* The loop has handled everything up to the id it resumes after, up to every message
\* it has queued, and on a connection everything before the next event.
StreamInv ==
  /\ next <= Len(frames) + 1 /\ lastId <= Len(frames)
  /\ Handled(lastId)
  /\ \A i \in DOMAIN queue : Handled(queue[i])
  /\ loop = "reading" => Handled(next - 1)

\* Every action keeps TypeOK.
LEMMA TypeStep == Cloud!TypeOK /\ [Cloud!Next]_streamVars => Cloud!TypeOK'
<1> SUFFICES ASSUME Cloud!TypeOK, [Cloud!Next]_streamVars
             PROVE Cloud!TypeOK'
  OBVIOUS
<1> USE ConstantsAssumption DEF Cloud!TypeOK
<1>1. CASE ServiceSteps
  <2>2. frames' \in Seq(Cloud!Frame) /\ DOMAIN frames \subseteq DOMAIN frames'
    BY <1>1, FramesGrow
  <2>3. queue \in Seq(DOMAIN frames')
    <3>1. queue \in Seq(DOMAIN frames)
      OBVIOUS
    <3> QED
      BY <2>2, <3>1
  <2>4. UNCHANGED <<loop, Cloud!session, status, abort, late, Cloud!output>> /\ server' \in Cloud!Status
    BY <1>1, ServiceStep
  <2>5. cancel' \in {"no", "sent", "accepted", "refused", "done"}
    BY <1>1, ServiceStep
  <2> QED
    BY <2>2, <2>3, <2>4, <2>5 DEF Cloud!session, Cloud!output
<1>2. CASE ReadSteps
  <2>1. Cloud!HasNext /\ UNCHANGED <<frames, server>> /\ next \in DOMAIN frames
    BY <1>2 DEF ReadSteps, Cloud!ReadFrame, Cloud!FrameRaises, Cloud!ReadResult,
       Cloud!HasNext, Cloud!service
  <2>2. queue' \in Seq(DOMAIN frames)
    BY <1>2, QueueGrows
  <2>3. lastId' \in Nat /\ next' \in Nat \ {0}
    BY <1>2, <2>1 DEF ReadSteps, Cloud!ReadFrame, Cloud!FrameRaises, Cloud!ReadResult,
       Cloud!IdAfter
  <2>4. skipped' \subseteq DOMAIN frames
    BY <1>2, <2>1 DEF ReadSteps, Cloud!ReadFrame, Cloud!FrameRaises, Cloud!ReadResult,
       Cloud!output
  <2>5. loop' \in Cloud!LoopAt /\ status' \in Cloud!Status
    BY <1>2 DEF ReadSteps, Cloud!ReadFrame, Cloud!FrameRaises, Cloud!ReadResult,
       Cloud!Dropped, Cloud!LoopAt, Cloud!Status
  <2>6. UNCHANGED <<openedWith, attempt, answer, abort, late, cancel>>
    BY <1>2 DEF ReadSteps, Cloud!ReadFrame, Cloud!FrameRaises, Cloud!ReadResult
  <2> QED
    BY <2>1, <2>2, <2>3, <2>4, <2>5, <2>6
<1>3. CASE OtherSteps
  <2> USE DEF Cloud!service, Cloud!session, Cloud!output, Cloud!LoopAt, Cloud!Status
  <2>1. CASE Cloud!Begin \/ Cloud!Opens
    BY <2>1 DEF Cloud!Begin, Cloud!Opens
  <2>7. CASE Cloud!DeadlinePasses
    <3>1. late' \in BOOLEAN
      BY <2>7, Zenon DEF Cloud!DeadlinePasses
    <3> QED
      BY <2>7, <3>1 DEF Cloud!DeadlinePasses
  <2>5. CASE Cloud!OpenFails \/ Cloud!OpenDenied \/ Cloud!OpenRejectsId
    BY <2>5 DEF Cloud!OpenFails, Cloud!OpenDenied, Cloud!OpenRejectsId, Cloud!Dropped,
       Cloud!Raises
  <2>2. CASE Cloud!ReadError \/ Cloud!ReadRejectsId \/ Cloud!Drops \/ Cloud!BackoffEnds \/ Cloud!WaitEnds
    BY <2>2 DEF Cloud!ReadError, Cloud!ReadRejectsId, Cloud!Drops, Cloud!BackoffEnds,
       Cloud!WaitEnds, Cloud!Dropped, Cloud!Raises
  <2>3. CASE Cloud!RunAnswers \/ Cloud!RefetchDenied
    BY <2>3 DEF Cloud!RunAnswers, Cloud!RefetchDenied
  <2>6. CASE Cloud!Refetched
    <3>1. loop' \in Cloud!LoopAt /\ attempt' \in 0 .. MaxAttempts
      BY <2>6 DEF Cloud!Refetched, Cloud!LoopGoesOn
    <3>2. status' \in Cloud!Status
      BY <2>6 DEF Cloud!Refetched, Cloud!AfterAnswer, Cloud!Settled
    <3> QED
      BY <2>6, <3>1, <3>2 DEF Cloud!Refetched
  <2>4. CASE Cloud!CancelSent \/ Cloud!CancelRaises
    BY <2>4 DEF Cloud!CancelSent, Cloud!CancelRaises
  <2>8. CASE Cloud!CancelReturns
    <3>1. abort' \in BOOLEAN
      BY <2>8, Zenon DEF Cloud!CancelReturns
    <3> QED
      BY <2>8, <3>1 DEF Cloud!CancelReturns
  <2> QED
    BY <1>3, <2>1, <2>2, <2>3, <2>4, <2>5, <2>6, <2>7, <2>8 DEF OtherSteps
<1>4. CASE UNCHANGED streamVars
  BY <1>4 DEF streamVars
<1> QED
  BY <1>1, <1>2, <1>3, <1>4, NextSplit

\* The variables keep their types (TypeOK).
THEOREM CloudTypeCorrect == Cloud!Spec => []Cloud!TypeOK
<1>1. Cloud!Init => Cloud!TypeOK
  <2>1. <<>> \in Seq(Cloud!Frame) /\ <<>> \in Seq(DOMAIN <<>>)
    BY EmptySeq
  <2>2. Cloud!Init => abort \in BOOLEAN /\ late \in BOOLEAN
    BY Zenon DEF Cloud!Init
  <2> QED
    BY <2>1, <2>2, ConstantsAssumption DEF Cloud!Init, Cloud!TypeOK, Cloud!Status, Cloud!LoopAt
<1> QED
  BY <1>1, TypeStep, PTL DEF Cloud!Spec, Cloud!streamVars, streamVars

\* Every action keeps StreamInv.
LEMMA StreamInvStep == Cloud!TypeOK /\ StreamInv /\ [Cloud!Next]_streamVars => StreamInv'
<1> SUFFICES ASSUME Cloud!TypeOK, StreamInv, [Cloud!Next]_streamVars
             PROVE StreamInv'
  OBVIOUS
<1> USE DEF Cloud!TypeOK, StreamInv, Handled
<1>1. CASE ServiceSteps
  <2>1. /\ Len(frames) <= Len(frames') /\ Len(frames) \in Nat /\ Len(frames') \in Nat
        /\ DOMAIN frames = 1 .. Len(frames) /\ DOMAIN frames' = 1 .. Len(frames')
        /\ \A k \in DOMAIN frames : frames'[k] = frames[k]
    BY <1>1, FramesGrow
  <2>2. UNCHANGED <<loop, next, lastId, queue, skipped>>
    BY <1>1, ServiceStep DEF Cloud!session, Cloud!output
  <2>3. ASSUME NEW k \in Nat, k <= Len(frames), Handled(k) PROVE HandledOf(frames', queue', skipped', k)
    BY <2>1, <2>2, <2>3 DEF HandledOf, Cloud!IsMessage
  <2>4. \A i \in DOMAIN queue : queue[i] \in Nat /\ queue[i] <= Len(frames)
    BY <2>1
  <2> QED
    BY <2>1, <2>2, <2>3, <2>4
<1>2. CASE ReadSteps
  <2>1. /\ loop = "reading" /\ next \in DOMAIN frames /\ next' \in {next, next + 1}
        /\ lastId' \in {lastId, next} /\ frames' = frames
    BY <1>2 DEF ReadSteps, Cloud!ReadFrame, Cloud!FrameRaises, Cloud!ReadResult,
       Cloud!HasNext, Cloud!IdAfter, Cloud!service
  <2>2. /\ DOMAIN frames = 1 .. Len(frames) /\ Len(frames) \in Nat
        /\ \A i \in DOMAIN queue : i \in DOMAIN queue' /\ queue'[i] = queue[i]
        /\ \A i \in DOMAIN queue' :
              queue'[i] = next \/ (i \in DOMAIN queue /\ queue'[i] = queue[i])
        /\ \A i \in DOMAIN queue : queue[i] \in Nat
    BY <1>2, QueueGrows, LenProperties
  <2>3. skipped \subseteq skipped'
    BY <1>2 DEF ReadSteps, Cloud!ReadFrame, Cloud!FrameRaises, Cloud!ReadResult, Cloud!output
  <2>4. ASSUME NEW k \in Nat, Handled(k) PROVE HandledOf(frames', queue', skipped', k)
    BY <2>1, <2>2, <2>3, <2>4 DEF HandledOf, Cloud!IsMessage
  <2>5. HandledOf(frames', queue', skipped', next)
    <3>1. ~Cloud!IsMessage(frames[next]) \/ next \in skipped' \/ \E i \in DOMAIN queue' : queue'[i] = next
      <4>1. CASE Cloud!ReadFrame /\ Cloud!IsMessage(frames[next])
        <5>1. queue' = Append(queue, next) /\ queue \in Seq(DOMAIN frames)
          BY <4>1 DEF Cloud!ReadFrame
        <5> HIDE DEF Cloud!TypeOK
        <5> QED
          BY <2>1, <5>1, Appended
      <4> QED
        BY <1>2, <4>1 DEF ReadSteps, Cloud!ReadFrame, Cloud!FrameRaises, Cloud!ReadResult,
           Cloud!IsMessage
    <3>2. HandledOf(frames', queue', skipped', next - 1)
      BY <2>1, <2>2, <2>4
    <3> QED
      BY <2>1, <2>2, <3>1, <3>2 DEF HandledOf, Cloud!IsMessage
  <2>6. loop' = "reading" => next' = next + 1
    BY <1>2 DEF ReadSteps, Cloud!ReadFrame, Cloud!FrameRaises, Cloud!ReadResult, Cloud!Dropped
  <2> QED
    BY <2>1, <2>2, <2>4, <2>5, <2>6
<1>3. CASE OtherSteps
  <2>1. UNCHANGED <<frames, queue, skipped>>
    BY <1>3 DEF OtherSteps, Cloud!Begin, Cloud!DeadlinePasses, Cloud!Opens,
       Cloud!OpenFails, Cloud!OpenDenied, Cloud!OpenRejectsId, Cloud!ReadError,
       Cloud!ReadRejectsId, Cloud!Drops, Cloud!RunAnswers, Cloud!Refetched,
       Cloud!RefetchDenied, Cloud!BackoffEnds, Cloud!WaitEnds, Cloud!CancelSent,
       Cloud!CancelReturns, Cloud!CancelRaises, Cloud!service, Cloud!output
  <2>2. lastId' = lastId \/ lastId' = 0
    BY <1>3 DEF OtherSteps, Cloud!Begin, Cloud!DeadlinePasses, Cloud!Opens,
       Cloud!OpenFails, Cloud!OpenDenied, Cloud!OpenRejectsId, Cloud!ReadError,
       Cloud!ReadRejectsId, Cloud!Drops, Cloud!RunAnswers, Cloud!Refetched,
       Cloud!RefetchDenied, Cloud!BackoffEnds, Cloud!WaitEnds, Cloud!CancelSent,
       Cloud!CancelReturns, Cloud!CancelRaises, Cloud!session
  <2>3. \/ next' = next /\ (loop' = "reading" => loop = "reading")
        \/ next' = lastId + 1 /\ lastId' = lastId
    BY <1>3 DEF OtherSteps, Cloud!Begin, Cloud!DeadlinePasses, Cloud!Opens,
       Cloud!OpenFails, Cloud!OpenDenied, Cloud!OpenRejectsId, Cloud!ReadError,
       Cloud!ReadRejectsId, Cloud!Drops, Cloud!RunAnswers, Cloud!Refetched,
       Cloud!RefetchDenied, Cloud!BackoffEnds, Cloud!WaitEnds, Cloud!CancelSent,
       Cloud!CancelReturns, Cloud!CancelRaises, Cloud!session, Cloud!Dropped, Cloud!Raises,
       Cloud!LoopGoesOn
  <2>4. \A k \in Nat : Handled(k) => HandledOf(frames', queue', skipped', k)
    BY <2>1
  <2>5. Handled(0)
    BY LenProperties DEF HandledOf
  <2> QED
    BY <2>1, <2>2, <2>3, <2>4, <2>5
<1>4. CASE UNCHANGED streamVars
  BY <1>4 DEF streamVars
<1> QED
  BY <1>1, <1>2, <1>3, <1>4, NextSplit

\* Reconnecting leaves no gap (NoGap).
THEOREM NoGapCorrect == Cloud!Spec => []Cloud!NoGap
<1>1. Cloud!Init => StreamInv
  BY DEF Cloud!Init, StreamInv, Handled, HandledOf
<1>2. Cloud!TypeOK /\ StreamInv => Cloud!NoGap
  BY DEF Cloud!TypeOK, StreamInv, Cloud!NoGap, Cloud!Reached, Handled, HandledOf
<1> QED
  BY <1>1, <1>2, StreamInvStep, CloudTypeCorrect, PTL DEF Cloud!Spec, Cloud!streamVars,
     streamVars

\* What the connection is going to send is behind the id.
IdInv == loop = "reading" => lastId < next

\* Every action keeps IdInv.
LEMMA IdInvStep == Cloud!TypeOK /\ IdInv /\ [Cloud!Next]_streamVars => IdInv'
<1> SUFFICES ASSUME Cloud!TypeOK, IdInv, [Cloud!Next]_streamVars
             PROVE IdInv'
  OBVIOUS
<1> USE DEF Cloud!TypeOK, IdInv
<1>1. CASE ServiceSteps
  BY <1>1, ServiceStep DEF Cloud!session
<1>2. CASE ReadSteps
  BY <1>2 DEF ReadSteps, Cloud!ReadFrame, Cloud!FrameRaises, Cloud!ReadResult,
     Cloud!HasNext, Cloud!IdAfter, Cloud!Dropped
<1>3. CASE OtherSteps
  BY <1>3 DEF OtherSteps, Cloud!Begin, Cloud!DeadlinePasses, Cloud!Opens, Cloud!OpenFails,
     Cloud!OpenDenied, Cloud!OpenRejectsId, Cloud!ReadError, Cloud!ReadRejectsId,
     Cloud!Drops, Cloud!RunAnswers, Cloud!Refetched, Cloud!RefetchDenied,
     Cloud!BackoffEnds, Cloud!WaitEnds, Cloud!CancelSent, Cloud!CancelReturns,
     Cloud!CancelRaises, Cloud!session, Cloud!Dropped, Cloud!Raises, Cloud!LoopGoesOn
<1>4. CASE UNCHANGED streamVars
  BY <1>4 DEF streamVars
<1> QED
  BY <1>1, <1>2, <1>3, <1>4, NextSplit

\* No message up to the id that was given to the service is queued again
\* (NoRepeatBehindId).
THEOREM NoRepeatCorrect == Cloud!Spec => Cloud!NoRepeatBehindId
<1>1. Cloud!Init => IdInv
  BY DEF Cloud!Init, IdInv
<1>2. ASSUME Cloud!TypeOK, IdInv, [Cloud!Next]_streamVars
      PROVE  [queue' # queue => queue'[Len(queue')] > lastId]_streamVars
  <2> USE DEF IdInv
  <2>1. CASE ServiceSteps
    BY <1>2, <2>1, ServiceStep DEF Cloud!output
  <2>2. CASE ReadSteps
    <3>1. queue' = queue \/ queue'[Len(queue')] = next
      BY <1>2, <2>2, QueueGrows
    <3>2. loop = "reading"
      BY <2>2 DEF ReadSteps, Cloud!ReadFrame, Cloud!FrameRaises, Cloud!ReadResult,
         Cloud!HasNext
    <3>3. next \in Nat /\ lastId \in Nat
      BY <1>2 DEF Cloud!TypeOK
    <3> QED
      BY <1>2, <3>1, <3>2, <3>3
  <2>3. CASE OtherSteps
    BY <2>3 DEF OtherSteps, Cloud!Begin, Cloud!DeadlinePasses, Cloud!Opens,
       Cloud!OpenFails, Cloud!OpenDenied, Cloud!OpenRejectsId, Cloud!ReadError,
       Cloud!ReadRejectsId, Cloud!Drops, Cloud!RunAnswers, Cloud!Refetched,
       Cloud!RefetchDenied, Cloud!BackoffEnds, Cloud!WaitEnds, Cloud!CancelSent,
       Cloud!CancelReturns, Cloud!CancelRaises, Cloud!output
  <2>4. CASE UNCHANGED streamVars
    BY <2>4 DEF streamVars
  <2> QED
    BY <1>2, <2>1, <2>2, <2>3, <2>4, NextSplit
<1> QED
  BY <1>1, <1>2, IdInvStep, CloudTypeCorrect, PTL DEF Cloud!Spec, Cloud!streamVars,
     streamVars, Cloud!NoRepeatBehindId, Cloud!RepeatsNothing

-----------------------------------------------------------------------------
(* The verdict *)

Live == {"opening", "reading", "refetch", "backoff", "waiting", "poll"}

\* What is said of the run on its way through the client is true, and the loop goes
\* on only while there is no verdict.
VerdictInv ==
  /\ Cloud!VerdictAgrees
  /\ answer \in {"none", "running", server}
  /\ cancel = "accepted" => server = "cancelled"
  /\ abort => status = "cancelled"
  /\ loop \in Live => status = "running" \/ abort
  /\ loop = "over" => status # "running"

\* A result is the last event, and there is one only when the run has ended.
ResultInv == server = "running" => \A k \in DOMAIN frames : frames[k] # "result"

\* Every action keeps ResultInv.
LEMMA ResultInvStep == Cloud!TypeOK /\ ResultInv /\ [Cloud!Next]_streamVars => ResultInv'
<1> SUFFICES ASSUME Cloud!TypeOK, ResultInv, [Cloud!Next]_streamVars
             PROVE ResultInv'
  OBVIOUS
<1> USE DEF Cloud!TypeOK, ResultInv
<1>1. CASE \E f \in Cloud!Frame \ {"result"} : Cloud!Report(f)
  <2>1. PICK f \in Cloud!Frame \ {"result"} : Cloud!Report(f)
    BY <1>1
  <2> QED
    BY <2>1 DEF Cloud!Report
<1>2. CASE Cloud!RunEnds
  BY <1>2 DEF Cloud!RunEnds, Cloud!Ends
<1>3. CASE Cloud!CancelArrives
  BY <1>3 DEF Cloud!CancelArrives, Cloud!Ends, Cloud!service
<1>4. CASE ReadSteps
  BY <1>4 DEF ReadSteps, Cloud!ReadFrame, Cloud!FrameRaises, Cloud!ReadResult, Cloud!service
<1>5. CASE OtherSteps
  BY <1>5 DEF OtherSteps, Cloud!Begin, Cloud!DeadlinePasses, Cloud!Opens, Cloud!OpenFails,
     Cloud!OpenDenied, Cloud!OpenRejectsId, Cloud!ReadError, Cloud!ReadRejectsId,
     Cloud!Drops, Cloud!RunAnswers, Cloud!Refetched, Cloud!RefetchDenied,
     Cloud!BackoffEnds, Cloud!WaitEnds, Cloud!CancelSent, Cloud!CancelReturns,
     Cloud!CancelRaises, Cloud!service
<1>6. CASE UNCHANGED streamVars
  BY <1>6 DEF streamVars
<1> QED
  BY <1>1, <1>2, <1>3, <1>4, <1>5, <1>6, NextSplit DEF ServiceSteps

\* Every action keeps VerdictInv, and none changes a verdict but a cancel an error.
LEMMA VerdictInvStep ==
  ASSUME Cloud!TypeOK, ResultInv, VerdictInv, [Cloud!Next]_streamVars
  PROVE  /\ VerdictInv'
         /\ status # "running" =>
              status' = status \/ (status = "error" /\ status' = "cancelled")
<1> USE DEF Cloud!TypeOK, VerdictInv, Cloud!VerdictAgrees, Live, Cloud!Status
<1>1. CASE ServiceSteps
  BY <1>1, ServiceStep DEF Cloud!session
<1>2. CASE ReadSteps
  <2>1. CASE Cloud!ReadFrame
    BY <2>1 DEF Cloud!ReadFrame, Cloud!HasNext, Cloud!service
  <2>2. CASE Cloud!FrameRaises
    BY <2>2 DEF Cloud!FrameRaises, Cloud!HasNext, Cloud!Dropped, Cloud!service
  <2>3. CASE Cloud!ReadResult
    <3>1. server # "running"
      BY <2>3 DEF Cloud!ReadResult, Cloud!HasNext, ResultInv
    <3> QED
      BY <2>3, <3>1 DEF Cloud!ReadResult, Cloud!HasNext, Cloud!service
  <2> QED
    BY <1>2, <2>1, <2>2, <2>3 DEF ReadSteps
<1>3. CASE OtherSteps
  <2> USE DEF Cloud!service, Cloud!session
  <2>1. CASE \/ Cloud!Begin \/ Cloud!DeadlinePasses
             \/ Cloud!Opens \/ Cloud!OpenFails \/ Cloud!OpenDenied \/ Cloud!OpenRejectsId
    BY <2>1 DEF Cloud!Begin, Cloud!DeadlinePasses, Cloud!Opens, Cloud!OpenFails,
       Cloud!OpenDenied, Cloud!OpenRejectsId, Cloud!Dropped, Cloud!Raises
  <2>2. CASE Cloud!ReadError \/ Cloud!ReadRejectsId \/ Cloud!Drops \/ Cloud!BackoffEnds \/ Cloud!WaitEnds
    BY <2>2 DEF Cloud!ReadError, Cloud!ReadRejectsId, Cloud!Drops, Cloud!BackoffEnds,
       Cloud!WaitEnds, Cloud!Dropped, Cloud!Raises
  <2>3. CASE Cloud!RunAnswers
    BY <2>3 DEF Cloud!RunAnswers, Cloud!Refetching
  <2>4. CASE Cloud!Refetched
    BY <2>4 DEF Cloud!Refetched, Cloud!Refetching, Cloud!LoopGoesOn, Cloud!AfterAnswer,
       Cloud!Settled
  <2>5. CASE Cloud!RefetchDenied
    BY <2>5 DEF Cloud!RefetchDenied, Cloud!Refetching
  <2>6. CASE Cloud!CancelSent \/ Cloud!CancelReturns \/ Cloud!CancelRaises
    BY <2>6 DEF Cloud!CancelSent, Cloud!CancelReturns, Cloud!CancelRaises
  <2> QED
    BY <1>3, <2>1, <2>2, <2>3, <2>4, <2>5, <2>6 DEF OtherSteps
<1>4. CASE UNCHANGED streamVars
  BY <1>4 DEF streamVars
<1> QED
  BY <1>1, <1>2, <1>3, <1>4, NextSplit

\* VerdictInv and what it rests on hold in every behaviour.
LEMMA VerdictInvHolds == Cloud!Spec => [](Cloud!TypeOK /\ ResultInv /\ VerdictInv)
<1>1. Cloud!Init => ResultInv /\ VerdictInv
  BY DEF Cloud!Init, ResultInv, VerdictInv, Cloud!VerdictAgrees, Live
<1> QED
  BY <1>1, ResultInvStep, VerdictInvStep, CloudTypeCorrect, PTL DEF Cloud!Spec,
     Cloud!streamVars, streamVars

\* The client and the service agree on how a run ended (VerdictAgrees).
THEOREM VerdictAgreesCorrect == Cloud!Spec => []Cloud!VerdictAgrees
<1>1. VerdictInv => Cloud!VerdictAgrees
  BY DEF VerdictInv
<1> QED
  BY <1>1, VerdictInvHolds, PTL

\* When the loop is over the run has a verdict (OverIsSettled).
THEOREM OverIsSettledCorrect == Cloud!Spec => []Cloud!OverIsSettled
<1>1. VerdictInv => Cloud!OverIsSettled
  BY DEF VerdictInv, Cloud!OverIsSettled
<1> QED
  BY <1>1, VerdictInvHolds, PTL

\* A run that has ended for the client stays so (StaysSettled).
THEOREM StaysSettledCorrect == Cloud!Spec => Cloud!StaysSettled
<1>1. ASSUME Cloud!TypeOK, ResultInv, VerdictInv, [Cloud!Next]_streamVars
      PROVE  [status # "running" =>
                status' = status \/ (status = "error" /\ status' = "cancelled")]_streamVars
  BY <1>1, VerdictInvStep
<1> QED
  BY <1>1, VerdictInvHolds, PTL DEF Cloud!Spec, Cloud!streamVars, streamVars,
     Cloud!StaysSettled, Cloud!KeepsVerdict

\* What the client has of the run, over any number of connections, is so
\* (StreamIsTrue).
THEOREM StreamIsTrueCorrect == Cloud!Spec => []StreamIsTrue
  BY NoGapCorrect, VerdictAgreesCorrect, PTL DEF StreamIsTrue, Cloud!StreamIsTrue

\* What the client was given is not given again, nor what it was told taken back
\* (NothingTwice).
THEOREM NothingTwiceCorrect == Cloud!Spec => NothingTwice
  BY NoRepeatCorrect, StaysSettledCorrect, PTL DEF NothingTwice, Cloud!NothingTwice,
     Cloud!NoRepeatBehindId, Cloud!StaysSettled

-----------------------------------------------------------------------------
(* Messages to agents in the cloud: which sends and runs belong together.  *)

SendState == [at : {"sent", "served", "given up", "failed", "returned"}, handle : Handle,
              message : Message, model : BOOLEAN, first : BOOLEAN, given : BOOLEAN,
              key : {NoKey} \cup {KeyOf[m] : m \in Message} \cup {OwnKey[h] : h \in Handle},
              path : {Sends!CreateAgent} \cup {Sends!CreateRun(AgentOf[h]) : h \in Handle},
              run : Nat]
RunState == [agent : {AgentOf[h] : h \in Handle}, message : Message, by : Nat]
HandleState == [created : BOOLEAN, replaced : BOOLEAN]

SendsTyped == /\ sends \in Seq(SendState) /\ runs \in Seq(RunState)
              /\ handle \in [Handle -> HandleState]
              /\ \A r \in DOMAIN runs : runs[r].by \in DOMAIN sends

\* What a send is told when it begins.
Asks(s) ==
  /\ s.path = IF s.first THEN Sends!CreateAgent ELSE Sends!CreateRun(AgentOf[s.handle])
  /\ IF s.given THEN s.key = KeyOf[s.message] /\ s.key # NoKey
     ELSE s.key \in {NoKey, OwnKey[s.handle]} /\ (s.first \/ s.key = NoKey)

Of(r) == sends[runs[r].by]

\* The run that answers a send was made for it, or for one with its key.
AnsweredBy(s, r) ==
  /\ sends[s].path = Of(r).path
  /\ runs[r].by = s \/ (sends[s].key = Of(r).key /\ sends[s].key # NoKey)

\* A send is answered with a run that was made for it, and what returned has one of
\* its agent.
SendSettled(s) ==
  /\ Asks(sends[s]) /\ sends[s].run \in {Sends!Error} \cup DOMAIN runs
  /\ \A r \in DOMAIN runs : sends[s].run = r => AnsweredBy(s, r)
  /\ ~sends[s].first => handle[sends[s].handle].created
  /\ sends[s].at = "returned" =>
       /\ sends[s].run # Sends!Error /\ handle[sends[s].handle].created
       /\ runs[sends[s].run].agent = AgentOf[sends[s].handle]

\* What a handle says is what a send of it that returned has told it.
MadeBy(s, h) == sends[s].at = "returned" /\ sends[s].first /\ sends[s].handle = h
NamedBy(s, h) == sends[s].at = "returned" /\ sends[s].model /\ sends[s].handle = h
HandleMade(h) ==
  /\ handle[h].created /\ h \notin Resumed => \E s \in DOMAIN sends : MadeBy(s, h)
  /\ handle[h].replaced => \E s \in DOMAIN sends : NamedBy(s, h)

\* A message is repeated by a handle that made its agent only if it is another one
\* than that did.
RepeatsOther(s) ==
  sends[s].given /\ ~sends[s].first /\ sends[s].handle \notin Resumed =>
    \E x \in DOMAIN sends : /\ MadeBy(x, sends[s].handle)
                            /\ sends[x].given => sends[x].message # sends[s].message

SendsSettle == /\ \A s \in DOMAIN sends : SendSettled(s) /\ RepeatsOther(s)
               /\ \A h \in Handle : HandleMade(h)

\* What the service has made, and what it remembers.
ServiceKnows ==
  /\ \A r \in DOMAIN runs :
       /\ runs[r].agent = AgentOf[Of(r).handle] /\ runs[r].message = Of(r).message
       /\ runs[r].agent \in agents
       /\ Of(r).first => \A q \in DOMAIN runs : q < r => runs[q].agent # runs[r].agent
       /\ Of(r).key # NoKey => [key |-> Of(r).key, path |-> Of(r).path, run |-> r] \in answered
  /\ \A a \in answered : /\ a.run \in DOMAIN runs /\ a.key # NoKey
                         /\ a.key = Of(a.run).key /\ a.path = Of(a.run).path
  /\ \A q, r \in DOMAIN runs :
       Of(q).key = Of(r).key /\ Of(q).key # NoKey /\ Of(q).path = Of(r).path => q = r

SendsInv == SendsTyped /\ SendsSettle /\ ServiceKnows

SameAsked(a, b) == /\ a.handle = b.handle /\ a.message = b.message /\ a.model = b.model
                   /\ a.first = b.first /\ a.given = b.given /\ a.key = b.key /\ a.path = b.path

LEMMA SendsAre ==
  ASSUME SendsTyped
  PROVE  /\ Len(sends) \in Nat /\ DOMAIN sends = 1 .. Len(sends)
         /\ Len(runs) \in Nat /\ DOMAIN runs = 1 .. Len(runs)
         /\ \A s \in DOMAIN sends : sends[s] \in SendState
         /\ \A r \in DOMAIN runs : runs[r] \in RunState /\ runs[r].by \in DOMAIN sends
BY LenProperties, ElementOfSeq DEF SendsTyped

LEMMA RunsAre ==
  ASSUME SendsTyped
  PROVE  \A r \in DOMAIN runs : r \in Nat /\ r # 0
<1>1. DOMAIN runs = 1 .. Len(runs) /\ Len(runs) \in Nat
  BY SendsAre
<1>2. \A n \in Nat : \A r \in 1 .. n : r \in Nat /\ r # 0
  OBVIOUS
<1> QED BY <1>1, <1>2

LEMMA InitSends == Sends!Init => SendsInv
<1> SUFFICES ASSUME Sends!Init PROVE SendsInv
  OBVIOUS
<1>1. /\ sends = <<>> /\ runs = <<>> /\ answered = {}
      /\ handle = [h \in Handle |-> [created |-> h \in Resumed, replaced |-> FALSE]]
  BY DEF Sends!Init
<1>2. DOMAIN sends = {} /\ DOMAIN runs = {} /\ sends \in Seq(SendState) /\ runs \in Seq(RunState)
  BY <1>1, EmptySeq
<1>3. SendsTyped
  BY <1>1, <1>2 DEF SendsTyped, HandleState
<1>4. SendsSettle /\ ServiceKnows
  BY <1>1, <1>2 DEF SendsSettle, HandleMade, ServiceKnows
<1> QED BY <1>3, <1>4 DEF SendsInv

\* A send moves, and what it asked stays.
LEMMA MovesIs ==
  ASSUME SendsTyped, NEW s \in DOMAIN sends, NEW run \in Nat,
         NEW to \in {"sent", "served", "given up", "failed", "returned"}, Sends!Moves(s, to, run)
  PROVE  /\ sends' \in Seq(SendState) /\ DOMAIN sends' = DOMAIN sends
         /\ sends'[s].at = to /\ sends'[s].run = run
         /\ \A x \in DOMAIN sends : x # s => sends'[x] = sends[x]
         /\ \A x \in DOMAIN sends : SameAsked(sends'[x], sends[x])
<1> DEFINE e == [sends[s] EXCEPT !.at = to, !.run = run]
<1>1. sends \in Seq(SendState) /\ sends[s] \in SendState
  BY SendsAre DEF SendsTyped
<1>2. sends' = [sends EXCEPT ![s] = e]
  BY <1>1 DEF Sends!Moves
<1>3. e \in SendState /\ SameAsked(e, sends[s]) /\ e.at = to /\ e.run = run
  BY <1>1 DEF SendState, SameAsked
<1> HIDE DEF e
<1>4. /\ sends' \in Seq(SendState) /\ sends'[s] = e
      /\ \A x \in DOMAIN sends : x # s => sends'[x] = sends[x]
  <2>1. s \in 1 .. Len(sends) /\ DOMAIN sends = 1 .. Len(sends)
    BY SendsAre
  <2>2. [sends EXCEPT ![s] = e] \in Seq(SendState)
    BY <1>1, <1>3, <2>1, ExceptSeq
  <2> QED BY <1>2, <2>2
<1>5. DOMAIN sends' = DOMAIN sends
  BY <1>2
<1>6. \A x \in DOMAIN sends : SameAsked(sends'[x], sends[x])
  BY <1>3, <1>4 DEF SameAsked
<1> QED BY <1>3, <1>4, <1>5, <1>6

\* What the service knows rests on what the sends asked.
LEMMA ServiceKeeps ==
  ASSUME SendsInv, DOMAIN sends \subseteq DOMAIN sends',
         \A x \in DOMAIN sends : SameAsked(sends'[x], sends[x]),
         UNCHANGED <<agents, runs, answered>>
  PROVE  /\ ServiceKnows'
         /\ \A s \in DOMAIN sends, r \in DOMAIN runs : AnsweredBy(s, r) => AnsweredBy(s, r)'
<1>1. \A r \in DOMAIN runs : SameAsked(Of(r)', Of(r)) /\ runs[r].by \in DOMAIN sends
  BY SendsAre DEF SendsInv, Of
<1>2. \A r \in DOMAIN runs : /\ Of(r)'.handle = Of(r).handle /\ Of(r)'.message = Of(r).message
                             /\ Of(r)'.first = Of(r).first /\ Of(r)'.key = Of(r).key
                             /\ Of(r)'.path = Of(r).path
  BY <1>1 DEF SameAsked
<1>3. ServiceKnows'
  <2>1. \A r \in DOMAIN runs :
          /\ runs[r].agent = AgentOf[Of(r)'.handle] /\ runs[r].message = Of(r)'.message
          /\ runs[r].agent \in agents
          /\ Of(r)'.first => \A q \in DOMAIN runs : q < r => runs[q].agent # runs[r].agent
          /\ Of(r)'.key # NoKey => [key |-> Of(r)'.key, path |-> Of(r)'.path, run |-> r] \in answered
    BY <1>2 DEF SendsInv, ServiceKnows
  <2>2. \A a \in answered : /\ a.run \in DOMAIN runs /\ a.key # NoKey
                            /\ a.key = Of(a.run)'.key /\ a.path = Of(a.run)'.path
    BY <1>2 DEF SendsInv, ServiceKnows
  <2>3. \A q, r \in DOMAIN runs :
          Of(q)'.key = Of(r)'.key /\ Of(q)'.key # NoKey /\ Of(q)'.path = Of(r)'.path => q = r
    BY <1>2 DEF SendsInv, ServiceKnows
  <2> QED BY <2>1, <2>2, <2>3 DEF ServiceKnows, Of
<1>4. ASSUME NEW s \in DOMAIN sends, NEW r \in DOMAIN runs, AnsweredBy(s, r)
      PROVE  AnsweredBy(s, r)'
  BY <1>2, <1>4 DEF AnsweredBy, SameAsked, Of
<1> QED BY <1>3, <1>4

LEMMA AsksSame ==
  ASSUME NEW a, NEW b, SameAsked(a, b), Asks(b)
  PROVE  Asks(a)
BY DEF SameAsked, Asks

\* Who has returned stays there, so what a repeated message is other than stays, too.
LEMMA RepeatsStay ==
  ASSUME SendsTyped, NEW s \in DOMAIN sends, RepeatsOther(s), DOMAIN sends \subseteq DOMAIN sends',
         \A x \in DOMAIN sends : SameAsked(sends'[x], sends[x]),
         \A x \in DOMAIN sends, h \in Handle : MadeBy(x, h) => MadeBy(x, h)'
  PROVE  RepeatsOther(s)'
<1> SUFFICES ASSUME sends'[s].given, ~sends'[s].first, sends'[s].handle \notin Resumed
             PROVE  \E x \in DOMAIN sends' : /\ MadeBy(x, sends[s].handle)'
                                             /\ sends'[x].given => sends'[x].message # sends'[s].message
  BY DEF RepeatsOther
<1>1. sends'[s].handle = sends[s].handle /\ sends[s].handle \in Handle
  BY SendsAre DEF SameAsked, SendState
<1>2. PICK x \in DOMAIN sends : /\ MadeBy(x, sends[s].handle)
                                /\ sends[x].given => sends[x].message # sends[s].message
  BY DEF RepeatsOther, SameAsked
<1>3. sends'[x].given => sends'[x].message # sends'[s].message
  BY <1>2 DEF SameAsked
<1> DEFINE h == sends[s].handle
<1>4. MadeBy(x, h)'
  BY <1>1, <1>2
<1> QED BY <1>3, <1>4

\* A send that has not returned moves, with an answer or without.
LEMMA SendStays ==
  ASSUME SendsInv, NEW s \in DOMAIN sends, NEW run \in Nat, NEW to \in {"served", "given up", "failed"},
         Sends!Moves(s, to, run), sends[s].at # "returned",
         run # Sends!Error => run \in DOMAIN runs /\ AnsweredBy(s, run),
         UNCHANGED <<handle, agents, runs, answered>>
  PROVE  SendsInv'
<1>1. /\ sends' \in Seq(SendState) /\ DOMAIN sends' = DOMAIN sends
      /\ sends'[s].at = to /\ sends'[s].run = run
      /\ \A x \in DOMAIN sends : x # s => sends'[x] = sends[x]
      /\ \A x \in DOMAIN sends : SameAsked(sends'[x], sends[x])
  BY MovesIs DEF SendsInv
<1>2. /\ ServiceKnows'
      /\ \A x \in DOMAIN sends, r \in DOMAIN runs : AnsweredBy(x, r) => AnsweredBy(x, r)'
  BY <1>1, ServiceKeeps
<1>3. SendsTyped'
  BY <1>1 DEF SendsInv, SendsTyped
<1>4. \A x \in DOMAIN sends :
        /\ sends[x].at = "returned" => sends'[x] = sends[x]
        /\ sends'[x].at = "returned" => sends'[x] = sends[x]
  <2> SUFFICES ASSUME NEW x \in DOMAIN sends, sends[x].at = "returned" \/ sends'[x].at = "returned"
               PROVE  sends'[x] = sends[x]
    OBVIOUS
  <2>1. sends'[s].at # "returned" /\ sends[s].at # "returned"
    BY <1>1
  <2>2. x # s
    BY <2>1
  <2> QED BY <1>1, <2>2
<1>5. \A r \in DOMAIN runs : r # Sends!Error
  BY RunsAre DEF SendsInv, Sends!Error
<1>6. ASSUME NEW x \in DOMAIN sends
      PROVE  SendSettled(x)'
  <2>1. SendSettled(x)
    BY DEF SendsInv, SendsSettle
  <2>2. Asks(sends'[x])
    BY <1>1, <2>1, AsksSame DEF SendSettled
  <2>3. CASE x = s
    <3>1. \A r \in DOMAIN runs : run = r => AnsweredBy(x, r)'
      BY <1>2, <1>5, <2>3
    <3>2. ~sends'[x].first => handle'[sends'[x].handle].created
      BY <1>1, <2>1 DEF SendSettled, SameAsked
    <3> QED BY <1>1, <2>2, <2>3, <3>1, <3>2 DEF SendSettled
  <2>4. CASE x # s
    <3>1. sends'[x] = sends[x]
      BY <1>1, <2>4
    <3> QED BY <1>2, <2>1, <2>2, <3>1 DEF SendSettled
  <2> QED BY <2>3, <2>4
<1>7. \A x \in DOMAIN sends, h \in Handle : /\ MadeBy(x, h) => MadeBy(x, h)'
                                            /\ NamedBy(x, h) => NamedBy(x, h)'
  BY <1>4 DEF MadeBy, NamedBy
<1>8. ASSUME NEW x \in DOMAIN sends
      PROVE  RepeatsOther(x)'
  BY <1>1, <1>7, RepeatsStay DEF SendsInv, SendsSettle
<1>9. \A h \in Handle : HandleMade(h)'
  BY <1>1, <1>7 DEF SendsInv, SendsSettle, HandleMade
<1> QED BY <1>1, <1>2, <1>3, <1>6, <1>8, <1>9 DEF SendsInv, SendsSettle

\* A message is sent.
LEMMA SendBegins ==
  ASSUME SendsInv, NEW h \in Handle, NEW m \in Message, NEW key \in {NoKey, KeyOf[m]},
         Sends!Send(h, m, key, key = NoKey)
  PROVE  SendsInv'
<1> DEFINE e == [at |-> "sent", handle |-> h, message |-> m, model |-> key = NoKey,
                 first |-> ~handle[h].created, given |-> key # NoKey,
                 key |-> Sends!Idempotency(h, handle[h].created, key),
                 path |-> IF handle[h].created THEN Sends!CreateRun(AgentOf[h]) ELSE Sends!CreateAgent,
                 run |-> Sends!Error]
<1> DEFINE n == Len(sends)
<1>1. /\ SendsTyped /\ sends \in Seq(SendState) /\ n \in Nat /\ DOMAIN sends = 1 .. n
      /\ \A s \in DOMAIN sends : SendSettled(s) /\ RepeatsOther(s)
      /\ handle[h] \in HandleState /\ HandleMade(h)
  BY SendsAre DEF SendsInv, SendsTyped, SendsSettle
<1>2. sends' = Append(sends, e) /\ UNCHANGED <<handle, agents, runs, answered>>
  BY DEF Sends!Send
<1>3. e \in SendState /\ Asks(e)
  <2>1. /\ e.key \in {NoKey} \cup {KeyOf[x] : x \in Message} \cup {OwnKey[x] : x \in Handle}
        /\ e.path \in {Sends!CreateAgent} \cup {Sends!CreateRun(AgentOf[x]) : x \in Handle}
        /\ e.model \in BOOLEAN /\ e.first \in BOOLEAN /\ e.given \in BOOLEAN /\ e.run \in Nat
    BY DEF Sends!Idempotency, Sends!Error
  <2>2. e \in SendState
    BY <2>1 DEF SendState
  <2>3. Asks(e)
    BY <1>1 DEF Asks, Sends!Idempotency, HandleState
  <2> QED BY <2>2, <2>3
<1>4. /\ e.at = "sent" /\ e.run = Sends!Error /\ e.message = m /\ e.handle = h
      /\ e.given = (key # NoKey) /\ (~e.first => handle[h].created)
  OBVIOUS
<1> HIDE DEF e
<1>0. PICK i \in Nat : i = n + 1
  BY <1>1
<1>5. /\ sends' \in Seq(SendState) /\ DOMAIN sends' = 1 .. i /\ sends'[i] = e
      /\ \A x \in DOMAIN sends : sends'[x] = sends[x]
  <2>1. sends' \in Seq(SendState) /\ Len(sends') = n + 1
    BY <1>1, <1>2, <1>3, AppendProperties
  <2>2. DOMAIN sends' = 1 .. i
    BY <1>0, <2>1, LenProperties
  <2>3. \A x \in 1 .. n : sends'[x] = sends[x]
    BY <1>1, <1>2, <1>3, AppendProperties
  <2>4. sends'[i] = e
    BY <1>0, <1>1, <1>2, <1>3, AppendProperties
  <2> QED BY <1>1, <2>1, <2>2, <2>3, <2>4
<1>6. /\ DOMAIN sends \subseteq DOMAIN sends' /\ DOMAIN sends' = DOMAIN sends \cup {i}
      /\ \A x \in DOMAIN sends : SameAsked(sends'[x], sends[x])
  BY <1>0, <1>1, <1>5 DEF SameAsked
<1>7. /\ ServiceKnows'
      /\ \A x \in DOMAIN sends, r \in DOMAIN runs : AnsweredBy(x, r) => AnsweredBy(x, r)'
  BY <1>2, <1>6, ServiceKeeps
<1>8. SendsTyped'
  BY <1>1, <1>2, <1>5, <1>6 DEF SendsTyped
<1>9. \A x \in DOMAIN sends, k \in Handle : /\ MadeBy(x, k) => MadeBy(x, k)'
                                            /\ NamedBy(x, k) => NamedBy(x, k)'
  BY <1>5 DEF MadeBy, NamedBy
<1>10. ASSUME NEW x \in DOMAIN sends
       PROVE  SendSettled(x)' /\ RepeatsOther(x)'
  <2>1. sends'[x] = sends[x] /\ SendSettled(x)
    BY <1>1, <1>5
  <2>2. SendSettled(x)'
    BY <1>2, <1>7, <2>1 DEF SendSettled
  <2>3. RepeatsOther(x)'
    BY <1>1, <1>6, <1>9, RepeatsStay
  <2> QED BY <2>2, <2>3
<1>11. SendSettled(i)'
  <2>1. \A r \in DOMAIN runs : r # Sends!Error
    BY <1>1, RunsAre DEF Sends!Error
  <2> QED BY <1>2, <1>3, <1>4, <1>5, <1>6, <2>1 DEF SendSettled
<1>12. RepeatsOther(i)'
  <2> SUFFICES ASSUME e.given, ~e.first, h \notin Resumed
               PROVE  \E x \in DOMAIN sends' : /\ MadeBy(x, h)'
                                               /\ sends'[x].given => sends'[x].message # m
    BY <1>4, <1>5 DEF RepeatsOther
  <2>1. PICK x \in DOMAIN sends : MadeBy(x, h)
    BY <1>1, <1>4 DEF HandleMade
  <2>2. \A s \in DOMAIN sends : sends[s].given /\ sends[s].message = m => sends[s].at \in {"given up", "failed"}
    BY <1>4 DEF Sends!Send, Sends!MayRepeat
  <2>3. sends[x].given => sends[x].message # m
    BY <2>1, <2>2 DEF MadeBy
  <2> QED BY <1>5, <1>6, <1>9, <2>1, <2>3
<1>13. \A k \in Handle : HandleMade(k)'
  <2> SUFFICES ASSUME NEW k \in Handle PROVE HandleMade(k)'
    OBVIOUS
  <2>1. HandleMade(k) /\ handle'[k] = handle[k]
    BY <1>2 DEF SendsInv, SendsSettle
  <2>2. handle[k].created /\ k \notin Resumed => \E s \in DOMAIN sends' : MadeBy(s, k)'
    BY <1>6, <1>9, <2>1 DEF HandleMade
  <2>3. handle[k].replaced => \E s \in DOMAIN sends' : NamedBy(s, k)'
    BY <1>6, <1>9, <2>1 DEF HandleMade
  <2> QED BY <2>1, <2>2, <2>3 DEF HandleMade
<1>14. SendsSettle'
  BY <1>6, <1>10, <1>11, <1>12, <1>13 DEF SendsSettle
<1> QED BY <1>7, <1>8, <1>14 DEF SendsInv

\* What the service takes moves to where its answer, or nobody, is waited for.
LEMMA ServedMoves ==
  ASSUME NEW s, NEW run \in Nat, Sends!Served(s, run)
  PROVE  \E to \in {"served", "failed"}, told \in {run, Sends!Error} : Sends!Moves(s, to, told)
BY DEF Sends!Served

\* A send is answered as one with its key was, or with an error.
LEMMA ServesOld ==
  ASSUME SendsInv, NEW s \in DOMAIN sends, sends[s].at # "returned",
         Sends!Again(s) \/ Sends!Refuse(s), UNCHANGED handle
  PROVE  SendsInv'
<1>1. PICK run \in Nat : /\ Sends!Served(s, run)
                         /\ run # Sends!Error => run \in DOMAIN runs /\ AnsweredBy(s, run)
  <2>1. CASE Sends!Again(s)
    <3>1. PICK a \in Sends!Known(s) : Sends!Served(s, a.run)
      BY <2>1 DEF Sends!Again
    <3>2. a \in answered /\ a.key = sends[s].key /\ a.path = sends[s].path
      BY <3>1 DEF Sends!Known
    <3>3. a.run \in DOMAIN runs /\ AnsweredBy(s, a.run)
      BY <3>2 DEF SendsInv, ServiceKnows, AnsweredBy
    <3>4. a.run \in Nat
      BY <3>3, RunsAre DEF SendsInv
    <3> QED BY <3>1, <3>3, <3>4
  <2>2. CASE Sends!Refuse(s)
    BY <2>2 DEF Sends!Refuse, Sends!Error
  <2> QED BY <2>1, <2>2
<1>2. PICK to \in {"served", "failed"}, told \in {run, Sends!Error} : Sends!Moves(s, to, told)
  BY <1>1, ServedMoves
<1>3. told \in Nat /\ (told # Sends!Error => told \in DOMAIN runs /\ AnsweredBy(s, told))
  BY <1>1, <1>2 DEF Sends!Error
<1>4. UNCHANGED <<handle, agents, runs, answered>>
  BY DEF Sends!Again, Sends!Refuse
<1> QED BY <1>2, <1>3, <1>4, SendStays

\* A run is made, for a send that has the first request of its key.
LEMMA ServesNew ==
  ASSUME SendsInv, NEW s \in DOMAIN sends, sends[s].at # "returned", Sends!New(s), UNCHANGED handle
  PROVE  SendsInv'
<1> DEFINE agent == AgentOf[sends[s].handle]
<1> DEFINE run == [agent |-> agent, message |-> sends[s].message, by |-> s]
<1> DEFINE Told(n) == [key |-> sends[s].key, path |-> sends[s].path, run |-> n]
<1>1. /\ SendsTyped /\ sends[s] \in SendState /\ s \in Nat /\ runs \in Seq(RunState)
      /\ DOMAIN runs = 1 .. Len(runs) /\ Len(runs) \in Nat
  BY SendsAre DEF SendsInv, SendsTyped
<1>2. PICK n \in Nat : n = Len(runs) + 1
  BY <1>1
<1>3. /\ Sends!Known(s) = {} /\ (sends[s].first <=> agent \notin agents)
      /\ agents' = agents \cup {agent} /\ runs' = Append(runs, run)
      /\ answered' = IF sends[s].key = NoKey THEN answered ELSE answered \cup {Told(Len(runs'))}
      /\ Sends!Served(s, Len(runs'))
  BY DEF Sends!New
<1>4. run \in RunState /\ run.agent = agent /\ run.message = sends[s].message /\ run.by = s
  BY <1>1 DEF RunState, SendState
<1> HIDE DEF run
<1>5. /\ runs' \in Seq(RunState) /\ Len(runs') = n /\ DOMAIN runs' = 1 .. n /\ runs'[n] = run
      /\ \A r \in DOMAIN runs : runs'[r] = runs[r]
  <2>1. runs' \in Seq(RunState) /\ Len(runs') = n
    BY <1>1, <1>2, <1>3, <1>4, AppendProperties
  <2>2. DOMAIN runs' = 1 .. n
    BY <2>1, LenProperties
  <2>3. \A r \in 1 .. Len(runs) : runs'[r] = runs[r]
    BY <1>1, <1>3, <1>4, AppendProperties
  <2>4. runs'[n] = run
    BY <1>1, <1>2, <1>3, <1>4, AppendProperties
  <2> QED BY <1>1, <2>1, <2>2, <2>3, <2>4
<1>6. /\ DOMAIN runs' = DOMAIN runs \cup {n} /\ n \notin DOMAIN runs /\ n # Sends!Error
      /\ \A r \in DOMAIN runs : r < n /\ ~ n < r
  BY <1>1, <1>2, <1>5 DEF Sends!Error
<1>7. PICK to \in {"served", "failed"}, told \in {n, Sends!Error} : Sends!Moves(s, to, told)
  BY <1>3, <1>5, ServedMoves
<1>8. /\ sends' \in Seq(SendState) /\ DOMAIN sends' = DOMAIN sends
      /\ sends'[s].at = to /\ sends'[s].run = told
      /\ \A x \in DOMAIN sends : x # s => sends'[x] = sends[x]
      /\ \A x \in DOMAIN sends : SameAsked(sends'[x], sends[x])
  <2>1. told \in Nat
    BY DEF Sends!Error
  <2> QED BY <1>1, <1>7, <2>1, MovesIs
<1>9. SendsTyped'
  BY <1>1, <1>4, <1>5, <1>6, <1>8, SendsAre DEF SendsTyped
<1> DEFINE OfNext(r) == sends'[runs'[r].by]
<1>10. \A r \in DOMAIN runs' : SameAsked(OfNext(r), IF r = n THEN sends[s] ELSE Of(r))
  <2>1. \A r \in DOMAIN runs : runs'[r].by = runs[r].by /\ runs[r].by \in DOMAIN sends
    BY <1>1, <1>5, SendsAre
  <2> QED BY <1>4, <1>5, <1>6, <1>8, <2>1 DEF Of
<1> HIDE DEF OfNext
<1>11. /\ \A r \in DOMAIN runs : /\ OfNext(r).handle = Of(r).handle /\ OfNext(r).message = Of(r).message
                                 /\ OfNext(r).first = Of(r).first /\ OfNext(r).key = Of(r).key
                                 /\ OfNext(r).path = Of(r).path
       /\ OfNext(n).handle = sends[s].handle /\ OfNext(n).message = sends[s].message
       /\ OfNext(n).first = sends[s].first /\ OfNext(n).key = sends[s].key
       /\ OfNext(n).path = sends[s].path
  BY <1>6, <1>10 DEF SameAsked
<1>12. ServiceKnows'
  <2>01. \A r \in DOMAIN runs : /\ runs[r].agent = AgentOf[Of(r).handle]
                                /\ runs[r].message = Of(r).message /\ runs[r].agent \in agents
    BY DEF SendsInv, ServiceKnows
  <2>02. \A r \in DOMAIN runs : Of(r).first => \A q \in DOMAIN runs : q < r => runs[q].agent # runs[r].agent
    BY DEF SendsInv, ServiceKnows
  <2>1. ASSUME NEW r \in DOMAIN runs'
        PROVE  /\ runs'[r].agent = AgentOf[OfNext(r).handle] /\ runs'[r].message = OfNext(r).message
               /\ runs'[r].agent \in agents'
    <3>1. CASE r = n
      BY <1>3, <1>4, <1>5, <1>11, <3>1
    <3>2. CASE r \in DOMAIN runs
      BY <1>3, <1>5, <1>11, <2>01, <3>2
    <3> QED BY <1>6, <3>1, <3>2
  <2>2. ASSUME NEW r \in DOMAIN runs', OfNext(r).first, NEW q \in DOMAIN runs', q < r
        PROVE  runs'[q].agent # runs'[r].agent
    <3>1. q \in DOMAIN runs /\ runs[q].agent \in agents /\ runs'[q] = runs[q]
      <4>1. r \in 1 .. n /\ q \in 1 .. n
        BY <1>5
      <4>2. q \in 1 .. Len(runs)
        BY <1>1, <1>2, <2>2, <4>1
      <4> QED BY <1>1, <1>5, <2>01, <4>2
    <3>2. CASE r = n
      BY <1>3, <1>4, <1>5, <1>11, <2>2, <3>1, <3>2
    <3>3. CASE r \in DOMAIN runs
      BY <1>5, <1>11, <2>02, <2>2, <3>1, <3>3
    <3> QED BY <1>6, <3>2, <3>3
  <2>3. ASSUME NEW r \in DOMAIN runs', OfNext(r).key # NoKey
        PROVE  [key |-> OfNext(r).key, path |-> OfNext(r).path, run |-> r] \in answered'
    <3>1. CASE r = n
      BY <1>3, <1>5, <1>11, <2>3, <3>1
    <3>2. CASE r \in DOMAIN runs
      BY <1>3, <1>11, <2>3, <3>2 DEF SendsInv, ServiceKnows
    <3> QED BY <1>6, <3>1, <3>2
  <2>4. ASSUME NEW a \in answered'
        PROVE  /\ a.run \in DOMAIN runs' /\ a.key # NoKey
               /\ a.key = OfNext(a.run).key /\ a.path = OfNext(a.run).path
    <3>1. CASE a \in answered
      BY <1>6, <1>11, <3>1 DEF SendsInv, ServiceKnows
    <3>2. CASE sends[s].key # NoKey /\ a = Told(n)
      BY <1>6, <1>11, <3>2
    <3> QED BY <1>3, <1>5, <2>4, <3>1, <3>2
  <2>5. ASSUME NEW q \in DOMAIN runs, Of(q).key = sends[s].key, sends[s].key # NoKey,
               Of(q).path = sends[s].path
        PROVE  FALSE
    <3>1. [key |-> Of(q).key, path |-> Of(q).path, run |-> q] \in answered
      BY <2>5 DEF SendsInv, ServiceKnows
    <3> QED BY <1>3, <2>5, <3>1 DEF Sends!Known
  <2>6. ASSUME NEW q \in DOMAIN runs', NEW r \in DOMAIN runs',
               OfNext(q).key = OfNext(r).key, OfNext(q).key # NoKey, OfNext(q).path = OfNext(r).path
        PROVE  q = r
    <3>1. CASE q = n /\ r \in DOMAIN runs
      BY <1>11, <2>5, <2>6, <3>1
    <3>2. CASE r = n /\ q \in DOMAIN runs
      BY <1>11, <2>5, <2>6, <3>2
    <3>3. CASE q \in DOMAIN runs /\ r \in DOMAIN runs
      BY <1>11, <2>6, <3>3 DEF SendsInv, ServiceKnows
    <3> QED BY <1>6, <3>1, <3>2, <3>3
  <2> QED BY <2>1, <2>2, <2>3, <2>4, <2>6 DEF ServiceKnows, Of, OfNext
<1> DEFINE Answers(x, r) ==
             /\ sends'[x].path = OfNext(r).path
             /\ runs'[r].by = x \/ (sends'[x].key = OfNext(r).key /\ sends'[x].key # NoKey)
<1>13. \A x \in DOMAIN sends, r \in DOMAIN runs : AnsweredBy(x, r) => Answers(x, r)
  BY <1>5, <1>8, <1>11 DEF AnsweredBy, SameAsked
<1>14. Answers(s, n)
  BY <1>4, <1>5, <1>8, <1>11 DEF SameAsked
<1> HIDE DEF Answers
<1>15. \A x \in DOMAIN sends, h \in Handle : /\ MadeBy(x, h) => MadeBy(x, h)'
                                             /\ NamedBy(x, h) => NamedBy(x, h)'
  <2>1. \A x \in DOMAIN sends : sends[x].at = "returned" => sends'[x] = sends[x]
    BY <1>8
  <2> QED BY <2>1 DEF MadeBy, NamedBy
<1>16. ASSUME NEW x \in DOMAIN sends
       PROVE  SendSettled(x)' /\ RepeatsOther(x)'
  <2>1. SendSettled(x) /\ RepeatsOther(x)
    BY DEF SendsInv, SendsSettle
  <2>2. Asks(sends'[x])
    BY <1>8, <2>1, AsksSame DEF SendSettled
  <2>3. ASSUME x = s PROVE SendSettled(x)'
    <3>1. sends'[s].run \in {Sends!Error} \cup DOMAIN runs'
      BY <1>6, <1>8
    <3>2. \A r \in DOMAIN runs' : sends'[x].run = r => Answers(x, r)
      <4>1. \A r \in DOMAIN runs' : r # Sends!Error
        BY <1>6, RunsAre, <1>1 DEF Sends!Error
      <4> QED BY <1>6, <1>8, <1>14, <2>3, <4>1
    <3>3. ~sends'[s].first => handle'[sends'[s].handle].created
      BY <1>8, <2>1, <2>3 DEF SendSettled, SameAsked
    <3>4. sends'[s].at # "returned"
      BY <1>8
    <3> QED BY <2>2, <2>3, <3>1, <3>2, <3>3, <3>4 DEF SendSettled, AnsweredBy, Answers, Of, OfNext
  <2>4. ASSUME x # s PROVE SendSettled(x)'
    <3>1. sends'[x] = sends[x] /\ sends[x].run \in {Sends!Error} \cup DOMAIN runs
      BY <1>8, <2>1, <2>4 DEF SendSettled
    <3>2. \A r \in DOMAIN runs' : sends[x].run = r => Answers(x, r)
      BY <1>6, <1>13, <2>1, <3>1 DEF SendSettled
    <3>3. sends[x].run # Sends!Error => runs'[sends[x].run] = runs[sends[x].run]
      BY <1>5, <3>1
    <3> QED BY <1>6, <2>1, <2>2, <3>1, <3>2, <3>3 DEF SendSettled, AnsweredBy, Answers, Of, OfNext
  <2>5. RepeatsOther(x)'
    BY <1>1, <1>8, <1>15, <2>1, RepeatsStay
  <2> QED BY <2>3, <2>4, <2>5
<1>17. \A h \in Handle : HandleMade(h)'
  BY <1>8, <1>15 DEF SendsInv, SendsSettle, HandleMade
<1>18. SendsSettle'
  BY <1>8, <1>16, <1>17 DEF SendsSettle
<1> QED BY <1>9, <1>12, <1>18 DEF SendsInv

LEMMA PathsDiffer ==
  \A a, b : /\ Sends!CreateAgent # Sends!CreateRun(a)
            /\ Sends!CreateRun(a) = Sends!CreateRun(b) => a = b
<1> SUFFICES ASSUME NEW a, NEW b
             PROVE  /\ Sends!CreateAgent # Sends!CreateRun(a)
                    /\ Sends!CreateRun(a) = Sends!CreateRun(b) => a = b
  OBVIOUS
<1>1. Sends!CreateAgent.path = "agents" /\ Sends!CreateRun(a).path = "runs"
  BY DEF Sends!CreateAgent, Sends!CreateRun
<1>2. Sends!CreateRun(a).of = a /\ Sends!CreateRun(b).of = b
  BY DEF Sends!CreateRun
<1> QED BY <1>1, <1>2

\* The requests of two sends have the same path only if both make an agent, or both
\* make a run of the same one.
LEMMA SamePath ==
  ASSUME NEW a, NEW b, Asks(a), Asks(b), a.path = b.path, a.first \in BOOLEAN, b.first \in BOOLEAN
  PROVE  /\ a.first = b.first
         /\ ~a.first => AgentOf[a.handle] = AgentOf[b.handle]
<1>1. /\ a.path = IF a.first THEN Sends!CreateAgent ELSE Sends!CreateRun(AgentOf[a.handle])
      /\ b.path = IF b.first THEN Sends!CreateAgent ELSE Sends!CreateRun(AgentOf[b.handle])
  BY DEF Asks
<1> QED BY <1>1, PathsDiffer

\* What a send was answered with was made for a send of a path of its own kind.
LEMMA AnswerIs ==
  ASSUME SendsInv, NEW s \in DOMAIN sends, NEW r \in DOMAIN runs, AnsweredBy(s, r)
  PROVE  /\ Of(r) \in SendState /\ Asks(Of(r)) /\ sends[s] \in SendState /\ Asks(sends[s])
         /\ Of(r).first = sends[s].first
         /\ ~sends[s].first => runs[r].agent = AgentOf[sends[s].handle]
<1>1. /\ runs[r].by \in DOMAIN sends /\ Of(r) \in SendState /\ sends[s] \in SendState
      /\ SendSettled(runs[r].by) /\ SendSettled(s)
  BY SendsAre DEF SendsInv, SendsSettle, Of
<1>2. Asks(Of(r)) /\ Asks(sends[s])
  BY <1>1 DEF SendSettled, Of
<1>3. Of(r).first \in BOOLEAN /\ sends[s].first \in BOOLEAN
  BY <1>1 DEF SendState
<1>4. Of(r).first = sends[s].first /\ (~Of(r).first => AgentOf[Of(r).handle] = AgentOf[sends[s].handle])
  BY <1>2, <1>3, SamePath DEF AnsweredBy
<1>5. runs[r].agent = AgentOf[Of(r).handle]
  BY DEF SendsInv, ServiceKnows
<1> QED BY <1>1, <1>2, <1>4, <1>5

\* A send is answered.
LEMMA AnswersReach ==
  ASSUME SendsInv, NEW s \in DOMAIN sends, Sends!Answer(s)
  PROVE  SendsInv'
<1>1. /\ SendsTyped /\ SendSettled(s) /\ sends[s].at = "served" /\ sends[s] \in SendState
      /\ UNCHANGED <<agents, runs, answered>>
  BY SendsAre DEF SendsInv, SendsSettle, Sends!Answer
<1>2. CASE Sends!Raise(s)
  <2>1. Sends!Moves(s, "failed", 0) /\ UNCHANGED handle
    BY <1>2 DEF Sends!Raise, Sends!Error
  <2> QED BY <1>1, <2>1, SendStays DEF Sends!Error
<1>3. CASE sends[s].run # Sends!Error /\ ~Sends!Mismatch(s) /\ Sends!Return(s)
  <2> DEFINE run == sends[s].run
  <2> DEFINE h == sends[s].handle
  <2>1. run \in DOMAIN runs /\ run \in Nat /\ run # Sends!Error /\ AnsweredBy(s, run) /\ h \in Handle
    BY <1>1, <1>3, RunsAre DEF SendSettled, SendState
  <2>2. Sends!Moves(s, "returned", run)
    BY <1>3 DEF Sends!Return
  <2>3. handle' = [handle EXCEPT ![h].created = TRUE, ![h].replaced = @ \/ sends[s].model]
    BY <1>3 DEF Sends!Return
  <2>4. runs[run].agent = AgentOf[h]
    <3>1. ~sends[s].first => runs[run].agent = AgentOf[h]
      BY <2>1, AnswerIs
    <3>2. sends[s].first => runs[run].agent = AgentOf[h]
      BY <1>3 DEF Sends!Mismatch
    <3> QED BY <3>1, <3>2
  <2>5. sends[s].first \in BOOLEAN /\ sends[s].model \in BOOLEAN
    BY <1>1 DEF SendState
  <2> HIDE DEF run, h
  <2>6. /\ sends' \in Seq(SendState) /\ DOMAIN sends' = DOMAIN sends
        /\ sends'[s].at = "returned" /\ sends'[s].run = run
        /\ \A x \in DOMAIN sends : x # s => sends'[x] = sends[x]
        /\ \A x \in DOMAIN sends : SameAsked(sends'[x], sends[x])
    BY <1>1, <2>1, <2>2, MovesIs
  <2>7. /\ handle' \in [Handle -> HandleState] /\ handle'[h].created
        /\ \A k \in Handle : handle[k].created => handle'[k].created
        /\ \A k \in Handle : k # h => handle'[k] = handle[k]
        /\ handle'[h].replaced => handle[h].replaced \/ sends[s].model
    BY <1>1, <2>1, <2>3, <2>5 DEF SendsTyped, HandleState
  <2>8. /\ ServiceKnows'
        /\ \A x \in DOMAIN sends, r \in DOMAIN runs : AnsweredBy(x, r) => AnsweredBy(x, r)'
    BY <1>1, <2>6, ServiceKeeps
  <2>9. SendsTyped'
    BY <1>1, <2>6, <2>7 DEF SendsTyped
  <2>10. \A x \in DOMAIN sends, k \in Handle : /\ MadeBy(x, k) => MadeBy(x, k)'
                                               /\ NamedBy(x, k) => NamedBy(x, k)'
    <3>1. \A x \in DOMAIN sends : sends[x].at = "returned" => sends'[x] = sends[x]
      BY <1>1, <2>6
    <3> QED BY <3>1 DEF MadeBy, NamedBy
  <2>11. ASSUME NEW x \in DOMAIN sends
         PROVE  SendSettled(x)'
    <3>1. SendSettled(x) /\ sends[x] \in SendState
      BY SendsAre DEF SendsInv, SendsSettle
    <3>2. Asks(sends'[x])
      BY <2>6, <3>1, AsksSame DEF SendSettled
    <3>3. sends'[x].handle = sends[x].handle /\ sends[x].handle \in Handle /\ sends'[x].first = sends[x].first
      BY <2>6, <3>1 DEF SameAsked, SendState
    <3>4. ~sends'[x].first => handle'[sends'[x].handle].created
      BY <2>7, <3>1, <3>3 DEF SendSettled
    <3>5. sends'[x].run = sends[x].run
      BY <2>6 DEF run
    <3>6. \A r \in DOMAIN runs : sends'[x].run = r => AnsweredBy(x, r)'
      BY <2>8, <3>1, <3>5 DEF SendSettled
    <3>7. sends'[x].at = "returned" =>
            /\ sends'[x].run # Sends!Error /\ handle'[sends'[x].handle].created
            /\ runs[sends'[x].run].agent = AgentOf[sends'[x].handle]
      <4>1. CASE x = s
        BY <2>1, <2>4, <2>6, <2>7, <3>3, <4>1 DEF h
      <4>2. CASE x # s
        BY <2>6, <2>7, <3>1, <3>3, <4>2 DEF SendSettled
      <4> QED BY <4>1, <4>2
    <3> QED BY <1>1, <3>1, <3>2, <3>4, <3>5, <3>6, <3>7 DEF SendSettled
  <2>12. \A x \in DOMAIN sends : RepeatsOther(x)'
    BY <1>1, <2>6, <2>10, RepeatsStay DEF SendsInv, SendsSettle
  <2>13. ASSUME NEW k \in Handle
         PROVE  HandleMade(k)'
    <3>1. HandleMade(k) /\ HandleMade(h)
      BY <2>1 DEF SendsInv, SendsSettle
    <3>2. CASE k # h
      <4>1. handle'[k] = handle[k]
        BY <2>7, <3>2
      <4>2. handle[k].created /\ k \notin Resumed => \E x \in DOMAIN sends' : MadeBy(x, k)'
        BY <2>6, <2>10, <3>1 DEF HandleMade
      <4>3. handle[k].replaced => \E x \in DOMAIN sends' : NamedBy(x, k)'
        BY <2>6, <2>10, <3>1 DEF HandleMade
      <4> QED BY <4>1, <4>2, <4>3 DEF HandleMade
    <3>3. CASE k = h
      <4>1. sends'[s].handle = k /\ sends'[s].first = sends[s].first /\ sends'[s].model = sends[s].model
        BY <2>6, <3>3 DEF SameAsked, h
      <4>2. k \notin Resumed => \E x \in DOMAIN sends' : MadeBy(x, k)'
        <5>1. CASE sends[s].first
          BY <2>6, <4>1, <5>1 DEF MadeBy
        <5>2. CASE ~sends[s].first
          <6>1. handle[k].created
            BY <1>1, <3>3, <5>2 DEF SendSettled, h
          <6> QED BY <2>6, <2>10, <3>1, <3>3, <6>1 DEF HandleMade
        <5> QED BY <5>1, <5>2
      <4>3. handle'[k].replaced => \E x \in DOMAIN sends' : NamedBy(x, k)'
        <5>1. CASE sends[s].model
          BY <2>6, <4>1, <5>1 DEF NamedBy
        <5>2. CASE ~sends[s].model
          BY <2>6, <2>7, <2>10, <3>1, <3>3, <5>2 DEF HandleMade
        <5> QED BY <5>1, <5>2
      <4> QED BY <4>2, <4>3 DEF HandleMade
    <3> QED BY <3>2, <3>3
  <2>14. SendsSettle'
    BY <2>6, <2>11, <2>12, <2>13 DEF SendsSettle
  <2> QED BY <2>8, <2>9, <2>14 DEF SendsInv
<1> QED BY <1>2, <1>3 DEF Sends!Answer

LEMMA NextSends == SendsInv /\ [Sends!Next]_cloudVars => SendsInv'
<1> SUFFICES ASSUME SendsInv, [Sends!Next]_cloudVars PROVE SendsInv'
  OBVIOUS
<1>1. ASSUME NEW h \in Handle, NEW m \in Message, NEW key \in {NoKey, KeyOf[m]},
             Sends!Send(h, m, key, key = NoKey)
      PROVE  SendsInv'
  BY <1>1, SendBegins
<1>2. ASSUME NEW s \in DOMAIN sends, Sends!Serve(s) PROVE SendsInv'
  <2>1. /\ sends[s].at # "returned" /\ UNCHANGED handle
        /\ Sends!Again(s) \/ Sends!New(s) \/ Sends!Refuse(s)
    BY <1>2 DEF Sends!Serve
  <2> QED BY <2>1, ServesOld, ServesNew
<1>3. ASSUME NEW s \in DOMAIN sends, Sends!Lose(s) PROVE SendsInv'
  <2>1. PICK to \in {"given up", "failed"} : Sends!Moves(s, to, 0)
    BY <1>3 DEF Sends!Lose, Sends!Error
  <2>2. sends[s].at # "returned" /\ UNCHANGED <<handle, agents, runs, answered>>
    BY <1>3 DEF Sends!Lose, Sends!UnderWay
  <2> QED BY <2>1, <2>2, SendStays DEF Sends!Error
<1>4. ASSUME NEW s \in DOMAIN sends, Sends!Answer(s) PROVE SendsInv'
  BY <1>4, AnswersReach
<1>5. CASE UNCHANGED cloudVars
  BY <1>5 DEF cloudVars, SendsInv, SendsTyped, SendsSettle, ServiceKnows, SendSettled, HandleMade,
              RepeatsOther, MadeBy, NamedBy, AnsweredBy, Of
<1> QED BY <1>1, <1>2, <1>3, <1>4, <1>5 DEF Sends!Next

\* A key that a message is repeated under stands for that message only.
LEMMA KeyIsOf ==
  ASSUME NEW a \in SendState, NEW b \in SendState, Asks(a), Asks(b), a.given, a.key = b.key
  PROVE  b.given /\ a.message = b.message
<1>1. a.key = KeyOf[a.message] /\ a.key # NoKey /\ a.message \in Message /\ b.message \in Message /\ b.handle \in Handle
  BY DEF Asks, SendState
<1>2. /\ \A m \in Message : KeyOf[m] = KeyOf[a.message] => m = a.message
      /\ \A h \in Handle : OwnKey[h] # KeyOf[a.message]
  BY <1>1, KeysAssumption
<1>3. CASE ~b.given
  BY <1>1, <1>2, <1>3 DEF Asks
<1>4. CASE b.given
  BY <1>1, <1>2, <1>4 DEF Asks
<1> QED BY <1>3, <1>4

\* The part of RunIsOfMessage that is about the answers of sends.
LEMMA ReturnsOwn ==
  ASSUME SendsInv, NEW s \in DOMAIN sends, sends[s].at = "returned"
  PROVE  /\ runs[sends[s].run].agent = AgentOf[sends[s].handle]
         /\ sends[s].run \in Sends!ListMessages(sends[s].handle)
         /\ \/ runs[sends[s].run].message = sends[s].message
            \/ sends[s].first /\ Of(sends[s].run).first /\ ~sends[s].given
<1> DEFINE r == sends[s].run
<1>1. /\ SendSettled(s) /\ r \in DOMAIN runs /\ AnsweredBy(s, r)
      /\ runs[r].agent = AgentOf[sends[s].handle] /\ handle[sends[s].handle].created
  BY DEF SendsInv, SendsSettle, SendSettled
<1> HIDE DEF r
<1>2. /\ Of(r) \in SendState /\ Asks(Of(r)) /\ sends[s] \in SendState /\ Asks(sends[s])
      /\ Of(r).first = sends[s].first
  BY <1>1, AnswerIs
<1>3. runs[r].message = Of(r).message
  BY <1>1 DEF SendsInv, ServiceKnows
<1>4. CASE runs[r].by = s
  BY <1>1, <1>3, <1>4 DEF Sends!ListMessages, Of, r
<1>5. CASE sends[s].key = Of(r).key /\ sends[s].key # NoKey
  <2>1. sends[s].given => Of(r).message = sends[s].message
    BY <1>2, <1>5, KeyIsOf
  <2>2. ~sends[s].given => sends[s].first
    BY <1>2, <1>5 DEF Asks
  <2> QED BY <1>1, <1>2, <1>3, <2>1, <2>2 DEF Sends!ListMessages, r
<1> QED BY <1>1, <1>4, <1>5 DEF AnsweredBy

\* The part of RunIsOfMessage that is about a message that is run twice.
LEMMA RunTwice ==
  ASSUME SendsInv, NEW q \in DOMAIN runs, NEW r \in DOMAIN runs, q < r, Of(q).given, Of(r).given,
         runs[q].message = runs[r].message, runs[q].agent = runs[r].agent
  PROVE  Of(q).first /\ Of(r).handle \in Resumed
<1>1. \A p \in DOMAIN runs :
        /\ Of(p) \in SendState /\ Asks(Of(p)) /\ RepeatsOther(runs[p].by)
        /\ runs[p].agent = AgentOf[Of(p).handle] /\ runs[p].message = Of(p).message
        /\ Of(p).first => \A o \in DOMAIN runs : o < p => runs[o].agent # runs[p].agent
  BY SendsAre DEF SendsInv, SendsSettle, SendSettled, ServiceKnows, Of
<1>2. Of(q).key = Of(r).key /\ Of(q).key # NoKey
  BY <1>1 DEF Asks
<1>3. Of(q).path # Of(r).path /\ q # r
  <2>1. q # r
    BY RunsAre DEF SendsInv
  <2> QED BY <1>2, <2>1 DEF SendsInv, ServiceKnows
<1>4. ~Of(r).first
  BY <1>1
<1>5. Of(q).first
  BY <1>1, <1>3, <1>4 DEF Asks
<1>6. Of(r).handle \in Resumed
  <2> SUFFICES ASSUME Of(r).handle \notin Resumed PROVE FALSE
    OBVIOUS
  <2>1. PICK x \in DOMAIN sends : /\ MadeBy(x, Of(r).handle)
                                  /\ sends[x].given => sends[x].message # Of(r).message
    BY <1>1, <1>4 DEF RepeatsOther, Of
  <2> DEFINE p == sends[x].run
  <2>2. /\ p \in DOMAIN runs /\ AnsweredBy(x, p) /\ runs[p].agent = AgentOf[sends[x].handle]
        /\ sends[x].first /\ sends[x].handle = Of(r).handle
    BY <2>1 DEF MadeBy, SendsInv, SendsSettle, SendSettled
  <2> HIDE DEF p
  <2>3. Of(p).first /\ sends[x] \in SendState /\ Asks(sends[x])
    BY <2>2, AnswerIs
  <2>4. runs[p].agent = runs[q].agent
    BY <1>1, <2>2
  <2>5. p = q
    <3>1. ~ p < q /\ ~ q < p
      BY <1>1, <1>5, <2>2, <2>3, <2>4
    <3>2. p \in Nat /\ q \in Nat
      BY <2>2, RunsAre DEF SendsInv
    <3> QED BY <3>1, <3>2
  <2>6. Of(q).message = Of(r).message
    BY <1>1
  <2>7. CASE runs[q].by = x
    BY <2>1, <2>6, <2>7 DEF Of
  <2>8. CASE sends[x].key = Of(q).key
    BY <1>1, <2>1, <2>3, <2>6, <2>8, KeyIsOf
  <2> QED BY <2>2, <2>5, <2>7, <2>8 DEF AnsweredBy
<1> QED BY <1>5, <1>6

\* What a send returns is a run of its agent and of its message, and no message is
\* run twice unless a handle that resumed the agent repeats what made it, for any
\* number of handles, messages and sends.
THEOREM RunIsOfMessageCorrect == Sends!Spec => []RunIsOfMessage
<1>1. SendsInv => RunIsOfMessage
  <2> SUFFICES ASSUME SendsInv PROVE Sends!RunIsOfMessage
    BY DEF RunIsOfMessage
  <2>1. ASSUME NEW h \in Handle
        PROVE  /\ handle[h].created => h \in Resumed \/ AgentOf[h] \in agents
               /\ handle[h].replaced => \E s \in DOMAIN sends : NamedBy(s, h)
    <3>1. HandleMade(h)
      BY DEF SendsInv, SendsSettle
    <3>2. ASSUME NEW s \in DOMAIN sends, MadeBy(s, h) PROVE AgentOf[h] \in agents
      <4>1. sends[s].run \in DOMAIN runs /\ runs[sends[s].run].agent = AgentOf[h]
        BY <3>2 DEF MadeBy, SendsInv, SendsSettle, SendSettled
      <4> QED BY <4>1 DEF SendsInv, ServiceKnows
    <3> QED BY <3>1, <3>2 DEF HandleMade
  <2>2. \A q, r \in DOMAIN runs :
           /\ q < r /\ Of(q).given /\ Of(r).given
           /\ runs[q].message = runs[r].message /\ runs[q].agent = runs[r].agent
           => Of(q).first /\ Of(r).handle \in Resumed
    BY RunTwice
  <2> QED BY <2>1, <2>2, ReturnsOwn DEF Sends!RunIsOfMessage, NamedBy, Of
<1> QED BY <1>1, InitSends, NextSends, PTL DEF Sends!Spec, Sends!cloudVars, cloudVars
=============================================================================
