------------------------ MODULE LocalRuntime_proofs ------------------------
(***************************************************************************)
(* Theorems about LocalRuntime, for any number of processes, handles and   *)
(* runs, and any logs.                                                     *)
(***************************************************************************)
EXTENDS LocalRuntime, SequenceTheorems, TLAPS

-----------------------------------------------------------------------------
(* Types of statements, scripts and segments. *)

LEMMA IdleType == ASSUME NEW n \in Nat PROVE Idle \in Segment(n)
<1>1. <<>> \in Seq(StatementOver(n))
  BY EmptySeq
<1> QED BY <1>1, ConstantsAssumption DEF Idle, Segment

\* More runs make more statements well formed.
LEMMA StatementMonotone ==
  ASSUME NEW n \in Nat, NEW m \in Nat, n <= m
  PROVE  StatementOver(n) \subseteq StatementOver(m)
BY DEF StatementOver

LEMMA SegmentMonotone ==
  ASSUME NEW n \in Nat, NEW m \in Nat, n <= m
  PROVE  Segment(n) \subseteq Segment(m)
<1> SUFFICES ASSUME NEW s \in Segment(n) PROVE s \in Segment(m)
  OBVIOUS
<1>1. s.todo \in Seq(StatementOver(m))
  BY StatementMonotone, SeqMonotonic DEF Segment
<1> QED BY <1>1 DEF Segment

\* The one-statement lists that a statement may be replaced by.
LEMMA SingleType ==
  ASSUME NEW n \in Nat, NEW s \in StatementOver(n)
  PROVE  <<s>> \in Seq(StatementOver(n))
OBVIOUS

LEMMA DoType ==
  ASSUME NEW n \in Nat, NEW verb \in {"expire", "choose", "get_agent", "count"}
  PROVE  Do(verb) \in StatementOver(n)
BY DEF Do, StatementOver, Statement, Verb, NoRun

LEMMA InsertRunType ==
  ASSUME NEW n \in Nat, NEW k \in Nat
  PROVE  [Do("insert_run") EXCEPT !.n = k] \in StatementOver(n)
BY DEF Do, StatementOver, Statement, Verb, NoRun

LEMMA DoOnType ==
  ASSUME NEW n \in Nat, NEW r \in 1 .. n,
         NEW verb \in {"expire_run", "get_active", "start", "drive", "find", "stop"}
  PROVE  DoOn(verb, r) \in StatementOver(n)
BY DEF DoOn, StatementOver, Statement, Verb

LEMMA AppendType ==
  ASSUME NEW n \in Nat, NEW r \in 1 .. n, NEW e \in Event
  PROVE  DoWith("append", r, e) \in StatementOver(n)
BY DEF DoWith, StatementOver, Statement, Verb

LEMMA MarkType ==
  ASSUME NEW n \in Nat, NEW r \in 1 .. n, NEW s \in Terminal
  PROVE  DoWith("mark", r, s) \in StatementOver(n)
BY DEF DoWith, StatementOver, Statement, Verb, Event

LEMMA ScriptTypes ==
  ASSUME NEW n \in Nat, NEW r \in 1 .. n
  PROVE  /\ StartScript(r) \in Seq(StatementOver(n))
         /\ CancelScript(r) \in Seq(StatementOver(n))
         /\ ExpireScript(r) \in Seq(StatementOver(n))
         /\ \A s \in Terminal : EndScript(r, s) \in Seq(StatementOver(n))
<1>1. StartScript(r) \in Seq(StatementOver(n))
  BY DoOnType, AppendType DEF StartScript, Event
<1>2. CancelScript(r) \in Seq(StatementOver(n))
  BY MarkType, AppendType DEF CancelScript, Event, Terminal
<1>3. ExpireScript(r) \in Seq(StatementOver(n))
  BY MarkType, AppendType DEF ExpireScript, Event, Terminal
<1>4. ASSUME NEW s \in Terminal PROVE EndScript(r, s) \in Seq(StatementOver(n))
  <2>1. /\ DoWith("append", r, s) \in StatementOver(n)
        /\ DoWith("append", r, "result") \in StatementOver(n)
        /\ DoWith("append", r, "done") \in StatementOver(n)
    BY AppendType DEF Event
  <2>2. /\ DoWith("mark", r, s) \in StatementOver(n)
        /\ DoOn("stop", r) \in StatementOver(n)
    BY MarkType, DoOnType
  <2> QED BY <2>1, <2>2 DEF EndScript
<1> QED BY <1>1, <1>2, <1>3, <1>4

\* The statement a process is at.
LEMMA CurType ==
  ASSUME NEW n \in Nat, seg \in [Process -> Segment(n)],
         NEW p \in Process, seg[p].todo # <<>>
  PROVE  /\ Cur(p) \in StatementOver(n)
         /\ Tail(seg[p].todo) \in Seq(StatementOver(n))
<1>1. seg[p].todo \in Seq(StatementOver(n))
  BY DEF Segment
<1> QED BY <1>1, HeadTailProperties DEF Cur

LEMMA ContinueType ==
  ASSUME NEW n \in Nat, seg \in [Process -> Segment(n)],
         NEW p \in Process, seg[p].todo # <<>>,
         NEW more \in Seq(StatementOver(n)), Continue(p, more)
  PROVE  seg' \in [Process -> Segment(n)]
<1> DEFINE rest == more \o Tail(seg[p].todo)
<1>1. rest \in Seq(StatementOver(n))
  BY CurType, ConcatProperties
<1>2. [op |-> seg[p].op, h |-> seg[p].h, todo |-> rest] \in Segment(n)
  BY <1>1 DEF Segment
<1> HIDE DEF rest
<1>3. (IF rest = <<>> THEN Idle ELSE [op |-> seg[p].op, h |-> seg[p].h, todo |-> rest]) \in Segment(n)
  BY <1>2, IdleType
<1>4. seg' = [seg EXCEPT ![p] = IF rest = <<>> THEN Idle
                                ELSE [op |-> seg[p].op, h |-> seg[p].h, todo |-> rest]]
  BY DEF Continue, rest
<1> QED BY <1>3, <1>4

LEMMA LeaveType ==
  ASSUME NEW n \in Nat, seg \in [Process -> Segment(n)], NEW p \in Process, Leave(p)
  PROVE  seg' \in [Process -> Segment(n)]
BY IdleType DEF Leave

LEMMA BeginType ==
  ASSUME NEW n \in Nat, seg \in [Process -> Segment(n)], NEW p \in Process,
         NEW op \in {"send", "force", "cancel", "turn", "fail"}, NEW h \in Handle,
         NEW todo \in Seq(StatementOver(n)), Begin(p, op, h, todo)
  PROVE  seg' \in [Process -> Segment(n)]
<1>1. [op |-> op, h |-> h, todo |-> todo] \in Segment(n)
  BY DEF Segment
<1> QED BY <1>1 DEF Begin

-----------------------------------------------------------------------------
(* Type correctness. *)

LEMMA InitType == Init => TypeOK
<1> SUFFICES ASSUME Init PROVE TypeOK
  OBVIOUS
<1>1. Len(runs) = 1 /\ Len(log) = 1 /\ Len(exec) = 1
  BY DEF Init
<1>2. /\ runs \in Seq([status : RunStatus, turn : Nat])
      /\ log \in Seq(Seq(Event))
      /\ exec \in Seq([phase : Phase, h : Handle])
  BY ConstantsAssumption DEF Init, RunStatus, Phase
<1>3. agent \in [status : AgentStatus, active : 0 .. Len(runs)]
  BY <1>1 DEF Init, AgentStatus
<1>4. pending \in [Handle -> 0 .. Len(runs)] /\ open \in [Handle -> BOOLEAN]
  BY <1>1 DEF Init, NoRun
<1>5. seg \in [Process -> Segment(Len(runs))]
  BY <1>1, IdleType DEF Init
<1> QED BY <1>1, <1>2, <1>3, <1>4, <1>5 DEF TypeOK

\* A step that only moves a segment.
LEMMA SegmentOnlyType ==
  ASSUME TypeOK, UNCHANGED <<agent, runs, log, pending, open, exec>>,
         seg' \in [Process -> Segment(Len(runs))]
  PROVE  TypeOK'
BY DEF TypeOK

LEMMA RunRowType ==
  ASSUME NEW e \in [status : RunStatus, turn : Nat], NEW to \in RunStatus
  PROVE  [e EXCEPT !.status = to] \in [status : RunStatus, turn : Nat]
OBVIOUS

LEMMA ExecRowType ==
  ASSUME NEW e \in [phase : Phase, h : Handle], NEW to \in Phase
  PROVE  [e EXCEPT !.phase = to] \in [phase : Phase, h : Handle]
OBVIOUS

\* A change of one row of a table keeps its type and its length.
LEMMA RowType ==
  ASSUME NEW S, NEW t \in Seq(S), NEW r \in 1 .. Len(t), NEW row \in S
  PROVE  [t EXCEPT ![r] = row] \in Seq(S) /\ Len([t EXCEPT ![r] = row]) = Len(t)
BY ExceptSeq

\* A change of all rows.
LEMMA RowsType ==
  ASSUME NEW S, NEW t \in Seq(S), NEW u, DOMAIN u = DOMAIN t,
         u = [i \in DOMAIN u |-> u[i]], \A i \in DOMAIN t : u[i] \in S
  PROVE  u \in Seq(S) /\ Len(u) = Len(t)
<1>1. DOMAIN t = 1 .. Len(t) /\ Len(t) \in Nat
  OBVIOUS
<1> QED BY <1>1

LEMMA ClientType == TypeOK /\ Client => TypeOK'
<1> SUFFICES ASSUME TypeOK, Client PROVE TypeOK'
  OBVIOUS
<1> DEFINE n == Len(runs)
<1>n. n \in Nat /\ seg \in [Process -> Segment(n)]
  BY DEF TypeOK
<1>1. CASE \E h \in Handle : Resume(h)
  BY <1>1 DEF Resume, TypeOK, NoRun
<1>2. CASE \E h \in Handle : Close(h)
  <2> PICK h \in Handle : Close(h)
    BY <1>2
  <2>a. ASSUME NEW r \in DOMAIN exec
        PROVE  /\ exec[r] \in [phase : Phase, h : Handle]
               /\ [exec[r] EXCEPT !.phase = "gone"] \in [phase : Phase, h : Handle]
    <3>a. exec \in Seq([phase : Phase, h : Handle]) /\ r \in 1 .. Len(exec)
      BY DEF TypeOK
    <3>1. exec[r] \in [phase : Phase, h : Handle]
      BY <3>a, ElementOfSeq
    <3> QED BY <3>1, ExecRowType DEF Phase
  <2>b. DOMAIN exec' = DOMAIN exec /\ exec' = [r \in DOMAIN exec' |-> exec'[r]]
    BY DEF Close
  <2>c. \A r \in DOMAIN exec : exec'[r] \in [phase : Phase, h : Handle]
    BY <2>a DEF Close
  <2>1. exec' \in Seq([phase : Phase, h : Handle]) /\ Len(exec') = Len(exec)
    BY <2>b, <2>c, RowsType DEF TypeOK
  <2>2. open' \in [Handle -> BOOLEAN]
    BY DEF Close, TypeOK
  <2> QED BY <2>1, <2>2 DEF Close, TypeOK
<1>3. CASE \E h \in Handle, force \in BOOLEAN : Send(h, force)
  <2> PICK h \in Handle, force \in BOOLEAN : Send(h, force)
    BY <1>3
  <2>1. /\ <<Do("expire"), Do("choose")>> \in Seq(StatementOver(n))
        /\ <<Do("choose")>> \in Seq(StatementOver(n))
    BY <1>n, DoType
  <2>2. ProcOf[h] \in Process
    BY ConstantsAssumption
  <2>3. seg' \in [Process -> Segment(n)]
    BY <1>n, <2>1, <2>2, BeginType DEF Send
  <2> QED BY <2>3, SegmentOnlyType DEF Send
<1>4. CASE \E p \in Process : Crash(p)
  <2> PICK p \in Process : Crash(p)
    BY <1>4
  <2>a. ASSUME NEW r \in DOMAIN exec
        PROVE  /\ exec[r] \in [phase : Phase, h : Handle]
               /\ [exec[r] EXCEPT !.phase = "gone"] \in [phase : Phase, h : Handle]
    <3>a. exec \in Seq([phase : Phase, h : Handle]) /\ r \in 1 .. Len(exec)
      BY DEF TypeOK
    <3>1. exec[r] \in [phase : Phase, h : Handle]
      BY <3>a, ElementOfSeq
    <3> QED BY <3>1, ExecRowType DEF Phase
  <2>b. DOMAIN exec' = DOMAIN exec /\ exec' = [r \in DOMAIN exec' |-> exec'[r]]
    BY DEF Crash
  <2>c. \A r \in DOMAIN exec : exec'[r] \in [phase : Phase, h : Handle]
    BY <2>a DEF Crash
  <2>1. exec' \in Seq([phase : Phase, h : Handle]) /\ Len(exec') = Len(exec)
    BY <2>b, <2>c, RowsType DEF TypeOK
  <2>2. open' \in [Handle -> BOOLEAN]
    BY DEF Crash, TypeOK
  <2>3. seg' \in [Process -> Segment(n)]
    BY <1>n, IdleType DEF Crash
  <2> QED BY <2>1, <2>2, <2>3 DEF Crash, TypeOK
<1>5. CASE \E p \in Process, r \in DOMAIN runs : Cancel(p, r)
  <2> PICK p \in Process, r \in DOMAIN runs : Cancel(p, r)
    BY <1>5
  <2>1. r \in 1 .. n
    BY DEF TypeOK
  <2>2. <<DoOn("find", r)>> \in Seq(StatementOver(n))
    BY <1>n, <2>1, DoOnType
  <2>3. seg' \in [Process -> Segment(n)]
    BY <1>n, <2>2, BeginType, ConstantsAssumption DEF Cancel
  <2> QED BY <2>3, SegmentOnlyType DEF Cancel
<1>6. CASE \E p \in Process, status \in {"ARCHIVED", "IDLE"} : SetAgentStatus(p, status)
  BY <1>6 DEF SetAgentStatus, TypeOK, AgentStatus
<1> QED BY <1>1, <1>2, <1>3, <1>4, <1>5, <1>6 DEF Client

LEMMA ExecutorType == ASSUME TypeOK, NEW r \in DOMAIN exec, Executor(r) PROVE TypeOK'
<1> DEFINE n == Len(runs)
<1>n. n \in Nat /\ seg \in [Process -> Segment(n)] /\ r \in 1 .. n
  BY DEF TypeOK
<1>e. exec \in Seq([phase : Phase, h : Handle]) /\ Len(exec) = n
  BY DEF TypeOK
<1>x. exec[r] \in [phase : Phase, h : Handle]
  BY <1>n, <1>e, ElementOfSeq
<1>h. exec[r].h \in Handle /\ ProcOfRun(r) \in Process
  BY <1>x, ConstantsAssumption DEF ProcOfRun
<1>1. ASSUME NEW from \in Phase, NEW to \in Phase, Turns(r, from, to) PROVE TypeOK'
  <2>1. [exec[r] EXCEPT !.phase = to] \in [phase : Phase, h : Handle]
    BY <1>x, ExecRowType
  <2>2. exec' \in Seq([phase : Phase, h : Handle]) /\ Len(exec') = Len(exec)
    BY <1>1, <1>n, <1>e, <2>1, RowType DEF Turns
  <2> QED BY <1>1, <2>2 DEF Turns, TypeOK
<1>2. CASE Startup(r) \/ StreamFails(r) \/ StreamAborted(r)
  BY <1>1, <1>2 DEF Startup, StartupDone, StartupFails, StreamFails, StreamAborted, Phase
<1>3. CASE Emit(r)
  <2>1. <<DoWith("append", r, "progress")>> \in Seq(StatementOver(n))
    BY <1>n, AppendType DEF Event
  <2>2. seg' \in [Process -> Segment(n)]
    BY <1>3, <1>n, <1>h, <2>1, BeginType DEF Emit
  <2> QED BY <1>3, <2>2, SegmentOnlyType DEF Emit
<1>4. CASE TurnEnds(r)
  <2> PICK status \in {"FINISHED", "ERROR"} : EndTurn(r, status)
    BY <1>4 DEF TurnEnds
  <2>1. EndScript(r, status) \in Seq(StatementOver(n))
    BY <1>n, ScriptTypes DEF Terminal
  <2>2. seg' \in [Process -> Segment(n)]
    BY <1>n, <1>h, <2>1, BeginType DEF EndTurn
  <2> QED BY <2>2, SegmentOnlyType DEF EndTurn
<1>5. CASE RunFails(r)
  <2>1. EndScript(r, "ERROR") \in Seq(StatementOver(n))
    BY <1>n, ScriptTypes DEF Terminal
  <2>2. seg' \in [Process -> Segment(n)]
    BY <1>5, <1>n, <1>h, <2>1, BeginType DEF RunFails
  <2> QED BY <1>5, <2>2, SegmentOnlyType DEF RunFails
<1> QED BY <1>2, <1>3, <1>4, <1>5 DEF Executor, TurnStops

LEMMA StepType == ASSUME TypeOK, NEW p \in Process, Step(p) PROVE TypeOK'
<1> DEFINE n == Len(runs)
           cur == Cur(p)
<1>n. /\ n \in Nat
      /\ seg \in [Process -> Segment(n)]
      /\ Len(log) = n /\ Len(exec) = n
      /\ runs \in Seq([status : RunStatus, turn : Nat])
      /\ log \in Seq(Seq(Event))
      /\ exec \in Seq([phase : Phase, h : Handle])
      /\ agent \in [status : AgentStatus, active : 0 .. n]
      /\ pending \in [Handle -> 0 .. n]
      /\ seg[p].h \in Handle
  BY DEF TypeOK, Segment
<1>a. agent.active # NoRun => agent.active \in 1 .. n
  BY <1>n DEF NoRun
<1>t. seg[p].todo # <<>>
  BY DEF Step, At, ExpireReadAgent, ExpireReadRun, ChooseRun, FollowUpReadAgent,
         FollowUpReadActive, FollowUpCount, FollowUpInsert, MarkRunStarting,
         MarkRunTerminal, ReadMaxSeq, InsertEvent, InsertEventConflict,
         CancelFindRun, Drive, DriveFails, ExecutorReturns
<1>c. cur \in StatementOver(n)
  BY <1>n, <1>t, CurType
<1>r. cur.do \in {"expire_run", "get_active", "start", "append", "insert_event",
                 "drive", "find", "mark", "stop"} => cur.r \in 1 .. n
  BY <1>c DEF StatementOver
<1>e. <<>> \in Seq(StatementOver(n))
  BY EmptySeq
<1>k. ASSUME NEW more \in Seq(StatementOver(n)), Continue(p, more)
      PROVE  seg' \in [Process -> Segment(n)]
  BY <1>n, <1>t, <1>k, ContinueType
<1>l. Leave(p) => seg' \in [Process -> Segment(n)]
  BY <1>n, LeaveType
<1> HIDE DEF n, cur
<1>1. CASE ExpireReadAgent(p)
  <2>1. (IF agent.active = NoRun THEN <<>> ELSE <<DoOn("expire_run", agent.active)>>)
          \in Seq(StatementOver(n))
    BY <1>n, <1>a, <1>e, DoOnType
  <2> QED BY <1>1, <2>1, <1>k, SegmentOnlyType DEF ExpireReadAgent, n
<1>2. CASE ExpireReadRun(p)
  <2>1. cur.r \in 1 .. n
    BY <1>2, <1>r DEF ExpireReadRun, At, Cur, cur
  <2>2. (IF Live(cur.r) THEN ExpireScript(cur.r) ELSE <<>>) \in Seq(StatementOver(n))
    BY <1>n, <1>e, <2>1, ScriptTypes
  <2> QED BY <1>2, <2>2, <1>k, SegmentOnlyType DEF ExpireReadRun, n, cur
<1>3. CASE ChooseRun(p)
  <2> DEFINE w == pending[seg[p].h]
  <2>1. w # NoRun => w \in 1 .. n
    BY <1>n DEF NoRun
  <2>2. (IF w # NoRun /\ runs[w].status = "QUEUED" THEN StartScript(w) ELSE <<Do("get_agent")>>)
          \in Seq(StatementOver(n))
    <3>1. w # NoRun => StartScript(w) \in Seq(StatementOver(n))
      BY <1>n, <2>1, ScriptTypes
    <3>2. <<Do("get_agent")>> \in Seq(StatementOver(n))
      BY <1>n, DoType
    <3> HIDE DEF w
    <3> QED BY <3>1, <3>2
  <2>3. seg' \in [Process -> Segment(n)]
    BY <1>3, <2>2, <1>k DEF ChooseRun
  <2>4. pending' \in [Handle -> 0 .. n]
    BY <1>3, <1>n DEF ChooseRun, NoRun
  <2> QED BY <1>3, <2>3, <2>4 DEF ChooseRun, TypeOK, n
<1>4. CASE FollowUpReadAgent(p)
  <2>1. (IF agent.active = NoRun THEN <<Do("count")>> ELSE <<DoOn("get_active", agent.active)>>)
          \in Seq(StatementOver(n))
    BY <1>n, <1>a, DoOnType, DoType
  <2> QED BY <1>4, <2>1, <1>k, <1>l, SegmentOnlyType DEF FollowUpReadAgent, n
<1>5. CASE FollowUpReadActive(p)
  <2>1. <<Do("count")>> \in Seq(StatementOver(n))
    BY <1>n, DoType
  <2> QED BY <1>5, <2>1, <1>k, <1>l, SegmentOnlyType DEF FollowUpReadActive, n
<1>6. CASE FollowUpCount(p)
  <2>1. <<[Do("insert_run") EXCEPT !.n = n]>> \in Seq(StatementOver(n))
    BY <1>n, InsertRunType
  <2> QED BY <1>6, <2>1, <1>k, <1>l, SegmentOnlyType DEF FollowUpCount, n
<1>7. CASE FollowUpInsert(p)
  <2>1. n + 1 \in Nat /\ n <= n + 1 /\ n + 1 \in 1 .. n + 1
    BY <1>n
  <2>2. cur.n \in Nat
    BY <1>c DEF StatementOver, Statement
  <2>3. /\ runs' \in Seq([status : RunStatus, turn : Nat])
        /\ log' \in Seq(Seq(Event))
        /\ exec' \in Seq([phase : Phase, h : Handle])
        /\ Len(runs') = n + 1 /\ Len(log') = n + 1 /\ Len(exec') = n + 1
    BY <1>7, <1>n, <2>2, ConstantsAssumption, AppendProperties, EmptySeq
       DEF FollowUpInsert, RunStatus, Phase, n, cur
  <2>4. agent' \in [status : AgentStatus, active : 0 .. n + 1]
    BY <1>7, <1>n DEF FollowUpInsert, AgentStatus, n
  <2>5. seg \in [Process -> Segment(n + 1)]
    BY <1>n, <2>1, SegmentMonotone
  <2>6. StartScript(n + 1) \in Seq(StatementOver(n + 1))
    BY <2>1, ScriptTypes
  <2>7. seg' \in [Process -> Segment(n + 1)]
    BY <1>7, <1>t, <2>1, <2>5, <2>6, ContinueType DEF FollowUpInsert, n
  <2>8. pending' \in [Handle -> 0 .. n + 1] /\ open' \in [Handle -> BOOLEAN]
    BY <1>7, <1>n DEF FollowUpInsert, TypeOK
  <2> QED BY <2>3, <2>4, <2>7, <2>8 DEF TypeOK
<1>8. CASE MarkRunStarting(p)
  <2>1. cur.r \in 1 .. n
    BY <1>8, <1>r DEF MarkRunStarting, At, Cur, cur
  <2>2. [runs[cur.r] EXCEPT !.status = "RUNNING"] \in [status : RunStatus, turn : Nat]
    <3>1. runs[cur.r] \in [status : RunStatus, turn : Nat]
      BY <1>n, <2>1, ElementOfSeq DEF n
    <3> QED BY <2>1, <3>1, RunRowType DEF RunStatus
  <2>3. runs' \in Seq([status : RunStatus, turn : Nat]) /\ Len(runs') = n
    BY <1>8, <1>n, <2>1, <2>2, RowType DEF MarkRunStarting, n, cur
  <2>4. agent' \in [status : AgentStatus, active : 0 .. n]
    BY <1>8, <2>1, <1>n DEF MarkRunStarting, IdleUnlessArchived, AgentStatus, cur
  <2>5. seg' \in [Process -> Segment(n)]
    BY <1>8, <1>e, <1>k DEF MarkRunStarting
  <2> QED BY <1>8, <2>3, <2>4, <2>5 DEF MarkRunStarting, TypeOK, n
<1>9. CASE MarkRunTerminal(p)
  <2>1. cur.r \in 1 .. n /\ cur.arg \in Terminal
    BY <1>9, <1>r, <1>c DEF MarkRunTerminal, At, Cur, cur, StatementOver
  <2>2. [runs[cur.r] EXCEPT !.status = cur.arg] \in [status : RunStatus, turn : Nat]
    <3>1. runs[cur.r] \in [status : RunStatus, turn : Nat]
      BY <1>n, <2>1, ElementOfSeq DEF n
    <3> QED BY <2>1, <3>1, RunRowType DEF RunStatus
  <2>3. runs' \in Seq([status : RunStatus, turn : Nat]) /\ Len(runs') = n
    BY <1>9, <1>n, <2>1, <2>2, RowType DEF MarkRunTerminal, n, cur
  <2>4. agent' \in [status : AgentStatus, active : 0 .. n]
    BY <1>9, <1>n DEF MarkRunTerminal, IdleUnlessArchived, AgentStatus, NoRun
  <2>5. seg' \in [Process -> Segment(n)]
    BY <1>9, <1>e, <1>k DEF MarkRunTerminal
  <2> QED BY <1>9, <2>3, <2>4, <2>5 DEF MarkRunTerminal, TypeOK, n
<1>10. CASE ReadMaxSeq(p)
  <2>1. cur.do = "append" /\ cur.r \in 1 .. n /\ cur.arg \in Event
    BY <1>10, <1>r, <1>c DEF ReadMaxSeq, At, Cur, cur, StatementOver
  <2>2. Len(log[cur.r]) \in Nat
    BY <1>n, <2>1, ElementOfSeq
  <2>3. [cur EXCEPT !.do = "insert_event", !.n = Len(log[cur.r])] \in StatementOver(n)
    BY <1>c, <2>1, <2>2 DEF StatementOver, Statement, Verb
  <2>4. <<[cur EXCEPT !.do = "insert_event", !.n = Len(log[cur.r])]>> \in Seq(StatementOver(n))
    BY <2>3
  <2> QED BY <1>10, <2>4, <1>k, SegmentOnlyType DEF ReadMaxSeq, n, cur
<1>11. CASE InsertEvent(p)
  <2>1. cur.r \in 1 .. n /\ cur.arg \in Event
    BY <1>11, <1>r, <1>c DEF InsertEvent, At, Cur, cur, StatementOver
  <2>2. Append(log[cur.r], cur.arg) \in Seq(Event)
    BY <1>n, <2>1, ElementOfSeq, AppendProperties
  <2>3. log' \in Seq(Seq(Event)) /\ Len(log') = n
    BY <1>11, <1>n, <2>1, <2>2, RowType DEF InsertEvent, cur
  <2>4. seg' \in [Process -> Segment(n)]
    BY <1>11, <1>e, <1>k DEF InsertEvent
  <2> QED BY <1>11, <2>3, <2>4 DEF InsertEvent, TypeOK, n
<1>12. CASE InsertEventConflict(p)
  <2>1. cur.r \in 1 .. n
    BY <1>12, <1>r DEF InsertEventConflict, At, Cur, cur
  <2>2. /\ [exec[cur.r] EXCEPT !.phase = "failing"] \in [phase : Phase, h : Handle]
        /\ [exec[cur.r] EXCEPT !.phase = "gone"] \in [phase : Phase, h : Handle]
    <3>1. exec[cur.r] \in [phase : Phase, h : Handle]
      BY <1>n, <2>1, ElementOfSeq
    <3> QED BY <3>1, ExecRowType DEF Phase
  <2>3. exec' \in Seq([phase : Phase, h : Handle]) /\ Len(exec') = n
    <3>1. \/ exec' = exec
          \/ exec' = [exec EXCEPT ![cur.r] = [exec[cur.r] EXCEPT !.phase = "failing"]]
          \/ exec' = [exec EXCEPT ![cur.r] = [exec[cur.r] EXCEPT !.phase = "gone"]]
      BY <1>12 DEF InsertEventConflict, cur
    <3>2. /\ exec \in Seq([phase : Phase, h : Handle])
          /\ cur.r \in 1 .. Len(exec) /\ Len(exec) = n
      BY <1>n, <2>1
    <3>3. ASSUME NEW row \in [phase : Phase, h : Handle], exec' = [exec EXCEPT ![cur.r] = row]
          PROVE  exec' \in Seq([phase : Phase, h : Handle]) /\ Len(exec') = n
      BY <3>2, <3>3, RowType
    <3> QED BY <3>1, <3>2, <3>3, <2>2
  <2>4. seg' \in [Process -> Segment(n)]
    BY <1>12, <1>l DEF InsertEventConflict
  <2> QED BY <1>12, <2>3, <2>4 DEF InsertEventConflict, TypeOK, n
<1>13. CASE CancelFindRun(p)
  <2>1. cur.r \in 1 .. n
    BY <1>13, <1>r DEF CancelFindRun, At, Cur, cur
  <2>2. (IF Live(cur.r) THEN CancelScript(cur.r) ELSE <<>>) \in Seq(StatementOver(n))
    BY <1>n, <1>e, <2>1, ScriptTypes
  <2> QED BY <1>13, <2>2, <1>k, SegmentOnlyType DEF CancelFindRun, n, cur
<1>14. CASE Drive(p)
  <2>1. cur.r \in 1 .. n
    BY <1>14, <1>r DEF Drive, At, Cur, cur
  <2>2. [phase |-> "starting", h |-> seg[p].h] \in [phase : Phase, h : Handle]
    BY <1>n DEF Phase
  <2>3. exec' \in Seq([phase : Phase, h : Handle]) /\ Len(exec') = n
    BY <1>14, <1>n, <2>1, <2>2, RowType DEF Drive, cur
  <2>4. seg' \in [Process -> Segment(n)]
    BY <1>14, <1>e, <1>k DEF Drive
  <2> QED BY <1>14, <2>3, <2>4 DEF Drive, TypeOK, n
<1>15. CASE ExecutorReturns(p)
  <2>1. cur.r \in 1 .. n
    BY <1>15, <1>r DEF ExecutorReturns, At, Cur, cur
  <2>2. [exec[cur.r] EXCEPT !.phase = "gone"] \in [phase : Phase, h : Handle]
    <3>1. exec[cur.r] \in [phase : Phase, h : Handle]
      BY <1>n, <2>1, ElementOfSeq
    <3> QED BY <3>1, ExecRowType DEF Phase
  <2>3. exec' \in Seq([phase : Phase, h : Handle]) /\ Len(exec') = n
    BY <1>15, <1>n, <2>1, <2>2, RowType DEF ExecutorReturns, cur
  <2>4. seg' \in [Process -> Segment(n)]
    BY <1>15, <1>e, <1>k DEF ExecutorReturns
  <2> QED BY <1>15, <2>3, <2>4 DEF ExecutorReturns, TypeOK, n
<1>16. CASE DriveFails(p)
  BY <1>16, <1>l, SegmentOnlyType DEF DriveFails, n
<1> QED BY <1>1, <1>2, <1>3, <1>4, <1>5, <1>6, <1>7, <1>8, <1>9, <1>10, <1>11,
           <1>12, <1>13, <1>14, <1>15, <1>16 DEF Step

LEMMA NextType == TypeOK /\ [Next]_vars => TypeOK'
<1>1. TypeOK /\ UNCHANGED vars => TypeOK'
  BY DEF TypeOK, vars
<1> QED BY <1>1, StepType, ClientType, ExecutorType DEF Next

\* No statement of any segment, whatever processes interleave and die, names a
\* run that does not exist, and no row, log or executor leaves its type.
THEOREM TypeCorrect == Spec => []TypeOK
BY InitType, NextType, PTL DEF Spec

-----------------------------------------------------------------------------
(* The logs of the runs: although the seq of an event is computed by a     *)
(* SELECT before the transaction that inserts it, the primary key keeps    *)
(* every log append-only.                                                  *)

\* What AppendOnly says of one log.
Extends(after, before) ==
  Len(after) >= Len(before) /\ SubSeq(after, 1, Len(before)) = before

LEMMA ExtendsItself ==
  ASSUME NEW S, NEW l \in Seq(S) PROVE Extends(l, l)
BY SubSeqFull, LenProperties DEF Extends

LEMMA ExtendsByOne ==
  ASSUME NEW S, NEW l \in Seq(S), NEW e \in S PROVE Extends(Append(l, e), l)
<1>1. Append(l, e) = l \o <<e>> /\ <<e>> \in Seq(S)
  BY AppendIsConcat
<1>2. Len(l) \in Nat /\ Len(Append(l, e)) = Len(l) + 1
  BY AppendProperties, LenProperties
<1>3. SubSeq(l \o <<e>>, 1, Len(l)) = SubSeq(l, 1, Len(l))
  BY <1>1, <1>2, SubSeqOfConcat1
<1> QED BY <1>1, <1>2, <1>3, SubSeqFull DEF Extends

LEMMA StepAppends ==
  ASSUME TypeOK, NEW p \in Process, Step(p), NEW r \in DOMAIN log
  PROVE  Extends(log'[r], log[r])
<1>1. /\ log \in Seq(Seq(Event)) /\ Len(log) = Len(runs) /\ Len(runs) \in Nat
      /\ seg \in [Process -> Segment(Len(runs))]
  BY DEF TypeOK
<1>2. r \in 1 .. Len(log) /\ log[r] \in Seq(Event)
  BY <1>1, ElementOfSeq
<1>3. CASE UNCHANGED log
  BY <1>2, <1>3, ExtendsItself
<1>4. CASE FollowUpInsert(p)
  <2>1. log'[r] = log[r]
    BY <1>1, <1>2, <1>4 DEF FollowUpInsert
  <2> QED BY <1>2, <2>1, ExtendsItself
<1>5. CASE InsertEvent(p)
  <2> DEFINE q == Cur(p).r
             e == Cur(p).arg
  <2>1. seg[p].todo # <<>> /\ Cur(p).do = "insert_event"
    BY <1>5 DEF InsertEvent, At, Cur
  <2>2. e \in Event
    <3>1. Cur(p) \in StatementOver(Len(runs))
      BY <1>1, <2>1, CurType
    <3> QED BY <2>1, <3>1 DEF StatementOver
  <2>3. log' = [log EXCEPT ![q] = Append(log[q], e)]
    BY <1>5 DEF InsertEvent
  <2> HIDE DEF q, e
  <2>4. log'[r] = log[r] \/ log'[r] = Append(log[r], e)
    BY <1>2, <2>3
  <2> QED BY <1>2, <2>2, <2>4, ExtendsItself, ExtendsByOne
<1> QED BY <1>3, <1>4, <1>5
        DEF Step, ExpireReadAgent, ExpireReadRun, ChooseRun, FollowUpReadAgent,
            FollowUpReadActive, FollowUpCount, MarkRunStarting, MarkRunTerminal,
            ReadMaxSeq, InsertEventConflict, CancelFindRun, Drive, DriveFails, ExecutorReturns

\* No interleaving of any number of processes overwrites or reorders an event that
\* append_run_event has recorded.
THEOREM AppendOnlyCorrect == Spec => AppendOnly
<1>1. TypeOK /\ [Next]_vars =>
        [\A r \in DOMAIN log :
           /\ Len(log'[r]) >= Len(log[r])
           /\ SubSeq(log'[r], 1, Len(log[r])) = log[r]]_vars
  <2> SUFFICES ASSUME TypeOK, Next, NEW r \in DOMAIN log
               PROVE  Extends(log'[r], log[r])
    BY DEF Extends
  <2>1. CASE UNCHANGED log
    <3>1. log[r] \in Seq(Event)
      BY ElementOfSeq DEF TypeOK
    <3> QED BY <2>1, <3>1, ExtendsItself
  <2>2. CASE \E p \in Process : Step(p)
    BY <2>2, StepAppends
  <2>3. \A s \in DOMAIN exec : Executor(s) => UNCHANGED log
    BY DEF Executor, Startup, StartupDone, StartupFails, Emit, TurnStops, TurnEnds,
           EndTurn, StreamFails, StreamAborted, RunFails, Turns
  <2> QED BY <2>1, <2>2, <2>3
          DEF Next, Client, Resume, Close, Send, Crash, Cancel, SetAgentStatus
<1> QED BY <1>1, TypeCorrect, PTL DEF Spec, AppendOnly

-----------------------------------------------------------------------------
(* From statement to statement. *)

Final(t) == t[Len(t)]

\* The statements of a segment, when it is at one.
LEMMA AtStatement ==
  ASSUME TypeOK, NEW p \in Process, seg[p].todo # <<>>
  PROVE  /\ Len(runs) \in Nat /\ Len(seg[p].todo) \in Nat /\ 1 \in 1 .. Len(seg[p].todo)
         /\ seg[p].todo \in Seq(StatementOver(Len(runs)))
         /\ Cur(p) = seg[p].todo[1]
         /\ \A i \in 1 .. Len(seg[p].todo) : seg[p].todo[i] \in StatementOver(Len(runs))
<1>1. Len(runs) \in Nat /\ seg[p].todo \in Seq(StatementOver(Len(runs)))
  BY DEF TypeOK, Segment
<1> QED BY <1>1, HeadTailProperties, EmptySeq, LenProperties, ElementOfSeq DEF Cur

LEMMA ContinueTodo ==
  ASSUME TypeOK, NEW n \in Nat, Len(runs) <= n, NEW p \in Process, seg[p].todo # <<>>,
         NEW more \in Seq(StatementOver(n)), Continue(p, more)
  PROVE  /\ seg'[p].todo = more \o Tail(seg[p].todo)
         /\ seg[p].todo \in Seq(StatementOver(n)) /\ Tail(seg[p].todo) \in Seq(StatementOver(n))
         /\ seg'[p].todo # <<>> => seg'[p].op = seg[p].op
<1>1. seg \in [Process -> Segment(n)]
  BY SegmentMonotone DEF TypeOK
<1>2. seg[p].todo \in Seq(StatementOver(n)) /\ Tail(seg[p].todo) \in Seq(StatementOver(n))
  BY <1>1, CurType DEF Segment
<1>3. seg'[p].todo = more \o Tail(seg[p].todo) /\ (seg'[p].todo # <<>> => seg'[p].op = seg[p].op)
  BY <1>1 DEF Continue, Idle
<1> QED BY <1>2, <1>3

\* The statement is done and nothing comes in its place.
LEMMA MovesOn ==
  ASSUME TypeOK, NEW p \in Process, seg[p].todo # <<>>, Continue(p, <<>>)
  PROVE  /\ seg'[p].todo = Tail(seg[p].todo)
         /\ Len(seg'[p].todo) = Len(seg[p].todo) - 1
         /\ \A i \in 1 .. Len(seg'[p].todo) :
              i + 1 \in 1 .. Len(seg[p].todo) /\ seg'[p].todo[i] = seg[p].todo[i + 1]
         /\ seg'[p].todo # <<>> => Final(seg'[p].todo) = Final(seg[p].todo)
         /\ seg'[p].todo # <<>> => seg'[p].op = seg[p].op
         /\ seg'[p].todo = <<>> => Len(seg[p].todo) = 1
<1> DEFINE n == Len(runs)
           t == seg[p].todo
<1>1. n \in Nat /\ n <= n /\ <<>> \in Seq(StatementOver(n))
  BY EmptySeq DEF TypeOK
<1>2. /\ seg'[p].todo = <<>> \o Tail(t)
      /\ t \in Seq(StatementOver(n)) /\ Tail(t) \in Seq(StatementOver(n))
      /\ seg'[p].todo # <<>> => seg'[p].op = seg[p].op
  BY <1>1, ContinueTodo
<1>3. seg'[p].todo = Tail(t)
  BY <1>2, ConcatEmptySeq
<1>4. /\ Len(Tail(t)) = Len(t) - 1 /\ Len(t) \in Nat
      /\ \A i \in 1 .. Len(Tail(t)) : i + 1 \in 1 .. Len(t) /\ Tail(t)[i] = t[i + 1]
  BY <1>2, HeadTailProperties
<1>5. Tail(t) # <<>> => Len(Tail(t)) \in 1 .. Len(Tail(t))
  BY <1>2, EmptySeq, LenProperties
<1>6. Tail(t) # <<>> => Final(Tail(t)) = Final(t)
  BY <1>4, <1>5 DEF Final
<1>7. Tail(t) = <<>> => Len(t) = 1
  <2> SUFFICES ASSUME Tail(t) = <<>> PROVE Len(t) = 1
    OBVIOUS
  <2>1. Len(Tail(t)) = 0
    BY Zenon, EmptySeq
  <2> QED BY <1>4, <2>1
<1>8. seg'[p].todo # <<>> => seg'[p].op = seg[p].op
  BY <1>2
<1> HIDE DEF n
<1> QED BY <1>3, <1>4, <1>6, <1>7, <1>8

\* The only statement of a segment is replaced by others.
LEMMA Replaced ==
  ASSUME TypeOK, NEW n \in Nat, Len(runs) <= n, NEW p \in Process, seg[p].todo # <<>>,
         Len(seg[p].todo) = 1, NEW more \in Seq(StatementOver(n)), Continue(p, more)
  PROVE  seg'[p].todo = more /\ (seg'[p].todo # <<>> => seg'[p].op = seg[p].op)
<1>1. /\ seg'[p].todo = more \o Tail(seg[p].todo)
      /\ seg[p].todo \in Seq(StatementOver(n)) /\ Tail(seg[p].todo) \in Seq(StatementOver(n))
      /\ seg'[p].todo # <<>> => seg'[p].op = seg[p].op
  BY ContinueTodo
<1>2. Tail(seg[p].todo) = <<>>
  <2>1. Len(Tail(seg[p].todo)) = 0
    BY <1>1, HeadTailProperties
  <2> QED BY <1>1, <2>1, EmptySeq
<1> QED BY <1>1, <1>2, ConcatEmptySeq

\* append_run_event: the INSERT that follows the SELECT.
LEMMA Reads ==
  ASSUME TypeOK, NEW p \in Process, ReadMaxSeq(p)
  PROVE  LET t == seg[p].todo
             u == seg'[p].todo
         IN  /\ t # <<>> /\ t[1].do = "append"
             /\ Len(u) = Len(t) /\ u # <<>>
             /\ u[1] = [t[1] EXCEPT !.do = "insert_event", !.n = Len(log[t[1].r])]
             /\ u[1].do = "insert_event" /\ u[1].r = t[1].r /\ u[1].arg = t[1].arg
             /\ u[1].n = Len(log[t[1].r])
             /\ \A i \in 2 .. Len(u) : u[i] = t[i]
             /\ u = <<u[1]>> \o Tail(t)
             /\ seg'[p].op = seg[p].op
             /\ u[1] \in StatementOver(Len(runs))
<1> DEFINE n == Len(runs)
           t == seg[p].todo
           s == [t[1] EXCEPT !.do = "insert_event", !.n = Len(log[t[1].r])]
<1>1. t # <<>> /\ Cur(p).do = "append"
  BY DEF ReadMaxSeq, At, Cur
<1>2. /\ n \in Nat /\ n <= n /\ Cur(p) = t[1] /\ t[1] \in StatementOver(n)
      /\ t \in Seq(StatementOver(n)) /\ Len(t) \in Nat /\ 1 \in 1 .. Len(t)
  BY <1>1, AtStatement
<1>3. t[1].r \in 1 .. n /\ t[1].arg \in Event
  BY <1>1, <1>2 DEF StatementOver
<1>4. Len(log[t[1].r]) \in Nat
  BY <1>3, ElementOfSeq DEF TypeOK
<1>5. /\ s \in StatementOver(n)
      /\ s.do = "insert_event" /\ s.r = t[1].r /\ s.arg = t[1].arg /\ s.n = Len(log[t[1].r])
  BY <1>1, <1>2, <1>3, <1>4 DEF StatementOver, Statement, Verb
<1>6. Continue(p, <<s>>)
  BY <1>2 DEF ReadMaxSeq
<1> HIDE DEF s
<1>7. <<s>> \in Seq(StatementOver(n)) /\ Len(<<s>>) = 1 /\ <<s>>[1] = s
  BY <1>5
<1>8. /\ seg'[p].todo = <<s>> \o Tail(t) /\ Tail(t) \in Seq(StatementOver(n))
      /\ seg'[p].todo # <<>> => seg'[p].op = seg[p].op
  BY <1>1, <1>2, <1>6, <1>7, ContinueTodo
<1>9. /\ Len(Tail(t)) = Len(t) - 1
      /\ \A i \in 1 .. Len(Tail(t)) : Tail(t)[i] = t[i + 1]
  BY <1>1, <1>2, HeadTailProperties
<1>10. /\ Len(<<s>> \o Tail(t)) = Len(t) /\ (<<s>> \o Tail(t))[1] = s
       /\ \A i \in 2 .. Len(t) : (<<s>> \o Tail(t))[i] = t[i]
  BY <1>2, <1>7, <1>8, <1>9, ConcatProperties
<1>11. seg'[p].todo # <<>>
  BY <1>8, <1>10, <1>2, EmptySeq
<1> HIDE DEF t
<1>12. seg'[p].todo[1] = s
  BY <1>8, <1>10
<1>13. s = [t[1] EXCEPT !.do = "insert_event", !.n = Len(log[t[1].r])]
  BY DEF s
<1> QED BY <1>1, <1>2, <1>5, <1>8, <1>10, <1>11, <1>12, <1>13 DEF t


-----------------------------------------------------------------------------
(* The statements that rest on a check come first in their segment. *)

CheckedFirst(todo) == \A i \in DOMAIN todo : todo[i].do \in Checked => i = 1
NoneChecked(todo) == \A i \in DOMAIN todo : todo[i].do \notin Checked

LEMMA TailNoneChecked ==
  ASSUME NEW S, NEW todo \in Seq(S), todo # <<>>, CheckedFirst(todo)
  PROVE  NoneChecked(Tail(todo))
<1> SUFFICES ASSUME NEW i \in DOMAIN Tail(todo) PROVE Tail(todo)[i].do \notin Checked
  BY DEF NoneChecked
<1>1. i \in 1 .. Len(todo) - 1 /\ Tail(todo)[i] = todo[i + 1]
  BY HeadTailProperties
<1> QED BY <1>1 DEF CheckedFirst

LEMMA ConcatCheckedFirst ==
  ASSUME NEW S, NEW more \in Seq(S), NEW rest \in Seq(S),
         CheckedFirst(more), NoneChecked(rest)
  PROVE  /\ CheckedFirst(more \o rest)
         /\ \A c \in Checked :
              more \o rest # <<>> /\ Head(more \o rest).do = c =>
                more # <<>> /\ Head(more \o rest) = more[1]
<1> DEFINE all == more \o rest
<1>1. /\ all \in Seq(S) /\ Len(all) = Len(more) + Len(rest)
      /\ Len(more) \in Nat /\ Len(rest) \in Nat
      /\ \A i \in 1 .. Len(more) : all[i] = more[i]
      /\ \A i \in Len(more) + 1 .. Len(all) : all[i] = rest[i - Len(more)]
  BY ConcatProperties
<1>2. ASSUME NEW i \in DOMAIN all, all[i].do \in Checked PROVE i \in 1 .. Len(more)
  <2>1. i \in 1 .. Len(all)
    BY <1>1
  <2>2. SUFFICES ASSUME i \in Len(more) + 1 .. Len(all) PROVE FALSE
    BY <1>1, <2>1
  <2>3. i - Len(more) \in DOMAIN rest /\ all[i] = rest[i - Len(more)]
    BY <1>1, <2>2
  <2> QED BY <1>2, <2>3 DEF NoneChecked
<1>3. CheckedFirst(all)
  <2> SUFFICES ASSUME NEW i \in DOMAIN all, all[i].do \in Checked PROVE i = 1
    BY DEF CheckedFirst
  <2>1. i \in DOMAIN more /\ all[i] = more[i]
    BY <1>1, <1>2
  <2> QED BY <2>1 DEF CheckedFirst
<1>4. ASSUME NEW c \in Checked, all # <<>>, Head(all).do = c
      PROVE  more # <<>> /\ Head(all) = more[1]
  <2>1. 1 \in DOMAIN all /\ Head(all) = all[1]
    BY <1>1, <1>4
  <2>2. 1 \in 1 .. Len(more)
    BY <1>2, <1>4, <2>1
  <2> QED BY <1>1, <2>1, <2>2
<1> QED BY <1>3, <1>4

\* The scripts of cancel, force and the end of a turn contain no checked statement,
\* the script of a send only its first.
LEMMA ScriptsChecked ==
  ASSUME NEW r \in Nat
  PROVE  /\ CheckedFirst(StartScript(r)) /\ StartScript(r)[1] = DoOn("start", r)
         /\ NoneChecked(CancelScript(r))
         /\ NoneChecked(ExpireScript(r))
         /\ \A s \in Terminal : NoneChecked(EndScript(r, s))
<1>1. CheckedFirst(StartScript(r)) /\ StartScript(r)[1] = DoOn("start", r)
  BY DEF CheckedFirst, StartScript, DoOn, DoWith, Checked
<1>2. NoneChecked(CancelScript(r))
  BY DEF NoneChecked, CancelScript, DoWith, Checked
<1>3. NoneChecked(ExpireScript(r))
  BY DEF NoneChecked, ExpireScript, DoWith, Checked
<1>4. ASSUME NEW s \in Terminal PROVE NoneChecked(EndScript(r, s))
  BY DEF NoneChecked, EndScript, DoWith, DoOn, Checked
<1> QED BY <1>1, <1>2, <1>3, <1>4

LEMMA NoneCheckedFirst == \A todo : NoneChecked(todo) => CheckedFirst(todo)
BY DEF NoneChecked, CheckedFirst

\* What a process can be at after a statement.
LEMMA ContinueChecked ==
  ASSUME NEW n \in Nat, seg \in [Process -> Segment(n)],
         NEW p \in Process, seg[p].todo # <<>>, CheckedFirst(seg[p].todo),
         NEW more \in Seq(StatementOver(n)), CheckedFirst(more), Continue(p, more)
  PROVE  /\ CheckedFirst(seg'[p].todo)
         /\ \A c \in Checked :
              At(p, c)' => more # <<>> /\ Cur(p)' = more[1]
<1> DEFINE rest == Tail(seg[p].todo)
<1>1. seg[p].todo \in Seq(StatementOver(n)) /\ rest \in Seq(StatementOver(n))
  BY CurType DEF Segment
<1>2. NoneChecked(rest)
  BY <1>1, TailNoneChecked
<1>3. seg'[p].todo = more \o rest
  BY DEF Continue, Idle
<1> HIDE DEF rest
<1> QED BY <1>1, <1>2, <1>3, ConcatCheckedFirst DEF At, Cur

-----------------------------------------------------------------------------
(* One process: a segment runs without anything else in between. *)

OneProcess == \A p, q \in Process : p = q

LEMMA ChecksAfterContinue ==
  ASSUME OneProcess, TypeOK, ChecksHold, NEW n \in Nat, Len(runs) <= n,
         NEW p \in Process, seg[p].todo # <<>>,
         NEW more \in Seq(StatementOver(n)), CheckedFirst(more), Continue(p, more),
         more # <<>> =>
           /\ more[1].do \in {"start", "get_active"} => more[1].r = agent'.active
           /\ more[1].do \in {"count", "insert_run"} => agent'.active = NoRun
  PROVE  ChecksHold'
<1>1. seg \in [Process -> Segment(n)]
  BY SegmentMonotone DEF TypeOK
<1>2. CheckedFirst(seg[p].todo)
  BY DEF ChecksHold, CheckedFirst
<1>3. /\ CheckedFirst(seg'[p].todo)
      /\ \A c \in Checked : At(p, c)' => more # <<>> /\ Cur(p)' = more[1]
  BY <1>1, <1>2, ContinueChecked
<1>4. \A c \in Checked : At(p, c)' => Cur(p)'.do = c
  BY DEF At, Cur
<1>5. /\ At(p, "start")' \/ At(p, "get_active")' => Cur(p)'.r = agent'.active
      /\ At(p, "count")' \/ At(p, "insert_run")' => agent'.active = NoRun
  BY <1>3, <1>4 DEF Checked
<1>6. \A i \in DOMAIN seg'[p].todo : seg'[p].todo[i].do \in Checked => i = 1
  BY <1>3 DEF CheckedFirst
<1>7. \A q \in Process : q = p
  BY DEF OneProcess
<1> QED BY <1>5, <1>6, <1>7 DEF ChecksHold

\* The same for a statement that creates no run.
LEMMA ChecksAfterStatement ==
  ASSUME OneProcess, TypeOK, ChecksHold,
         NEW p \in Process, seg[p].todo # <<>>,
         NEW more \in Seq(StatementOver(Len(runs))), CheckedFirst(more), Continue(p, more),
         more # <<>> =>
           /\ more[1].do \in {"start", "get_active"} => more[1].r = agent'.active
           /\ more[1].do \in {"count", "insert_run"} => agent'.active = NoRun
  PROVE  ChecksHold'
<1>1. Len(runs) \in Nat /\ Len(runs) <= Len(runs)
  BY DEF TypeOK
<1> QED BY <1>1, ChecksAfterContinue

\* The same for a statement that reads.
LEMMA ReadActive ==
  ASSUME OneProcess, TypeOK, ActiveRunInv, UNCHANGED <<agent, runs, pending>>,
         NEW p \in Process, seg[p].todo # <<>>,
         NEW more \in Seq(StatementOver(Len(runs))), CheckedFirst(more), Continue(p, more),
         more # <<>> =>
           /\ more[1].do \in {"start", "get_active"} => more[1].r = agent.active
           /\ more[1].do \in {"count", "insert_run"} => agent.active = NoRun
  PROVE  ActiveRunInv'
<1>1. ChecksHold'
  BY ChecksAfterContinue DEF ActiveRunInv, TypeOK
<1>2. ActiveIsNewestLive' /\ PendingIsActive'
  BY DEF ActiveRunInv, ActiveIsNewestLive, PendingIsActive, Live
<1> QED BY <1>1, <1>2 DEF ActiveRunInv

\* A segment that begins or is left.
LEMMA OtherSegmentActive ==
  ASSUME OneProcess, TypeOK', ActiveRunInv, UNCHANGED runs,
         agent'.active = agent.active, NEW p \in Process,
         \A h \in Handle : pending'[h] \in {NoRun, pending[h]},
         NoneChecked(seg'[p].todo)
  PROVE  ActiveRunInv'
<1>1. \A c \in Checked : ~At(p, c)'
  <2> SUFFICES ASSUME NEW c \in Checked, At(p, c)' PROVE FALSE
    OBVIOUS
  <2>1. seg'[p].todo \in Seq(StatementOver(Len(runs'))) /\ seg'[p].todo # <<>>
    BY DEF TypeOK, Segment, At
  <2>2. 1 \in DOMAIN seg'[p].todo /\ Head(seg'[p].todo) = seg'[p].todo[1]
    BY <2>1
  <2> QED BY <2>2 DEF At, NoneChecked
<1>2. \A q \in Process : q = p
  BY DEF OneProcess
<1>3. ChecksHold'
  BY <1>1, <1>2 DEF ChecksHold, NoneChecked, Checked
<1>4. ActiveIsNewestLive'
  BY DEF ActiveRunInv, ActiveIsNewestLive, Live
<1>5. PendingIsActive'
  BY DEF ActiveRunInv, PendingIsActive
<1> QED BY <1>3, <1>4, <1>5 DEF ActiveRunInv

LEMMA InitActive == Init => ActiveRunInv
<1> SUFFICES ASSUME Init PROVE ActiveRunInv
  OBVIOUS
<1>1. ActiveIsNewestLive
  BY DEF Init, ActiveIsNewestLive, Live, Terminal
<1>2. PendingIsActive
  BY DEF Init, PendingIsActive, NoRun
<1>3. ASSUME NEW p \in Process PROVE seg[p].todo = <<>>
  BY DEF Init, Idle
<1>4. ChecksHold
  <2> SUFFICES ASSUME NEW p \in Process
               PROVE  /\ DOMAIN seg[p].todo = {}
                      /\ \A c : ~At(p, c)
    BY DEF ChecksHold
  <2> QED BY <1>3 DEF At
<1> QED BY <1>1, <1>2, <1>4 DEF ActiveRunInv

LEMMA ClientActive ==
  ASSUME OneProcess, TypeOK, TypeOK', ActiveRunInv, Client PROVE ActiveRunInv'
<1>0. \A p, q \in Process : p = q
  BY DEF OneProcess
<1>s. seg \in [Process -> Segment(Len(runs))]
  BY DEF TypeOK
<1>1. CASE \E h \in Handle : Resume(h) \/ Close(h)
  <2> PICK h \in Handle : Resume(h) \/ Close(h)
    BY <1>1
  <2>1. ProcOf[h] \in Process
    BY ConstantsAssumption
  <2>2. /\ UNCHANGED <<agent, runs, seg>>
        /\ \A g \in Handle : pending'[g] \in {NoRun, pending[g]}
    BY DEF Resume, Close, TypeOK
  <2>3. NoneChecked(seg'[ProcOf[h]].todo)
    BY DEF Resume, Close, IsIdle, NoneChecked
  <2> QED BY <2>1, <2>2, <2>3, OtherSegmentActive
<1>2. CASE \E h \in Handle, force \in BOOLEAN : Send(h, force)
  <2> PICK h \in Handle, force \in BOOLEAN : Send(h, force)
    BY <1>2
  <2>1. ProcOf[h] \in Process
    BY ConstantsAssumption
  <2>2. seg'[ProcOf[h]].todo \in {<<Do("expire"), Do("choose")>>, <<Do("choose")>>}
    BY <2>1, <1>s DEF Send, Begin
  <2>3. NoneChecked(seg'[ProcOf[h]].todo)
    BY <2>2 DEF NoneChecked, Do, Checked
  <2> QED BY <2>1, <2>3, OtherSegmentActive DEF Send
<1>3. CASE \E p \in Process : Crash(p)
  <2> PICK p \in Process : Crash(p)
    BY <1>3
  <2>1. NoneChecked(seg'[p].todo)
    BY <1>s DEF Crash, Idle, NoneChecked
  <2> QED BY <2>1, OtherSegmentActive DEF Crash
<1>4. CASE \E p \in Process, r \in DOMAIN runs : Cancel(p, r)
  <2> PICK p \in Process, r \in DOMAIN runs : Cancel(p, r)
    BY <1>4
  <2>1. seg'[p].todo = <<DoOn("find", r)>>
    BY <1>s DEF Cancel, Begin
  <2>2. NoneChecked(seg'[p].todo)
    BY <2>1 DEF NoneChecked, DoOn, Checked
  <2> QED BY <2>2, OtherSegmentActive DEF Cancel
<1>5. CASE \E p \in Process, status \in {"ARCHIVED", "IDLE"} : SetAgentStatus(p, status)
  <2> PICK p \in Process, status \in {"ARCHIVED", "IDLE"} : SetAgentStatus(p, status)
    BY <1>5
  <2>1. NoneChecked(seg'[p].todo)
    BY DEF SetAgentStatus, IsIdle, NoneChecked
  <2>2. agent'.active = agent.active
    BY DEF SetAgentStatus, TypeOK
  <2> QED BY <2>1, <2>2, OtherSegmentActive DEF SetAgentStatus
<1> QED BY <1>1, <1>2, <1>3, <1>4, <1>5 DEF Client

LEMMA ExecutorActive ==
  ASSUME OneProcess, TypeOK, TypeOK', ActiveRunInv, NEW r \in DOMAIN exec, Executor(r)
  PROVE  ActiveRunInv'
<1> DEFINE p == ProcOfRun(r)
<1>1. exec \in Seq([phase : Phase, h : Handle]) /\ r \in 1 .. Len(exec) /\ r \in Nat
  BY DEF TypeOK
<1>2. p \in Process
  <2>1. exec[r] \in [phase : Phase, h : Handle]
    BY <1>1, ElementOfSeq
  <2> QED BY <2>1, ConstantsAssumption DEF ProcOfRun
<1>s. seg \in [Process -> Segment(Len(runs))]
  BY DEF TypeOK
<1>3. UNCHANGED <<agent, runs, pending>>
  BY DEF Executor, Startup, StartupDone, StartupFails, Emit, TurnStops, TurnEnds,
         EndTurn, StreamFails, StreamAborted, RunFails, Turns
<1>4. NoneChecked(seg'[p].todo)
  <2>1. CASE UNCHANGED seg /\ IsIdle(p)
    BY <2>1 DEF IsIdle, NoneChecked
  <2>2. CASE seg'[p].todo = <<DoWith("append", r, "progress")>>
    BY <2>2 DEF NoneChecked, DoWith, Checked
  <2>3. CASE \E s \in Terminal : seg'[p].todo = EndScript(r, s)
    BY <2>3, <1>1, ScriptsChecked
  <2>4. \/ UNCHANGED seg /\ IsIdle(p)
        \/ seg'[p].todo = <<DoWith("append", r, "progress")>>
        \/ \E s \in Terminal : seg'[p].todo = EndScript(r, s)
    BY <1>2, <1>s
       DEF Executor, Startup, StartupDone, StartupFails, Emit, TurnStops, TurnEnds, EndTurn,
           StreamFails, StreamAborted, RunFails, Turns, Begin, Terminal
  <2> QED BY <2>1, <2>2, <2>3, <2>4
<1> QED BY <1>2, <1>3, <1>4, OtherSegmentActive

\* A statement that is followed by statements without a check, and that leaves the
\* agent, the runs and the pending runs alone.
LEMMA PlainActive ==
  ASSUME OneProcess, TypeOK, ActiveRunInv, UNCHANGED <<agent, runs, pending>>,
         NEW p \in Process, seg[p].todo # <<>>,
         NEW more \in Seq(StatementOver(Len(runs))), NoneChecked(more), Continue(p, more)
  PROVE  ActiveRunInv'
<1>1. more # <<>> => more[1].do \notin Checked
  BY DEF NoneChecked
<1>2. CheckedFirst(more)
  BY NoneCheckedFirst
<1> QED BY <1>1, <1>2, ReadActive DEF Checked

LEMMA StepActive ==
  ASSUME OneProcess, TypeOK, TypeOK', ActiveRunInv, NEW p \in Process, Step(p)
  PROVE  ActiveRunInv'
<1> DEFINE n == Len(runs)
           cur == Cur(p)
<1>n. /\ n \in Nat
      /\ seg \in [Process -> Segment(n)]
      /\ runs \in Seq([status : RunStatus, turn : Nat])
      /\ agent \in [status : AgentStatus, active : 0 .. n]
      /\ pending \in [Handle -> 0 .. n]
      /\ seg[p].h \in Handle
      /\ Len(log) = n
      /\ log \in Seq(Seq(Event))
  BY DEF TypeOK, Segment
<1>a. agent.active # NoRun => agent.active \in 1 .. n
  BY <1>n DEF NoRun
<1>t. seg[p].todo # <<>>
  BY DEF Step, At, ExpireReadAgent, ExpireReadRun, ChooseRun, FollowUpReadAgent,
         FollowUpReadActive, FollowUpCount, FollowUpInsert, MarkRunStarting,
         MarkRunTerminal, ReadMaxSeq, InsertEvent, InsertEventConflict,
         CancelFindRun, Drive, DriveFails, ExecutorReturns
<1>c. cur \in StatementOver(n)
  BY <1>n, <1>t, CurType
<1>r. cur.do \in {"expire_run", "get_active", "start", "append", "insert_event",
                 "drive", "find", "mark", "stop"} => cur.r \in 1 .. n
  BY <1>c DEF StatementOver
<1>e. <<>> \in Seq(StatementOver(n)) /\ NoneChecked(<<>>) /\ CheckedFirst(<<>>)
  BY EmptySeq DEF NoneChecked, CheckedFirst
<1>l. UNCHANGED <<agent, runs, pending>> /\ Leave(p) => ActiveRunInv'
  <2> SUFFICES ASSUME UNCHANGED <<agent, runs, pending>>, Leave(p) PROVE ActiveRunInv'
    OBVIOUS
  <2>1. seg'[p].todo = <<>>
    BY <1>n DEF Leave, Idle
  <2> QED BY <1>e, <2>1, OtherSegmentActive
<1>i. ActiveIsNewestLive /\ PendingIsActive /\ ChecksHold
  BY DEF ActiveRunInv
<1> HIDE DEF n, cur
<1>1. CASE ExpireReadAgent(p)
  <2>1. <<DoOn("expire_run", agent.active)>> \in Seq(StatementOver(n)) \/ agent.active = NoRun
    BY <1>n, <1>a, DoOnType
  <2>2. NoneChecked(<<DoOn("expire_run", agent.active)>>)
    BY DEF NoneChecked, DoOn, Checked
  <2> QED BY <1>1, <1>t, <1>e, <2>1, <2>2, PlainActive DEF ExpireReadAgent, n
<1>2. CASE ExpireReadRun(p)
  <2>1. cur.r \in 1 .. n /\ cur.r \in Nat
    BY <1>2, <1>r, <1>n DEF ExpireReadRun, At, Cur, cur
  <2>2. ExpireScript(cur.r) \in Seq(StatementOver(n)) /\ NoneChecked(ExpireScript(cur.r))
    BY <1>n, <2>1, ScriptTypes, ScriptsChecked
  <2> QED BY <1>2, <1>t, <1>e, <2>2, PlainActive DEF ExpireReadRun, n, cur
<1>3. CASE ChooseRun(p)
  <2> DEFINE h == seg[p].h
             w == pending[h]
  <2>1. PendingIsActive' /\ ActiveIsNewestLive'
    BY <1>3, <1>n, <1>i DEF ChooseRun, PendingIsActive, ActiveIsNewestLive, Live
  <2>2. CASE w # NoRun /\ runs[w].status = "QUEUED"
    <3>1. w = agent.active /\ w \in 1 .. n /\ w \in Nat
      BY <2>2, <1>n, <1>i DEF PendingIsActive, NoRun
    <3>2. StartScript(w) \in Seq(StatementOver(n))
      BY <1>n, <3>1, ScriptTypes
    <3>3. CheckedFirst(StartScript(w)) /\ StartScript(w)[1] = DoOn("start", w)
      BY <3>1, ScriptsChecked
    <3>4. Continue(p, StartScript(w)) /\ agent' = agent
      BY <1>3, <2>2 DEF ChooseRun
    <3>5. ChecksHold'
      <4> DEFINE s == StartScript(w)
      <4>1. s[1].do = "start" /\ s[1].r = agent'.active
        BY <3>1, <3>3, <3>4 DEF DoOn
      <4> HIDE DEF s
      <4> QED BY <1>t, <1>i, <4>1, <3>2, <3>3, <3>4, ChecksAfterStatement DEF n, s
    <3> QED BY <2>1, <3>5 DEF ActiveRunInv
  <2>3. CASE ~(w # NoRun /\ runs[w].status = "QUEUED")
    <3>1. <<Do("get_agent")>> \in Seq(StatementOver(n))
      BY <1>n, DoType
    <3>2. CheckedFirst(<<Do("get_agent")>>) /\ <<Do("get_agent")>>[1].do = "get_agent"
      BY DEF CheckedFirst, Do, Checked
    <3>3. Continue(p, <<Do("get_agent")>>)
      BY <1>3, <2>3 DEF ChooseRun
    <3>4. ChecksHold'
      BY <1>t, <1>i, <3>1, <3>2, <3>3, ChecksAfterStatement DEF n
    <3> QED BY <2>1, <3>4 DEF ActiveRunInv
  <2> QED BY <2>2, <2>3
<1>4. CASE FollowUpReadAgent(p)
  <2>1. CASE agent.status = "ARCHIVED"
    BY <1>4, <1>l, <2>1 DEF FollowUpReadAgent
  <2>2. CASE agent.status # "ARCHIVED" /\ agent.active = NoRun
    <3>1. <<Do("count")>> \in Seq(StatementOver(n))
      BY <1>n, DoType
    <3>2. CheckedFirst(<<Do("count")>>) /\ <<Do("count")>>[1].do = "count"
      BY DEF CheckedFirst, Do
    <3> QED BY <1>4, <1>t, <2>2, <3>1, <3>2, ReadActive DEF FollowUpReadAgent, n
  <2>3. CASE agent.status # "ARCHIVED" /\ agent.active # NoRun
    <3>1. <<DoOn("get_active", agent.active)>> \in Seq(StatementOver(n))
      BY <1>n, <1>a, <2>3, DoOnType
    <3>2. /\ CheckedFirst(<<DoOn("get_active", agent.active)>>)
          /\ <<DoOn("get_active", agent.active)>>[1].do = "get_active"
          /\ <<DoOn("get_active", agent.active)>>[1].r = agent.active
      BY DEF CheckedFirst, DoOn
    <3> QED BY <1>4, <1>t, <2>3, <3>1, <3>2, ReadActive DEF FollowUpReadAgent, n
  <2> QED BY <2>1, <2>2, <2>3
<1>5. CASE FollowUpReadActive(p)
  <2>1. cur.r = agent.active /\ cur.r \in 1 .. n
    BY <1>5, <1>i, <1>r DEF FollowUpReadActive, ChecksHold, At, Cur, cur
  <2>2. Live(cur.r)
    BY <2>1, <1>i, <1>n DEF ActiveIsNewestLive, NoRun
  <2> QED BY <1>5, <1>l, <2>2 DEF FollowUpReadActive, cur
<1>6. CASE FollowUpCount(p)
  <2> DEFINE s == [Do("insert_run") EXCEPT !.n = n]
  <2>1. s.do = "insert_run"
    BY DEF Do
  <2>2. s \in StatementOver(n)
    BY <1>n, InsertRunType
  <2>3. agent.active = NoRun
    BY <1>6, <1>i DEF FollowUpCount, ChecksHold
  <2>4. Leave(p) \/ Continue(p, <<s>>)
    BY <1>6 DEF FollowUpCount, n
  <2> HIDE DEF s
  <2>5. <<s>> \in Seq(StatementOver(n)) /\ CheckedFirst(<<s>>) /\ <<s>>[1] = s
    BY <2>2 DEF CheckedFirst
  <2> QED BY <1>6, <1>l, <1>t, <2>1, <2>3, <2>4, <2>5, ReadActive DEF FollowUpCount, n
<1>7. CASE FollowUpInsert(p)
  <2> DEFINE r == n + 1
  <2>1. r \in Nat /\ n <= r /\ r \in 1 .. r
    BY <1>n
  <2>2. agent.active = NoRun
    BY <1>7, <1>i DEF FollowUpInsert, ChecksHold
  <2>3. /\ agent'.active = r /\ Len(runs') = r /\ runs'[r].status = "QUEUED"
        /\ \A s \in 1 .. n : runs'[s] = runs[s]
    BY <1>7, <1>n DEF FollowUpInsert, n
  <2>4. ActiveIsNewestLive'
    BY <2>3 DEF ActiveIsNewestLive, Live, Terminal
  <2>5. PendingIsActive'
    <3> SUFFICES ASSUME NEW h \in Handle, pending[h] # NoRun,
                        runs'[pending[h]].status = "QUEUED"
                 PROVE  FALSE
      BY <1>7, <1>i DEF FollowUpInsert, PendingIsActive
    <3>1. pending[h] \in 1 .. n
      BY <1>n DEF NoRun
    <3> QED BY <3>1, <2>2, <2>3, <1>i DEF PendingIsActive
  <2>6. StartScript(r) \in Seq(StatementOver(r))
    BY <2>1, ScriptTypes
  <2>7. CheckedFirst(StartScript(r)) /\ StartScript(r)[1] = DoOn("start", r)
    BY <2>1, ScriptsChecked
  <2>8. Continue(p, StartScript(r))
    BY <1>7 DEF FollowUpInsert, n
  <2>9. ChecksHold'
    BY <1>t, <1>i, <2>1, <2>3, <2>6, <2>7, <2>8, ChecksAfterContinue DEF DoOn, n
  <2> QED BY <2>4, <2>5, <2>9 DEF ActiveRunInv
<1>8. CASE MarkRunStarting(p)
  <2>1. cur.r = agent.active /\ cur.r \in 1 .. n
    BY <1>8, <1>i, <1>r DEF MarkRunStarting, ChecksHold, At, Cur, cur
  <2>2. /\ agent'.active = cur.r /\ Len(runs') = n /\ runs'[cur.r].status = "RUNNING"
        /\ \A s \in 1 .. n : s # cur.r => runs'[s] = runs[s]
    <3>1. runs' = [runs EXCEPT ![cur.r] = [runs[cur.r] EXCEPT !.status = "RUNNING"]]
      BY <1>8 DEF MarkRunStarting, cur
    <3>2. runs[cur.r] \in [status : RunStatus, turn : Nat]
      BY <1>n, <2>1, ElementOfSeq DEF n
    <3>3. [runs[cur.r] EXCEPT !.status = "RUNNING"].status = "RUNNING"
      BY <3>2
    <3>4. agent'.active = cur.r
      BY <1>8 DEF MarkRunStarting, cur
    <3> HIDE DEF n
    <3> QED BY <3>1, <3>3, <3>4, <2>1, <1>n DEF n
  <2>3. cur.r = n
    BY <2>1, <1>i DEF ActiveIsNewestLive, NoRun, n
  <2>4. ActiveIsNewestLive'
    BY <2>2, <2>3 DEF ActiveIsNewestLive, Live, Terminal
  <2>5. PendingIsActive'
    <3> SUFFICES ASSUME NEW h \in Handle, pending[h] # NoRun,
                        runs'[pending[h]].status = "QUEUED"
                 PROVE  FALSE
      BY <1>8, <1>i DEF MarkRunStarting, PendingIsActive
    <3>1. pending[h] \in 1 .. n
      BY <1>n DEF NoRun
    <3> QED BY <3>1, <2>1, <2>2, <1>i DEF PendingIsActive
  <2>6. ChecksHold'
    BY <1>8, <1>e, <1>t, <1>i, ChecksAfterStatement DEF MarkRunStarting, n
  <2> QED BY <2>4, <2>5, <2>6 DEF ActiveRunInv
<1>9. CASE MarkRunTerminal(p)
  <2>1. cur.r \in 1 .. n /\ cur.arg \in Terminal
    BY <1>9, <1>r, <1>c DEF MarkRunTerminal, At, Cur, cur, StatementOver
  <2>2. /\ agent'.active = NoRun /\ runs'[cur.r].status \in Terminal
        /\ \A s \in 1 .. n : s # cur.r => runs'[s] = runs[s]
    <3>1. runs' = [runs EXCEPT ![cur.r] = [runs[cur.r] EXCEPT !.status = cur.arg]]
      BY <1>9 DEF MarkRunTerminal, cur
    <3>2. runs[cur.r] \in [status : RunStatus, turn : Nat]
      BY <1>n, <2>1, ElementOfSeq DEF n
    <3>3. [runs[cur.r] EXCEPT !.status = cur.arg].status = cur.arg
      BY <3>2
    <3>4. agent'.active = NoRun
      BY <1>9 DEF MarkRunTerminal
    <3> QED BY <3>1, <3>3, <3>4, <2>1, <1>n DEF n
  <2>3. ActiveIsNewestLive'
    BY <2>2 DEF ActiveIsNewestLive
  <2>4. PendingIsActive'
    <3> SUFFICES ASSUME NEW h \in Handle, pending[h] # NoRun,
                        runs'[pending[h]].status = "QUEUED"
                 PROVE  FALSE
      BY <1>9, <1>i DEF MarkRunTerminal, PendingIsActive
    <3>1. pending[h] = 1 /\ 1 \in 1 .. n
      BY <1>n, <1>i DEF NoRun, PendingIsActive
    <3>2. cur.r # 1
      BY <3>1, <2>2 DEF Terminal
    <3>3. agent.active = 1
      BY <3>1, <3>2, <2>2, <1>i DEF PendingIsActive
    <3>4. n = 1
      BY <3>3, <1>i DEF ActiveIsNewestLive, NoRun, n
    <3> QED BY <3>2, <3>4, <2>1
  <2>5. ChecksHold'
    BY <1>9, <1>e, <1>t, <1>i, ChecksAfterStatement DEF MarkRunTerminal, n
  <2> QED BY <2>3, <2>4, <2>5 DEF ActiveRunInv
<1>10. CASE ReadMaxSeq(p)
  <2> DEFINE s == [cur EXCEPT !.do = "insert_event", !.n = Len(log[cur.r])]
  <2>1. cur.do = "append" /\ cur.r \in 1 .. n /\ cur.arg \in Event
    BY <1>10, <1>r, <1>c DEF ReadMaxSeq, At, Cur, cur, StatementOver
  <2>2. Len(log[cur.r]) \in Nat
    BY <1>n, <2>1, ElementOfSeq
  <2>3. s \in StatementOver(n) /\ s.do = "insert_event"
    BY <1>c, <2>1, <2>2 DEF StatementOver, Statement, Verb
  <2>4. Continue(p, <<s>>)
    BY <1>10 DEF ReadMaxSeq, cur
  <2> HIDE DEF s
  <2>5. <<s>> \in Seq(StatementOver(n)) /\ NoneChecked(<<s>>)
    BY <2>3 DEF NoneChecked, Checked
  <2> QED BY <1>10, <1>t, <2>4, <2>5, PlainActive DEF ReadMaxSeq, n
<1>11. CASE InsertEvent(p)
  BY <1>11, <1>e, <1>t, PlainActive DEF InsertEvent, n
<1>12. CASE InsertEventConflict(p)
  BY <1>12, <1>l DEF InsertEventConflict
<1>13. CASE CancelFindRun(p)
  <2>1. cur.r \in 1 .. n /\ cur.r \in Nat
    BY <1>13, <1>r, <1>n DEF CancelFindRun, At, Cur, cur
  <2>2. CancelScript(cur.r) \in Seq(StatementOver(n)) /\ NoneChecked(CancelScript(cur.r))
    BY <1>n, <2>1, ScriptTypes, ScriptsChecked
  <2> QED BY <1>13, <1>t, <1>e, <2>2, PlainActive DEF CancelFindRun, n, cur
<1>14. CASE Drive(p)
  BY <1>14, <1>e, <1>t, PlainActive DEF Drive, n
<1>15. CASE ExecutorReturns(p)
  BY <1>15, <1>e, <1>t, PlainActive DEF ExecutorReturns, n
<1>16. CASE DriveFails(p)
  BY <1>16, <1>l DEF DriveFails
<1> QED BY <1>1, <1>2, <1>3, <1>4, <1>5, <1>6, <1>7, <1>8, <1>9, <1>10, <1>11,
           <1>12, <1>13, <1>14, <1>15, <1>16 DEF Step

\* In one process, with any number of handles and whatever the clients do, the run
\* that active_run_id names is the newest one and has not ended.
THEOREM ActiveRunCorrect ==
  ASSUME OneProcess
  PROVE  Spec => []ActiveRunInv
<1>1. TypeOK /\ TypeOK' /\ ActiveRunInv /\ [Next]_vars => ActiveRunInv'
  <2>1. ActiveRunInv /\ UNCHANGED vars => ActiveRunInv'
    BY DEF ActiveRunInv, ActiveIsNewestLive, PendingIsActive, ChecksHold, Live, At, Cur, vars
  <2> QED BY <2>1, StepActive, ClientActive, ExecutorActive DEF Next
<1> QED BY <1>1, InitActive, TypeCorrect, PTL DEF Spec

THEOREM ActiveNewestLiveCorrect ==
  ASSUME OneProcess
  PROVE  Spec => []ActiveIsNewestLive
<1>1. ActiveRunInv => ActiveIsNewestLive
  BY DEF ActiveRunInv
<1> QED BY <1>1, ActiveRunCorrect, PTL

-----------------------------------------------------------------------------
(* Any number of processes. *)

\* What a change of one run's status leaves.
LEMMA StatusOfRun ==
  ASSUME TypeOK, NEW r \in 1 .. Len(runs), NEW to \in RunStatus,
         runs' = [runs EXCEPT ![r].status = to]
  PROVE  DOMAIN runs' = DOMAIN runs /\ runs'[r].status = to
<1>1. runs' = [runs EXCEPT ![r] = [runs[r] EXCEPT !.status = to]]
  OBVIOUS
<1>2. runs \in Seq([status : RunStatus, turn : Nat])
  BY DEF TypeOK
<1>3. runs[r] \in [status : RunStatus, turn : Nat]
  BY <1>2, ElementOfSeq
<1>4. [runs[r] EXCEPT !.status = to].status = to
  BY <1>3
<1> QED BY <1>1, <1>2, <1>4

LEMMA StepRunning ==
  ASSUME TypeOK, RunningAgentHasRunningRun, NEW p \in Process, Step(p)
  PROVE  RunningAgentHasRunningRun'
<1>1. CASE UNCHANGED <<agent, runs>>
  BY <1>1 DEF RunningAgentHasRunningRun
<1>2. CASE FollowUpInsert(p)
  BY <1>2 DEF FollowUpInsert, RunningAgentHasRunningRun
<1>3. CASE MarkRunStarting(p)
  <2> DEFINE r == Cur(p).r
  <2>1. r \in 1 .. Len(runs)
    <3>1. /\ Len(runs) \in Nat /\ seg \in [Process -> Segment(Len(runs))]
          /\ seg[p].todo # <<>> /\ Cur(p).do = "start"
      BY <1>3 DEF MarkRunStarting, At, Cur, TypeOK
    <3>2. Cur(p) \in StatementOver(Len(runs))
      BY <3>1, CurType
    <3> QED BY <3>1, <3>2 DEF StatementOver
  <2>2. runs' = [runs EXCEPT ![r].status = "RUNNING"] /\ agent'.active = r
    BY <1>3 DEF MarkRunStarting
  <2> HIDE DEF r
  <2>3. DOMAIN runs' = DOMAIN runs /\ runs'[r].status = "RUNNING"
    BY <2>1, <2>2, StatusOfRun DEF RunStatus
  <2>4. r \in DOMAIN runs
    BY <2>1 DEF TypeOK
  <2> QED BY <2>2, <2>3, <2>4 DEF RunningAgentHasRunningRun
<1>4. CASE MarkRunTerminal(p)
  BY <1>4 DEF MarkRunTerminal, IdleUnlessArchived, RunningAgentHasRunningRun
<1> QED BY <1>1, <1>2, <1>3, <1>4
        DEF Step, ExpireReadAgent, ExpireReadRun, ChooseRun, FollowUpReadAgent,
            FollowUpReadActive, FollowUpCount, ReadMaxSeq, InsertEvent,
            InsertEventConflict, CancelFindRun, Drive, DriveFails, ExecutorReturns

\* However the sends, cancels, archivings and executors of any number of processes
\* interleave, an agent shown as RUNNING names a run that is RUNNING.
THEOREM RunningAgentCorrect == Spec => []RunningAgentHasRunningRun
<1>1. Init => RunningAgentHasRunningRun
  BY DEF Init, RunningAgentHasRunningRun
<1>2. TypeOK /\ RunningAgentHasRunningRun /\ [Next]_vars => RunningAgentHasRunningRun'
  <2> SUFFICES ASSUME TypeOK, RunningAgentHasRunningRun, [Next]_vars
               PROVE  RunningAgentHasRunningRun'
    OBVIOUS
  <2>1. CASE UNCHANGED <<agent, runs>>
    BY <2>1 DEF RunningAgentHasRunningRun
  <2>2. CASE \E p \in Process, status \in {"ARCHIVED", "IDLE"} : SetAgentStatus(p, status)
    BY <2>2 DEF SetAgentStatus, RunningAgentHasRunningRun, TypeOK
  <2>3. CASE \E p \in Process : Step(p)
    BY <2>3, StepRunning
  <2>4. UNCHANGED vars => UNCHANGED <<agent, runs>>
    BY DEF vars
  <2>5. \A r \in DOMAIN exec : Executor(r) => UNCHANGED <<agent, runs>>
    BY DEF Executor, Startup, StartupDone, StartupFails, Emit, TurnStops, TurnEnds,
           EndTurn, StreamFails, StreamAborted, RunFails, Turns
  <2> QED BY <2>1, <2>2, <2>3, <2>4, <2>5
          DEF Next, Client, Resume, Close, Send, Crash, Cancel
<1> QED BY <1>1, <1>2, TypeCorrect, PTL DEF Spec

=============================================================================
