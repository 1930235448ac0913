---------------------------- MODULE Turns_proofs ----------------------------
(***************************************************************************)
(* Theorems about LocalRuntime in one process, where a segment runs without *)
(* anything else in between: verdicts stay, a forced send is not refused,   *)
(* the log of a run agrees with its row, and, without forced sends and      *)
(* cancels, the agent takes one turn at a time.                             *)
(***************************************************************************)
EXTENDS LocalRuntime_proofs

-----------------------------------------------------------------------------
(* The order of the statements of a segment. *)

Writes == {"append", "insert_event"}
IsVerdict(s) == s.do \in Writes /\ s.arg \in Terminal

\* The statements that are never followed by a part of their segment that was
\* decided before them.
Alone == {"get_agent", "get_active", "count", "insert_run", "find"}

\* What comes after statement i of the statements t, and before it.
ShapedAt(t, i) ==
  /\ t[i].do \in {"insert_event", "start"} \cup Alone => i = 1
  /\ t[i].do \in Alone => Len(t) = 1
  /\ t[i].do \in {"expire", "expire_run"} => Len(t) = 2 /\ i = 1 /\ t[2].do = "choose"
  /\ t[i].do = "choose" => i = Len(t)
  /\ t[i].do = "start" => Final(t).do = "drive"
  /\ t[i].do = "drive" =>
       /\ i = Len(t)
       /\ \A j \in 1 .. i - 1 :
            t[j].do \in Writes \cup {"start"} /\ t[j].r = t[i].r /\ ~IsVerdict(t[j])
  /\ t[i].do = "stop" =>
       /\ i = Len(t)
       /\ \A j \in 1 .. i - 1 : t[j].do \in Writes \cup {"mark"} /\ t[j].r = t[i].r
  /\ t[i].do = "mark" =>
       /\ \A j \in i + 1 .. Len(t) : t[j].do \in Writes \cup {"stop", "choose"}
       /\ t[i].arg \in {"FINISHED", "ERROR"} => Final(t).do = "stop"
  /\ IsVerdict(t[i]) =>
       \A j \in 1 .. Len(t) :
         /\ IsVerdict(t[j]) => i = j
         /\ t[j].do = "mark" => t[j].r = t[i].r /\ t[j].arg = t[i].arg

WellShaped(t) == \A i \in 1 .. Len(t) : ShapedAt(t, i)

LEMMA TailShaped ==
  ASSUME NEW S, NEW t \in Seq(S), t # <<>>, WellShaped(t)
  PROVE  WellShaped(Tail(t))
<1> DEFINE u == Tail(t)
<1>1. /\ Len(t) \in Nat /\ Len(u) = Len(t) - 1
      /\ \A i \in 1 .. Len(u) : u[i] = t[i + 1] /\ i + 1 \in 1 .. Len(t)
  BY HeadTailProperties
<1> HIDE DEF u
<1> SUFFICES ASSUME NEW i \in 1 .. Len(u) PROVE ShapedAt(u, i)
  BY DEF WellShaped, u
<1>2. ShapedAt(t, i + 1) /\ u[i] = t[i + 1]
  BY <1>1 DEF WellShaped
<1>3. Final(u) = Final(t)
  BY <1>1 DEF Final
<1>4. u[i].do = "drive" =>
       /\ i = Len(u)
       /\ \A j \in 1 .. i - 1 :
            u[j].do \in Writes \cup {"start"} /\ u[j].r = u[i].r /\ ~IsVerdict(u[j])
  BY <1>1, <1>2 DEF ShapedAt
<1>5. u[i].do = "stop" =>
       /\ i = Len(u)
       /\ \A j \in 1 .. i - 1 : u[j].do \in Writes \cup {"mark"} /\ u[j].r = u[i].r
  BY <1>1, <1>2 DEF ShapedAt
<1>6. u[i].do = "mark" =>
       /\ \A j \in i + 1 .. Len(u) : u[j].do \in Writes \cup {"stop", "choose"}
       /\ u[i].arg \in {"FINISHED", "ERROR"} => Final(u).do = "stop"
  BY <1>1, <1>2, <1>3 DEF ShapedAt
<1>7. ASSUME IsVerdict(u[i]), NEW j \in 1 .. Len(u)
      PROVE  /\ IsVerdict(u[j]) => i = j
             /\ u[j].do = "mark" => u[j].r = u[i].r /\ u[j].arg = u[i].arg
  <2>1. IsVerdict(t[i + 1]) /\ u[j] = t[j + 1] /\ j + 1 \in 1 .. Len(t)
    BY <1>1, <1>2, <1>7
  <2>2. /\ IsVerdict(t[j + 1]) => i + 1 = j + 1
        /\ t[j + 1].do = "mark" => t[j + 1].r = t[i + 1].r /\ t[j + 1].arg = t[i + 1].arg
    BY <1>2, <2>1 DEF ShapedAt
  <2> QED BY <1>2, <2>1, <2>2
<1>8. /\ u[i].do \notin {"insert_event", "start"} \cup Alone
      /\ u[i].do \notin {"expire", "expire_run"}
      /\ u[i].do = "choose" => i = Len(u)
  BY <1>1, <1>2 DEF ShapedAt
<1> QED BY <1>4, <1>5, <1>6, <1>7, <1>8 DEF ShapedAt

\* append_run_event goes from its SELECT to its INSERT.
LEMMA ReadShaped ==
  ASSUME NEW S, NEW t \in Seq(S), t # <<>>, WellShaped(t), t[1].do = "append",
         NEW s \in S, s.do = "insert_event", s.r = t[1].r, s.arg = t[1].arg
  PROVE  WellShaped(<<s>> \o Tail(t))
<1> DEFINE u == <<s>> \o Tail(t)
<1>1. /\ Len(t) \in Nat /\ Len(u) = Len(t) /\ 1 \in 1 .. Len(t)
      /\ u[1] = s
      /\ \A i \in 2 .. Len(u) : u[i] = t[i]
  <2>1. /\ Len(t) \in Nat /\ Len(t) # 0 /\ Tail(t) \in Seq(S) /\ Len(Tail(t)) = Len(t) - 1
        /\ \A i \in 1 .. Len(Tail(t)) : Tail(t)[i] = t[i + 1]
    BY HeadTailProperties, EmptySeq, LenProperties
  <2>2. <<s>> \in Seq(S) /\ Len(<<s>>) = 1 /\ <<s>>[1] = s
    OBVIOUS
  <2> QED BY <2>1, <2>2, ConcatProperties
<1> HIDE DEF u
<1>2. /\ \A i \in 1 .. Len(u) : i = 1 \/ u[i] = t[i]
      /\ \A i \in 1 .. Len(u) : u[i].r = t[i].r /\ u[i].arg = t[i].arg
      /\ \A i \in 1 .. Len(u) : IsVerdict(u[i]) <=> IsVerdict(t[i])
      /\ \A i \in 1 .. Len(u) : u[i].do \in Writes <=> t[i].do \in Writes
      /\ \A i \in 1 .. Len(u) : t[i].do \notin Writes => u[i] = t[i]
      /\ \A i \in 1 .. Len(u) : u[i].do \notin Writes => u[i] = t[i]
  BY <1>1 DEF IsVerdict, Writes
<1> SUFFICES ASSUME NEW i \in 1 .. Len(u) PROVE ShapedAt(u, i)
  BY DEF WellShaped, u
<1>3. ShapedAt(t, i)
  BY <1>1 DEF WellShaped
<1>a. Len(t) \in 1 .. Len(u)
  BY <1>1
<1>4. u[i].do = "insert_event" => i = 1
  BY <1>1, <1>2, <1>3 DEF ShapedAt
<1>5. u[i].do \in {"start"} \cup Alone => i = 1 /\ u[i] = t[i]
  BY <1>2, <1>3 DEF ShapedAt, Writes, Alone
<1>6. u[i].do \notin {"start", "expire", "expire_run"} \cup Alone
  <2>1. u[i].do \in {"start", "expire", "expire_run"} \cup Alone => i = 1 /\ u[i] = t[i]
    BY <1>2, <1>3 DEF ShapedAt, Writes, Alone
  <2> QED BY <2>1, <1>1 DEF Alone
<1>7. u[i].do = "choose" => i = Len(u)
  BY <1>1, <1>2, <1>3 DEF ShapedAt, Writes
<1>8. u[i].do = "drive" =>
       /\ i = Len(u)
       /\ \A j \in 1 .. i - 1 :
            u[j].do \in Writes \cup {"start"} /\ u[j].r = u[i].r /\ ~IsVerdict(u[j])
  <2> SUFFICES ASSUME u[i].do = "drive", NEW j \in 1 .. i - 1
               PROVE  i = Len(u) /\ u[j].do \in Writes \cup {"start"} /\ u[j].r = u[i].r /\ ~IsVerdict(u[j])
    BY <1>1, <1>2, <1>3 DEF ShapedAt, Writes
  <2>1. u[i] = t[i] /\ j \in 1 .. Len(u) /\ i = Len(u)
    BY <1>1, <1>2, <1>3 DEF ShapedAt, Writes
  <2>2. t[j].do \in Writes \cup {"start"} /\ t[j].r = t[i].r /\ ~IsVerdict(t[j])
    BY <2>1, <1>3 DEF ShapedAt
  <2> QED BY <2>1, <2>2, <1>2
<1>9. u[i].do = "stop" =>
       /\ i = Len(u)
       /\ \A j \in 1 .. i - 1 : u[j].do \in Writes \cup {"mark"} /\ u[j].r = u[i].r
  <2> SUFFICES ASSUME u[i].do = "stop"
               PROVE  /\ i = Len(u)
                      /\ \A j \in 1 .. i - 1 : u[j].do \in Writes \cup {"mark"} /\ u[j].r = u[i].r
    OBVIOUS
  <2>1. u[i] = t[i] /\ i = Len(u)
    BY <1>1, <1>2, <1>3 DEF ShapedAt, Writes
  <2>2. ASSUME NEW j \in 1 .. i - 1 PROVE u[j].do \in Writes \cup {"mark"} /\ u[j].r = u[i].r
    <3>1. t[j].do \in Writes \cup {"mark"} /\ t[j].r = t[i].r /\ j \in 1 .. Len(u)
      BY <2>1, <1>1, <1>3 DEF ShapedAt
    <3> QED BY <2>1, <3>1, <1>2
  <2> QED BY <2>1, <2>2
<1>10. u[i].do = "mark" =>
       /\ \A j \in i + 1 .. Len(u) : u[j].do \in Writes \cup {"stop", "choose"}
       /\ u[i].arg \in {"FINISHED", "ERROR"} => Final(u).do = "stop"
  <2> SUFFICES ASSUME u[i].do = "mark"
               PROVE  /\ \A j \in i + 1 .. Len(u) : u[j].do \in Writes \cup {"stop", "choose"}
                      /\ u[i].arg \in {"FINISHED", "ERROR"} => Final(u).do = "stop"
    OBVIOUS
  <2>1. u[i] = t[i] /\ i # 1
    BY <1>1, <1>2, <1>3 DEF Writes
  <2>2. ASSUME NEW j \in i + 1 .. Len(u) PROVE u[j].do \in Writes \cup {"stop", "choose"}
    <3>1. j \in 1 .. Len(u) /\ j # 1 /\ j \in i + 1 .. Len(t)
      BY <1>1
    <3>2. t[j].do \in Writes \cup {"stop", "choose"}
      BY <2>1, <3>1, <1>3 DEF ShapedAt
    <3> QED BY <3>1, <3>2, <1>2
  <2>3. Final(u).do = "stop" <=> Final(t).do = "stop"
    BY <1>1, <1>2, <1>a DEF Final, Writes
  <2> QED BY <2>1, <2>2, <2>3, <1>3 DEF ShapedAt
<1>11. IsVerdict(u[i]) =>
       \A j \in 1 .. Len(u) :
         /\ IsVerdict(u[j]) => i = j
         /\ u[j].do = "mark" => u[j].r = u[i].r /\ u[j].arg = u[i].arg
  BY <1>1, <1>2, <1>3 DEF ShapedAt, Writes
<1> QED BY <1>4, <1>6, <1>7, <1>8, <1>9, <1>10, <1>11 DEF ShapedAt

\* The scripts, and the lists of one or two statements.
LEMMA ScriptsShaped ==
  ASSUME NEW r, NEW c, c.do = "choose"
  PROVE  /\ WellShaped(StartScript(r))
         /\ WellShaped(CancelScript(r))
         /\ WellShaped(ExpireScript(r) \o <<c>>)
         /\ \A s \in {"FINISHED", "ERROR"} : WellShaped(EndScript(r, s))
<1>1. WellShaped(StartScript(r))
  BY DEF WellShaped, ShapedAt, StartScript, DoOn, DoWith, Alone, Writes, Final, IsVerdict, Terminal
<1>2. WellShaped(CancelScript(r))
  BY DEF WellShaped, ShapedAt, CancelScript, DoOn, DoWith, Alone, Writes, Final, IsVerdict, Terminal
<1>3. WellShaped(ExpireScript(r) \o <<c>>)
  <2> DEFINE mark == DoWith("mark", r, "EXPIRED")
             note == DoWith("append", r, "EXPIRED")
             t == ExpireScript(r) \o <<c>>
             S == {mark, note, c}
  <2>1. /\ ExpireScript(r) = <<mark, note>>
        /\ mark.do = "mark" /\ mark.r = r /\ mark.arg = "EXPIRED"
        /\ note.do = "append" /\ note.r = r /\ note.arg = "EXPIRED"
    BY DEF ExpireScript, DoWith
  <2> HIDE DEF mark, note
  <2>2. <<mark, note>> \in Seq(S) /\ <<c>> \in Seq(S)
    OBVIOUS
  <2>3. Len(t) = 3 /\ t[1] = mark /\ t[2] = note /\ t[3] = c
    BY <2>1, <2>2, ConcatProperties
  <2> HIDE DEF t
  <2>4. ~IsVerdict(mark) /\ IsVerdict(note) /\ ~IsVerdict(c)
    BY <2>1 DEF IsVerdict, Writes, Terminal
  <2>5. ShapedAt(t, 1)
    BY <2>1, <2>3, <2>4 DEF ShapedAt, Alone, Writes, Final
  <2>6. ShapedAt(t, 2)
    BY <2>1, <2>3, <2>4 DEF ShapedAt, Alone, Writes, Final
  <2>7. ShapedAt(t, 3)
    BY <2>1, <2>3, <2>4 DEF ShapedAt, Alone, Writes, Final
  <2>8. 1 .. Len(t) = {1, 2, 3}
    BY <2>3
  <2> QED BY <2>5, <2>6, <2>7, <2>8 DEF WellShaped, t
<1>4. ASSUME NEW s \in {"FINISHED", "ERROR"} PROVE WellShaped(EndScript(r, s))
  BY DEF WellShaped, ShapedAt, EndScript, DoOn, DoWith, Alone, Writes, Final, IsVerdict, Terminal
<1> QED BY <1>1, <1>2, <1>3, <1>4

LEMMA ShortShaped ==
  ASSUME NEW s, NEW c, c.do = "choose"
  PROVE  /\ s.do \in Alone \cup {"choose"} => WellShaped(<<s>>)
         /\ s.do \in {"expire", "expire_run"} => WellShaped(<<s, c>>)
         /\ s.do = "append" /\ s.arg \notin Terminal => WellShaped(<<s>>)
         /\ WellShaped(<<>>)
BY DEF WellShaped, ShapedAt, Alone, Writes, Final, IsVerdict

LEMMA ScriptStatements ==
  ASSUME NEW r, NEW s
  PROVE  /\ StartScript(r)[1].do = "start"
         /\ \A i \in 1 .. Len(StartScript(r)) :
              StartScript(r)[i].do \in {"start", "append", "drive"} /\ StartScript(r)[i].r = r
         /\ \A i \in 1 .. Len(CancelScript(r)) :
              CancelScript(r)[i].do \in {"mark", "append"} /\ CancelScript(r)[i].r = r
         /\ \A i \in 1 .. Len(EndScript(r, s)) :
              EndScript(r, s)[i].do \in {"mark", "append", "stop"} /\ EndScript(r, s)[i].r = r
         /\ Final(EndScript(r, s)).do = "stop" /\ Final(EndScript(r, s)).r = r
<1>1. /\ StartScript(r)[1].do = "start"
      /\ \A i \in 1 .. Len(StartScript(r)) :
              StartScript(r)[i].do \in {"start", "append", "drive"} /\ StartScript(r)[i].r = r
  BY DEF StartScript, DoOn, DoWith
<1>2. \A i \in 1 .. Len(CancelScript(r)) :
              CancelScript(r)[i].do \in {"mark", "append"} /\ CancelScript(r)[i].r = r
  BY DEF CancelScript, DoOn, DoWith
<1>3. /\ \A i \in 1 .. Len(EndScript(r, s)) :
              EndScript(r, s)[i].do \in {"mark", "append", "stop"} /\ EndScript(r, s)[i].r = r
      /\ Final(EndScript(r, s)).do = "stop" /\ Final(EndScript(r, s)).r = r
  BY DEF EndScript, DoOn, DoWith, Final
<1> QED BY <1>1, <1>2, <1>3

\* expire_active_run inside of a forced send.
LEMMA ExpireStatements ==
  ASSUME NEW S, NEW r, ExpireScript(r) \in Seq(S), NEW c \in S
  PROVE  /\ Len(ExpireScript(r) \o <<c>>) = 3
         /\ (ExpireScript(r) \o <<c>>)[1] = DoWith("mark", r, "EXPIRED")
         /\ (ExpireScript(r) \o <<c>>)[2] = DoWith("append", r, "EXPIRED")
         /\ (ExpireScript(r) \o <<c>>)[3] = c
<1> DEFINE mark == DoWith("mark", r, "EXPIRED")
           note == DoWith("append", r, "EXPIRED")
<1>1. ExpireScript(r) = <<mark, note>>
  BY DEF ExpireScript
<1> HIDE DEF mark, note
<1>2. <<c>> \in Seq(S) /\ <<mark, note>> \in Seq(S)
  BY <1>1
<1>3. /\ Len(<<mark, note>> \o <<c>>) = 3
      /\ (<<mark, note>> \o <<c>>)[1] = mark
      /\ (<<mark, note>> \o <<c>>)[2] = note
      /\ (<<mark, note>> \o <<c>>)[3] = c
  BY <1>2, ConcatProperties
<1> QED BY <1>1, <1>3 DEF mark, note

-----------------------------------------------------------------------------
(* The executor's verdict: who may still write to the row of a run.         *)

\* The executor of run r has recorded an end.
Judged(r) == runs[r].status \in {"FINISHED", "ERROR"}

\* Statements come in the order of their scripts, and an event is inserted at the
\* number that was read for it.
SegmentsShaped ==
  \A p \in Process :
    /\ WellShaped(seg[p].todo)
    /\ seg[p].todo # <<>> /\ seg[p].todo[1].do = "insert_event" =>
         seg[p].todo[1].n = Len(log[seg[p].todo[1].r])

\* What was looked at when a statement was decided is still so: a run that is to
\* be started is queued, one whose row is to get its end has none of its executor.
SoundAt(t, i) ==
  /\ t[i].do = "start" => runs[t[i].r].status = "QUEUED"
  /\ t[i].do = "drive" => t[1].do = "start" \/ runs[t[i].r].status = "RUNNING"
  /\ t[i].do = "mark" => ~Judged(t[i].r)
  /\ t[i].do = "stop" => exec[t[i].r].phase \in Alive

StatementsSound ==
  \A p \in Process : \A i \in 1 .. Len(seg[p].todo) : SoundAt(seg[p].todo, i)

\* An executor that recorded an end is about to return: it is in the segment of
\* _finish or _fail.
Ending(r) ==
  \E p \in Process :
    seg[p].todo # <<>> /\ Final(seg[p].todo).do = "stop" /\ Final(seg[p].todo).r = r

ExecutorsSound ==
  \A r \in 1 .. Len(runs) :
    /\ exec[r].phase # "none" => runs[r].status # "QUEUED"
    /\ exec[r].phase \in Alive /\ Judged(r) => Ending(r)

VerdictInv == SegmentsShaped /\ StatementsSound /\ ExecutorsSound

\* A segment that begins, or whose last statement is replaced.
LEMMA NewTodo ==
  ASSUME OneProcess, TypeOK, VerdictInv, UNCHANGED <<runs, exec>>, NEW p \in Process,
         seg[p].todo # <<>> => Final(seg[p].todo).do # "stop",
         NEW u, seg'[p].todo = u, WellShaped(u), u = <<>> \/ 1 \in 1 .. Len(u),
         \A i \in 1 .. Len(u) : u[i].do # "insert_event" /\ SoundAt(u, i)
  PROVE  VerdictInv'
<1>1. \A q \in Process : q = p
  BY DEF OneProcess
<1>2. SegmentsShaped'
  <2> SUFFICES ASSUME NEW q \in Process
               PROVE  /\ WellShaped(seg'[q].todo)
                      /\ seg'[q].todo # <<>> => seg'[q].todo[1].do # "insert_event"
    BY DEF SegmentsShaped
  <2> QED BY <1>1
<1>3. \A i \in 1 .. Len(u) : SoundAt(u, i)'
  BY DEF SoundAt, Judged
<1>4. StatementsSound'
  BY <1>1, <1>3 DEF StatementsSound, SoundAt, Judged
<1>5. \A r : ~Ending(r)
  BY <1>1 DEF Ending
<1>6. ExecutorsSound'
  BY <1>5 DEF VerdictInv, ExecutorsSound, Judged
<1> QED BY <1>2, <1>4, <1>6 DEF VerdictInv

\* A statement that changes neither a row nor an executor.
LEMMA Moves ==
  ASSUME OneProcess, TypeOK, VerdictInv, UNCHANGED <<runs, exec>>, NEW p \in Process,
         seg[p].todo # <<>>, Continue(p, <<>>), Cur(p).do \notin {"start", "stop"}
  PROVE  VerdictInv'
<1> DEFINE t == seg[p].todo
           u == seg'[p].todo
<1>1. \A q \in Process : q = p
  BY DEF OneProcess
<1>2. /\ t \in Seq(StatementOver(Len(runs))) /\ Len(t) \in Nat /\ Cur(p) = t[1]
  BY AtStatement
<1>3. /\ u = Tail(t) /\ Len(u) = Len(t) - 1
      /\ \A i \in 1 .. Len(u) : i + 1 \in 1 .. Len(t) /\ u[i] = t[i + 1]
      /\ u # <<>> => Final(u) = Final(t)
      /\ u = <<>> => Len(t) = 1
  BY MovesOn
<1>4. WellShaped(t) /\ WellShaped(u)
  BY <1>2, <1>3, TailShaped DEF VerdictInv, SegmentsShaped
<1> HIDE DEF t, u
<1>5. \A i \in 1 .. Len(u) : u[i].do \notin {"insert_event", "start"}
  <2> TAKE i \in 1 .. Len(u)
  <2>1. ShapedAt(t, i + 1) /\ i + 1 # 1 /\ u[i] = t[i + 1]
    BY <1>2, <1>3, <1>4 DEF WellShaped
  <2> QED BY <2>1 DEF ShapedAt
<1>6. SegmentsShaped'
  <2>1. u # <<>> => 1 \in 1 .. Len(u)
    <3>1. u # <<>> => Len(u) \in Nat \ {0}
      BY <1>2, <1>3, HeadTailProperties, EmptySeq DEF t
    <3> QED BY <3>1
  <2>2. u # <<>> => u[1].do # "insert_event"
    BY <1>5, <2>1
  <2> QED BY <1>1, <1>4, <2>2 DEF SegmentsShaped, u
<1>7. StatementsSound'
  <2>1. ASSUME NEW i \in 1 .. Len(u)
        PROVE  /\ u[i].do # "start"
               /\ u[i].do = "drive" => runs'[u[i].r].status = "RUNNING"
               /\ u[i].do = "mark" => runs'[u[i].r].status \notin {"FINISHED", "ERROR"}
               /\ u[i].do = "stop" => exec'[u[i].r].phase \in Alive
    <3>1. SoundAt(t, i + 1) /\ u[i] = t[i + 1]
      BY <1>3 DEF VerdictInv, StatementsSound, t
    <3>2. t[1].do # "start" /\ u[i].do # "start"
      BY <1>2, <1>5
    <3> QED BY <3>1, <3>2 DEF SoundAt, Judged
  <2>2. SUFFICES ASSUME NEW i \in 1 .. Len(u) PROVE SoundAt(seg[p].todo, i)'
    BY <1>1 DEF StatementsSound, u
  <2> QED BY <2>1, <2>2 DEF SoundAt, Judged, u
<1>8. ExecutorsSound'
  <2>1. ASSUME NEW r, Ending(r) PROVE Ending(r)'
    <3>1. t # <<>> /\ Final(t).do = "stop" /\ Final(t).r = r
      BY <1>1, <2>1 DEF Ending, t
    <3>2. u # <<>>
      <4>1. Len(t) = 1 => Final(t) = t[1]
        BY DEF Final
      <4> QED BY <1>2, <1>3, <3>1, <4>1
    <3>3. Final(u).do = "stop" /\ Final(u).r = r
      BY <1>3, <3>1, <3>2
    <3> QED BY <3>2, <3>3 DEF Ending, u, Final
  <2> QED BY <2>1 DEF VerdictInv, ExecutorsSound, Judged
<1> QED BY <1>6, <1>7, <1>8 DEF VerdictInv

\* The same for a statement that leaves the segment, or returns early.
LEMMA Leaves ==
  ASSUME OneProcess, TypeOK, VerdictInv, UNCHANGED <<runs, exec>>, NEW p \in Process,
         seg[p].todo # <<>> => Final(seg[p].todo).do # "stop", seg'[p].todo = <<>>
  PROVE  VerdictInv'
<1>1. WellShaped(<<>>) /\ 1 .. Len(<<>>) = {}
  BY DEF WellShaped
<1> QED BY <1>1, NewTodo

\* A statement that stands alone is the last of its segment.
LEMMA AloneFinal ==
  ASSUME TypeOK, SegmentsShaped, NEW p \in Process, seg[p].todo # <<>>
  PROVE  /\ Cur(p).do \in Alone => Len(seg[p].todo) = 1 /\ Final(seg[p].todo) = Cur(p)
         /\ Cur(p).do = "choose" => Len(seg[p].todo) = 1 /\ Final(seg[p].todo) = Cur(p)
         /\ Cur(p).do = "drive" => Len(seg[p].todo) = 1 /\ Final(seg[p].todo) = Cur(p)
         /\ Cur(p).do = "stop" => Len(seg[p].todo) = 1 /\ Final(seg[p].todo) = Cur(p)
         /\ Cur(p).do \in {"expire", "expire_run"} =>
              Len(seg[p].todo) = 2 /\ Final(seg[p].todo).do = "choose" /\ seg[p].todo[2].do = "choose"
<1>1. Cur(p) = seg[p].todo[1] /\ Len(seg[p].todo) \in Nat /\ 1 \in 1 .. Len(seg[p].todo)
  BY AtStatement
<1>2. ShapedAt(seg[p].todo, 1)
  BY <1>1 DEF SegmentsShaped, WellShaped
<1> QED BY <1>1, <1>2 DEF ShapedAt, Final

LEMMA StartVerdict ==
  ASSUME OneProcess, TypeOK, VerdictInv, NEW p \in Process, MarkRunStarting(p)
  PROVE  VerdictInv'
<1> DEFINE t == seg[p].todo
           r == t[1].r
<1>1. \A q \in Process : q = p
  BY DEF OneProcess
<1>2. t # <<>> /\ Cur(p).do = "start" /\ Continue(p, <<>>)
  BY DEF MarkRunStarting, At, Cur
<1>3. /\ t \in Seq(StatementOver(Len(runs))) /\ Len(t) \in Nat /\ Cur(p) = t[1] /\ 1 \in 1 .. Len(t)
      /\ t[1] \in StatementOver(Len(runs))
  BY <1>2, AtStatement
<1>4. r \in 1 .. Len(runs)
  BY <1>2, <1>3 DEF StatementOver
<1>5. WellShaped(t) /\ ShapedAt(t, 1) /\ Final(t).do = "drive" /\ Len(t) \in 1 .. Len(t)
  BY <1>2, <1>3 DEF VerdictInv, SegmentsShaped, WellShaped, ShapedAt
<1>6. /\ Len(t) # 1
      /\ \A j \in 1 .. Len(t) : j # Len(t) => t[j].do \in Writes \cup {"start"} /\ t[j].r = Final(t).r
  <2>1. ShapedAt(t, Len(t)) /\ t[Len(t)].do = "drive"
    BY <1>5 DEF WellShaped, Final
  <2> QED BY <1>2, <1>3, <2>1 DEF ShapedAt, Final
<1>7. Final(t).r = r
  BY <1>3, <1>6
<1>8. runs' = [runs EXCEPT ![r].status = "RUNNING"] /\ exec' = exec /\ log' = log
  BY <1>3 DEF MarkRunStarting
<1>9. DOMAIN runs' = DOMAIN runs /\ runs'[r].status = "RUNNING"
  BY <1>4, <1>8, StatusOfRun DEF RunStatus
<1>10. /\ Len(runs') = Len(runs) /\ \A q \in 1 .. Len(runs) : q # r => runs'[q] = runs[q]
  <2>1. runs \in Seq([status : RunStatus, turn : Nat])
    BY DEF TypeOK
  <2> QED BY <1>8, <2>1
<1>11. /\ seg'[p].todo = Tail(t) /\ Len(seg'[p].todo) = Len(t) - 1
       /\ \A i \in 1 .. Len(seg'[p].todo) : i + 1 \in 1 .. Len(t) /\ seg'[p].todo[i] = t[i + 1]
  BY <1>2, MovesOn
<1>12. \A i \in 1 .. Len(seg'[p].todo) :
         /\ seg'[p].todo[i].do \in {"append", "drive"}
         /\ seg'[p].todo[i].r = r
  <2> TAKE i \in 1 .. Len(seg'[p].todo)
  <2>1. ShapedAt(t, i + 1) /\ i + 1 # 1 /\ seg'[p].todo[i] = t[i + 1] /\ i + 1 \in 1 .. Len(t)
    BY <1>5, <1>3, <1>11 DEF WellShaped
  <2>2. CASE i + 1 = Len(t)
    BY <2>1, <2>2, <1>5, <1>7 DEF Final
  <2>3. CASE i + 1 # Len(t)
    BY <2>1, <2>3, <1>6, <1>7 DEF ShapedAt, Writes
  <2> QED BY <2>2, <2>3
<1>13. WellShaped(seg'[p].todo) /\ seg'[p].todo # <<>> /\ 1 \in 1 .. Len(seg'[p].todo)
  <2>1. WellShaped(seg'[p].todo)
    BY <1>2, <1>3, <1>5, <1>11, TailShaped
  <2>2. Len(seg'[p].todo) # 0 /\ 1 \in 1 .. Len(seg'[p].todo)
    <3> DEFINE k == Len(t)
               m == Len(seg'[p].todo)
    <3>1. k \in Nat /\ k # 1 /\ k >= 1
      BY <1>3, <1>6
    <3>2. m = k - 1
      BY <1>11
    <3> HIDE DEF k, m
    <3>3. m # 0 /\ 1 \in 1 .. m
      BY <3>1, <3>2
    <3> QED BY <3>3 DEF m
  <2>3. Len(<<>>) = 0
    BY EmptySeq
  <2>4. seg'[p].todo # <<>>
    BY <2>2, <2>3
  <2> QED BY <2>1, <2>2, <2>4
<1> HIDE DEF t, r
<1>14. SegmentsShaped'
  BY <1>1, <1>12, <1>13 DEF SegmentsShaped
<1>15. StatementsSound'
  <2> SUFFICES ASSUME NEW i \in 1 .. Len(seg'[p].todo) PROVE SoundAt(seg[p].todo, i)'
    BY <1>1 DEF StatementsSound
  <2> QED BY <1>9, <1>12 DEF SoundAt
<1>16. \A q : ~Ending(q)
  BY <1>1, <1>5 DEF Ending, t
<1>17. ExecutorsSound'
  <2> SUFFICES ASSUME NEW q \in 1 .. Len(runs)
               PROVE  /\ exec[q].phase # "none" => runs'[q].status # "QUEUED"
                      /\ exec[q].phase \in Alive => runs'[q].status \notin {"FINISHED", "ERROR"}
    BY <1>8, <1>10 DEF ExecutorsSound, Judged
  <2>1. CASE q = r
    BY <2>1, <1>9
  <2>2. CASE q # r
    BY <2>2, <1>10, <1>16 DEF VerdictInv, ExecutorsSound, Judged
  <2> QED BY <2>1, <2>2
<1> QED BY <1>14, <1>15, <1>17 DEF VerdictInv

LEMMA MarkVerdict ==
  ASSUME OneProcess, TypeOK, VerdictInv, NEW p \in Process, MarkRunTerminal(p)
  PROVE  VerdictInv'
<1> DEFINE t == seg[p].todo
           r == t[1].r
           to == t[1].arg
<1>1. \A q \in Process : q = p
  BY DEF OneProcess
<1>2. t # <<>> /\ Cur(p).do = "mark" /\ Continue(p, <<>>)
  BY DEF MarkRunTerminal, At, Cur
<1>3. /\ t \in Seq(StatementOver(Len(runs))) /\ Len(t) \in Nat /\ Cur(p) = t[1] /\ 1 \in 1 .. Len(t)
      /\ t[1] \in StatementOver(Len(runs))
  BY <1>2, AtStatement
<1>4. r \in 1 .. Len(runs) /\ to \in Terminal /\ to \in RunStatus /\ to # "QUEUED"
  BY <1>2, <1>3 DEF StatementOver, RunStatus, Terminal
<1>5. WellShaped(t) /\ ShapedAt(t, 1) /\ Len(t) \in 1 .. Len(t)
  BY <1>2, <1>3 DEF VerdictInv, SegmentsShaped, WellShaped
<1>6. /\ Final(t).do = "stop" => Final(t).r = r /\ Len(t) # 1
      /\ to \in {"FINISHED", "ERROR"} => Final(t).do = "stop"
      /\ \A j \in 2 .. Len(t) : t[j].do \in {"append", "stop", "choose"}
  <2>1. ShapedAt(t, Len(t))
    BY <1>5 DEF WellShaped
  <2>2. Final(t).do = "stop" => Final(t).r = r /\ Len(t) # 1
    BY <1>2, <1>3, <2>1 DEF ShapedAt, Final
  <2>3. to \in {"FINISHED", "ERROR"} => Final(t).do = "stop"
    BY <1>2, <1>3, <1>5 DEF ShapedAt
  <2>4. ASSUME NEW j \in 2 .. Len(t) PROVE t[j].do \in {"append", "stop", "choose"}
    <3>1. ShapedAt(t, j) /\ t[j].do \in Writes \cup {"stop", "choose"}
      BY <1>2, <1>3, <1>5 DEF WellShaped, ShapedAt
    <3> QED BY <3>1 DEF ShapedAt, Writes
  <2> QED BY <2>2, <2>3, <2>4
<1>8. runs' = [runs EXCEPT ![r].status = to] /\ exec' = exec /\ log' = log
  BY <1>3 DEF MarkRunTerminal
<1>9. DOMAIN runs' = DOMAIN runs /\ runs'[r].status = to
  <2> HIDE DEF r, to
  <2> QED BY <1>4, <1>8, StatusOfRun
<1>10. /\ Len(runs') = Len(runs) /\ \A q \in 1 .. Len(runs) : q # r => runs'[q] = runs[q]
  <2>1. runs \in Seq([status : RunStatus, turn : Nat])
    BY DEF TypeOK
  <2> HIDE DEF r, to
  <2> QED BY <1>8, <2>1
<1>11. /\ seg'[p].todo = Tail(t) /\ Len(seg'[p].todo) = Len(t) - 1
       /\ \A i \in 1 .. Len(seg'[p].todo) : i + 1 \in 1 .. Len(t) /\ seg'[p].todo[i] = t[i + 1]
       /\ seg'[p].todo # <<>> => Final(seg'[p].todo) = Final(t)
       /\ seg'[p].todo = <<>> => Len(t) = 1
  BY <1>2, MovesOn
<1>12. \A i \in 1 .. Len(seg'[p].todo) :
         /\ seg'[p].todo[i].do \in {"append", "stop", "choose"}
         /\ seg'[p].todo[i] = t[i + 1] /\ SoundAt(t, i + 1)
  <2> TAKE i \in 1 .. Len(seg'[p].todo)
  <2>1. i + 1 \in 2 .. Len(t) /\ SoundAt(t, i + 1)
    BY <1>3, <1>11 DEF VerdictInv, StatementsSound
  <2> QED BY <2>1, <1>6, <1>11
<1>13. WellShaped(seg'[p].todo) /\ (seg'[p].todo # <<>> => 1 \in 1 .. Len(seg'[p].todo))
  <2>1. WellShaped(seg'[p].todo)
    BY <1>2, <1>3, <1>5, <1>11, TailShaped
  <2>2. Len(seg'[p].todo) # 0 => 1 \in 1 .. Len(seg'[p].todo)
    BY <1>3, <1>6, <1>11
  <2>3. seg'[p].todo # <<>> => Len(seg'[p].todo) # 0
    BY <1>2, <1>3, <1>11, HeadTailProperties, EmptySeq
  <2> QED BY <2>1, <2>2, <2>3
<1> HIDE DEF t, r, to
<1>14. SegmentsShaped'
  BY <1>1, <1>12, <1>13 DEF SegmentsShaped
<1>15. StatementsSound'
  <2> SUFFICES ASSUME NEW i \in 1 .. Len(seg'[p].todo) PROVE SoundAt(seg[p].todo, i)'
    BY <1>1 DEF StatementsSound
  <2> QED BY <1>8, <1>12 DEF SoundAt
<1>16. ASSUME NEW q, t # <<>>, Final(t).do = "stop", Final(t).r = q PROVE Ending(q)'
  BY <1>6, <1>11, <1>16 DEF Ending, Final
<1>17. ExecutorsSound'
  <2> SUFFICES ASSUME NEW q \in 1 .. Len(runs)
               PROVE  /\ exec[q].phase # "none" => runs'[q].status # "QUEUED"
                      /\ exec[q].phase \in Alive /\ runs'[q].status \in {"FINISHED", "ERROR"} => Ending(q)'
    BY <1>8, <1>10 DEF ExecutorsSound, Judged
  <2>1. CASE q = r
    BY <2>1, <1>2, <1>4, <1>6, <1>9, <1>16
  <2>2. CASE q # r
    <3>1. Ending(q) => Ending(q)'
      BY <1>1, <1>16 DEF Ending, t
    <3> QED BY <2>2, <3>1, <1>10 DEF VerdictInv, ExecutorsSound, Judged
  <2> QED BY <2>1, <2>2
<1> QED BY <1>14, <1>15, <1>17 DEF VerdictInv

LEMMA InsertVerdict ==
  ASSUME OneProcess, TypeOK, TypeOK', VerdictInv, NEW p \in Process, FollowUpInsert(p)
  PROVE  VerdictInv'
<1> DEFINE n == Len(runs)
           r == n + 1
<1>1. \A q \in Process : q = p
  BY DEF OneProcess
<1>2. seg[p].todo # <<>> /\ Cur(p).do = "insert_run" /\ Continue(p, StartScript(r))
  BY DEF FollowUpInsert, At, Cur
<1>3. n \in Nat /\ r \in Nat /\ n <= r /\ r \in 1 .. r
  BY DEF TypeOK
<1>4. Len(seg[p].todo) = 1 /\ Final(seg[p].todo).do # "stop"
  BY <1>2, AloneFinal DEF VerdictInv, Alone
<1>5. StartScript(r) \in Seq(StatementOver(r))
  BY <1>3, ScriptTypes
<1>6. seg'[p].todo = StartScript(r)
  BY <1>2, <1>3, <1>4, <1>5, Replaced
<1>7. /\ WellShaped(StartScript(r))
      /\ StartScript(r)[1].do = "start"
      /\ \A i \in 1 .. Len(StartScript(r)) :
           StartScript(r)[i].do \in {"start", "append", "drive"} /\ StartScript(r)[i].r = r
  <2>1. Do("choose").do = "choose"
    BY DEF Do
  <2> HIDE DEF r
  <2>2. WellShaped(StartScript(r))
    BY <2>1, ScriptsShaped
  <2>3. /\ StartScript(r)[1].do = "start"
        /\ \A i \in 1 .. Len(StartScript(r)) :
             StartScript(r)[i].do \in {"start", "append", "drive"} /\ StartScript(r)[i].r = r
    BY ScriptStatements
  <2> QED BY <2>2, <2>3
<1>8. /\ Len(runs') = r /\ runs'[r].status = "QUEUED" /\ exec'[r].phase = "none"
      /\ \A q \in 1 .. n : runs'[q] = runs[q] /\ exec'[q] = exec[q]
  BY <1>3 DEF FollowUpInsert, TypeOK
<1>9. SegmentsShaped'
  BY <1>1, <1>6, <1>7 DEF SegmentsShaped
<1>10. StatementsSound'
  <2> SUFFICES ASSUME NEW i \in 1 .. Len(seg'[p].todo) PROVE SoundAt(seg[p].todo, i)'
    BY <1>1 DEF StatementsSound
  <2>1. /\ seg'[p].todo[1].do = "start" /\ seg'[p].todo[i].r = r
        /\ seg'[p].todo[i].do \in {"start", "append", "drive"}
    BY <1>6, <1>7
  <2> HIDE DEF r
  <2> QED BY <2>1, <1>8 DEF SoundAt
<1>11. \A q : ~Ending(q)
  BY <1>1, <1>4 DEF Ending
<1>12. ExecutorsSound'
  <2> SUFFICES ASSUME NEW q \in 1 .. r
               PROVE  /\ exec'[q].phase # "none" => runs'[q].status # "QUEUED"
                      /\ ~(exec'[q].phase \in Alive /\ runs'[q].status \in {"FINISHED", "ERROR"})
    BY <1>8 DEF ExecutorsSound, Judged
  <2>1. CASE q = r
    BY <2>1, <1>8 DEF Alive
  <2>2. CASE q # r
    <3>1. q \in 1 .. n
      BY <2>2, <1>3
    <3> QED BY <3>1, <1>8, <1>11 DEF VerdictInv, ExecutorsSound, Judged
  <2> QED BY <2>1, <2>2
<1> QED BY <1>9, <1>10, <1>12 DEF VerdictInv

\* Drive and ExecutorReturns: the last statement of a segment, which changes an executor.
LEMMA FinalVerdict ==
  ASSUME OneProcess, TypeOK, VerdictInv, NEW p \in Process, Drive(p) \/ ExecutorReturns(p)
  PROVE  VerdictInv'
<1> DEFINE r == Cur(p).r
<1>1. \A q \in Process : q = p
  BY DEF OneProcess
<1>2. seg[p].todo # <<>> /\ Cur(p).do \in {"drive", "stop"} /\ Continue(p, <<>>)
  BY DEF Drive, ExecutorReturns, At, Cur
<1>3. /\ Cur(p) = seg[p].todo[1] /\ Cur(p) \in StatementOver(Len(runs)) /\ 1 \in 1 .. Len(seg[p].todo)
      /\ Len(runs) \in Nat
  BY <1>2, AtStatement
<1>4. r \in 1 .. Len(runs) /\ r \in DOMAIN exec
  BY <1>2, <1>3 DEF StatementOver, TypeOK
<1>5. Len(seg[p].todo) = 1 /\ Final(seg[p].todo) = Cur(p)
  BY <1>2, AloneFinal DEF VerdictInv
<1>6. seg'[p].todo = <<>>
  <2>1. <<>> \in Seq(StatementOver(Len(runs))) /\ Len(runs) <= Len(runs)
    BY <1>3, EmptySeq
  <2> QED BY <1>2, <1>3, <1>5, <2>1, Replaced
<1>7. SoundAt(seg[p].todo, 1)
  BY <1>3 DEF VerdictInv, StatementsSound
<1>8. runs' = runs /\ \A q \in 1 .. Len(runs) : q # r => exec'[q] = exec[q]
  BY DEF Drive, ExecutorReturns, TypeOK
<1>9. \A q : Ending(q) => Cur(p).do = "stop" /\ q = r
  BY <1>1, <1>5 DEF Ending
<1>10. /\ exec'[r].phase # "none" => runs[r].status # "QUEUED"
       /\ ~(exec'[r].phase \in Alive /\ Judged(r))
  <2>1. CASE Drive(p)
    <3>1. Cur(p).do = "drive"
      BY <2>1 DEF Drive, At, Cur
    <3>2. runs[r].status = "RUNNING"
      BY <3>1, <1>3, <1>7 DEF SoundAt
    <3> QED BY <3>2 DEF Judged
  <2>2. CASE ExecutorReturns(p)
    <3>1. Cur(p).do = "stop"
      BY <2>2 DEF ExecutorReturns, At, Cur
    <3>2. exec[r].phase \in Alive
      BY <3>1, <1>3, <1>7 DEF SoundAt
    <3>3. exec'[r].phase = "gone"
      <4>1. exec' = [exec EXCEPT ![r] = [exec[r] EXCEPT !.phase = "gone"]]
        BY <2>2 DEF ExecutorReturns
      <4>2. exec[r] \in [phase : Phase, h : Handle]
        BY <1>4, ElementOfSeq DEF TypeOK
      <4>3. [exec[r] EXCEPT !.phase = "gone"].phase = "gone"
        BY <4>2
      <4> HIDE DEF r
      <4> QED BY <1>4, <4>1, <4>3
    <3>4. runs[r].status # "QUEUED"
      BY <1>4, <3>2 DEF VerdictInv, ExecutorsSound, Alive
    <3> QED BY <3>3, <3>4 DEF Alive
  <2> QED BY <2>1, <2>2
<1>11. ExecutorsSound'
  <2> SUFFICES ASSUME NEW q \in 1 .. Len(runs)
               PROVE  /\ exec'[q].phase # "none" => runs[q].status # "QUEUED"
                      /\ ~(exec'[q].phase \in Alive /\ Judged(q))
    BY <1>8 DEF ExecutorsSound, Judged
  <2> HIDE DEF r
  <2> QED BY <1>8, <1>9, <1>10 DEF VerdictInv, ExecutorsSound
<1>12. SegmentsShaped' /\ StatementsSound'
  <2>1. WellShaped(<<>>) /\ 1 .. Len(<<>>) = {}
    BY DEF WellShaped
  <2> QED BY <1>1, <1>6, <2>1 DEF SegmentsShaped, StatementsSound
<1> QED BY <1>11, <1>12 DEF VerdictInv

LEMMA TailOfTwo ==
  ASSUME NEW S, NEW t \in Seq(S), Len(t) = 2, NEW s \in S
  PROVE  Tail(t) = <<t[2]>> /\ t[2] \in S /\ <<s>> \o Tail(t) = <<s, t[2]>>
<1>1. t # <<>> /\ t[2] \in S
  BY EmptySeq, ElementOfSeq
<1>2. Tail(t) \in Seq(S) /\ Len(Tail(t)) = 1 /\ Tail(t)[1] = t[2]
  BY <1>1, HeadTailProperties
<1> DEFINE e == t[2]
<1> HIDE DEF e
<1>3. <<e>> \in Seq(S) /\ Len(<<e>>) = 1 /\ <<e>>[1] = e
  BY <1>1 DEF e
<1>4. Tail(t) = <<e>>
  <2> DEFINE u == Tail(t)
             v == <<e>>
  <2>1. u \in Seq(S) /\ v \in Seq(S) /\ Len(u) = Len(v) /\ Len(u) = 1 /\ u[1] = v[1]
    BY <1>2, <1>3 DEF e
  <2> HIDE DEF u, v
  <2>2. \A i \in 1 .. Len(u) : u[i] = v[i]
    BY <2>1
  <2>3. u = v
    BY <2>1, <2>2, SeqEqual
  <2> QED BY <2>3 DEF u, v
<1>5. <<s>> \o <<e>> = <<s, e>>
  <2> DEFINE u == <<s>> \o <<e>>
             v == <<s, e>>
  <2>1. <<s>> \in Seq(S) /\ Len(<<s>>) = 1 /\ <<s>>[1] = s
    OBVIOUS
  <2>2. u \in Seq(S) /\ Len(u) = 2 /\ u[1] = s /\ u[2] = e
    BY <1>3, <2>1, ConcatProperties
  <2>3. v \in Seq(S) /\ Len(v) = 2 /\ v[1] = s /\ v[2] = e
    BY <1>1 DEF e
  <2> HIDE DEF u, v
  <2>4. \A i \in 1 .. Len(u) : u[i] = v[i]
    BY <2>2, <2>3
  <2>5. u = v
    BY <2>2, <2>3, <2>4, SeqEqual
  <2> QED BY <2>5 DEF u, v
<1> QED BY <1>1, <1>4, <1>5 DEF e

LEMMA StepVerdict ==
  ASSUME OneProcess, TypeOK, TypeOK', VerdictInv, NEW p \in Process, Step(p)
  PROVE  VerdictInv'
<1> DEFINE n == Len(runs)
           t == seg[p].todo
           cur == Cur(p)
<1>t. t # <<>>
  BY DEF Step, At, ExpireReadAgent, ExpireReadRun, ChooseRun, FollowUpReadAgent,
         FollowUpReadActive, FollowUpCount, FollowUpInsert, MarkRunStarting,
         MarkRunTerminal, ReadMaxSeq, InsertEvent, InsertEventConflict,
         CancelFindRun, Drive, DriveFails, ExecutorReturns
<1>n. /\ n \in Nat /\ n <= n /\ t \in Seq(StatementOver(n)) /\ cur = t[1] /\ cur \in StatementOver(n)
      /\ Len(t) \in Nat /\ 1 \in 1 .. Len(t)
  BY <1>t, AtStatement
<1>a. agent.active # NoRun => agent.active \in 1 .. n
  BY <1>n DEF TypeOK, NoRun
<1>c. Do("choose").do = "choose"
  BY DEF Do
<1>s. /\ SegmentsShaped /\ SoundAt(t, 1) /\ WellShaped(t)
  BY <1>n DEF VerdictInv, SegmentsShaped, StatementsSound
<1>f. /\ cur.do \in Alone \cup {"choose"} => Len(t) = 1 /\ Final(t).do # "stop"
      /\ cur.do \in {"expire", "expire_run"} =>
              Len(t) = 2 /\ Final(t).do # "stop" /\ t[2].do = "choose"
  BY <1>t, <1>s, AloneFinal DEF Alone
\* what replaces the only statement
<1>r. ASSUME NEW more \in Seq(StatementOver(n)), Continue(p, more), UNCHANGED <<runs, exec>>,
             cur.do \in Alone \cup {"choose"}, WellShaped(more), more # <<>>,
             \A i \in 1 .. Len(more) : more[i].do # "insert_event" /\ SoundAt(more, i)
      PROVE  VerdictInv'
  <2>1. seg'[p].todo = more
    BY <1>t, <1>n, <1>f, <1>r, Replaced
  <2>2. 1 \in 1 .. Len(more)
    BY <1>r, EmptySeq
  <2> QED BY <1>f, <1>r, <2>1, <2>2, NewTodo
<1>l. ASSUME Leave(p), UNCHANGED <<runs, exec>>, cur.do \in Alone PROVE VerdictInv'
  <2>1. seg'[p].todo = <<>>
    BY <1>l DEF Leave, Idle, TypeOK
  <2> QED BY <1>f, <1>l, <2>1, Leaves
<1>o. ASSUME NEW s \in StatementOver(n), s.do \in Alone
      PROVE  /\ <<s>> \in Seq(StatementOver(n)) /\ WellShaped(<<s>>) /\ <<s>> # <<>>
             /\ \A i \in 1 .. Len(<<s>>) : <<s>>[i].do # "insert_event" /\ SoundAt(<<s>>, i)
  <2>1. [do |-> "choose"].do = "choose"
    OBVIOUS
  <2>2. WellShaped(<<s>>)
    BY <1>o, <2>1, ShortShaped
  <2>3. 1 .. Len(<<s>>) = {1} /\ <<s>>[1] = s
    OBVIOUS
  <2> QED BY <1>o, <2>2, <2>3 DEF SoundAt, Alone
<1> HIDE DEF n, t, cur
<1>1. CASE ExpireReadAgent(p)
  <2>1. cur.do = "expire" /\ UNCHANGED <<runs, exec>>
    BY <1>1 DEF ExpireReadAgent, At, Cur, cur
  <2>2. CASE agent.active = NoRun
    BY <1>1, <1>t, <2>1, <2>2, Moves DEF ExpireReadAgent, t, cur
  <2>3. CASE agent.active # NoRun
    <3> DEFINE s == DoOn("expire_run", agent.active)
    <3>1. s \in StatementOver(n) /\ s.do = "expire_run"
      BY <1>n, <1>a, <2>3, DoOnType DEF DoOn
    <3>2. Continue(p, <<s>>)
      BY <1>1, <2>3 DEF ExpireReadAgent
    <3> HIDE DEF s
    <3>3. <<s>> \in Seq(StatementOver(n)) /\ Len(<<s>>) = 1 /\ <<s>>[1] = s
      BY <3>1
    <3>4. seg'[p].todo = <<s>> \o Tail(t) /\ Tail(t) \in Seq(StatementOver(n))
      BY <1>t, <1>n, <3>2, <3>3, ContinueTodo DEF t, n
    <3>5. t[2].do = "choose"
      BY <1>f, <2>1
    <3>6. <<s>> \o Tail(t) = <<s, t[2]>>
      BY <1>n, <1>f, <2>1, <3>1, TailOfTwo
    <3>7. WellShaped(<<s, t[2]>>)
      BY <3>1, <3>5, ShortShaped
    <3>8. \A i \in 1 .. Len(<<s, t[2]>>) :
            <<s, t[2]>>[i].do # "insert_event" /\ SoundAt(<<s, t[2]>>, i)
      BY <3>1, <3>5 DEF SoundAt
    <3>9. 1 \in 1 .. Len(<<s, t[2]>>)
      OBVIOUS
    <3> QED BY <1>f, <2>1, <3>4, <3>6, <3>7, <3>8, <3>9, NewTodo DEF t
  <2> QED BY <2>2, <2>3
<1>2. CASE ExpireReadRun(p)
  <2> DEFINE r == cur.r
  <2>1. cur.do = "expire_run" /\ UNCHANGED <<runs, exec>> /\ r \in 1 .. n
    BY <1>2, <1>n DEF ExpireReadRun, At, Cur, cur, StatementOver
  <2>2. CASE ~Live(r)
    BY <1>2, <1>t, <2>1, <2>2, Moves DEF ExpireReadRun, t, cur
  <2>3. CASE Live(r)
    <3> DEFINE u == ExpireScript(r) \o Tail(t)
    <3>1. ExpireScript(r) \in Seq(StatementOver(n))
      BY <1>n, <2>1, ScriptTypes DEF n
    <3>2. Continue(p, ExpireScript(r))
      BY <1>2, <2>3 DEF ExpireReadRun, cur
    <3>3. seg'[p].todo = u /\ Tail(t) \in Seq(StatementOver(n))
      BY <1>t, <1>n, <3>1, <3>2, ContinueTodo DEF t, n
    <3>4. t[2].do = "choose"
      BY <1>f, <2>1
    <3>5. Tail(t) = <<t[2]>> /\ t[2] \in StatementOver(n)
      BY <1>n, <1>f, <2>1, TailOfTwo
    <3>6. WellShaped(u)
      BY <3>4, <3>5, ScriptsShaped
    <3>7. /\ Len(u) = 3 /\ u[3] = t[2]
          /\ u[1].do = "mark" /\ u[1].r = r
          /\ u[2].do = "append"
      <4>1. /\ Len(ExpireScript(r) \o <<t[2]>>) = 3
            /\ (ExpireScript(r) \o <<t[2]>>)[1] = DoWith("mark", r, "EXPIRED")
            /\ (ExpireScript(r) \o <<t[2]>>)[2] = DoWith("append", r, "EXPIRED")
            /\ (ExpireScript(r) \o <<t[2]>>)[3] = t[2]
        BY <3>1, <3>5, ExpireStatements
      <4>2. u = ExpireScript(r) \o <<t[2]>>
        BY <3>5
      <4>3. /\ DoWith("mark", r, "EXPIRED").do = "mark" /\ DoWith("mark", r, "EXPIRED").r = r
            /\ DoWith("append", r, "EXPIRED").do = "append"
        BY DEF DoWith
      <4> HIDE DEF r, u
      <4> QED BY <4>1, <4>2, <4>3
    <3> HIDE DEF u
    <3>8. \A i \in 1 .. Len(u) : u[i].do # "insert_event" /\ SoundAt(u, i)
      <4>1. ~Judged(r)
        BY <2>3 DEF Live, Judged, Terminal
      <4>2. 1 .. Len(u) = {1, 2, 3}
        BY <3>7
      <4> QED BY <3>4, <3>7, <4>1, <4>2 DEF SoundAt
    <3>9. 1 \in 1 .. Len(u)
      BY <3>7
    <3> QED BY <1>f, <2>1, <3>3, <3>6, <3>8, <3>9, NewTodo DEF t
  <2> QED BY <2>2, <2>3
<1>3. CASE ChooseRun(p)
  <2> DEFINE w == pending[seg[p].h]
  <2>1. cur.do = "choose" /\ UNCHANGED <<runs, exec>>
    BY <1>3 DEF ChooseRun, At, Cur, cur
  <2>2. CASE w # NoRun /\ runs[w].status = "QUEUED"
    <3>1. w \in 1 .. n
      BY <2>2, <1>n DEF TypeOK, Segment, NoRun, n
    <3>2. Continue(p, StartScript(w))
      BY <1>3, <2>2 DEF ChooseRun
    <3> HIDE DEF w
    <3>3. StartScript(w) \in Seq(StatementOver(n))
      BY <1>n, <3>1, ScriptTypes
    <3>4. WellShaped(StartScript(w))
      BY <1>c, ScriptsShaped
    <3>5. /\ StartScript(w)[1].do = "start"
          /\ \A i \in 1 .. Len(StartScript(w)) :
               StartScript(w)[i].do \in {"start", "append", "drive"} /\ StartScript(w)[i].r = w
      BY ScriptStatements
    <3>6. \A i \in 1 .. Len(StartScript(w)) :
            StartScript(w)[i].do # "insert_event" /\ SoundAt(StartScript(w), i)
      BY <2>2, <3>5 DEF SoundAt, w
    <3>7. StartScript(w) # <<>>
      BY DEF StartScript
    <3> QED BY <1>r, <2>1, <3>2, <3>3, <3>4, <3>6, <3>7
  <2>3. CASE ~(w # NoRun /\ runs[w].status = "QUEUED")
    <3>1. Continue(p, <<Do("get_agent")>>)
      BY <1>3, <2>3 DEF ChooseRun
    <3>2. Do("get_agent") \in StatementOver(n) /\ Do("get_agent").do \in Alone
      BY <1>n, DoType DEF Do, Alone
    <3> QED BY <1>r, <1>o, <2>1, <3>1, <3>2
  <2> QED BY <2>2, <2>3
<1>4. CASE FollowUpReadAgent(p)
  <2>1. cur.do = "get_agent" /\ cur.do \in Alone /\ UNCHANGED <<runs, exec>>
    BY <1>4 DEF FollowUpReadAgent, At, Cur, cur, Alone
  <2>2. Do("count") \in StatementOver(n) /\ Do("count").do \in Alone
    BY <1>n, DoType DEF Do, Alone
  <2>3. agent.active # NoRun =>
          /\ DoOn("get_active", agent.active) \in StatementOver(n)
          /\ DoOn("get_active", agent.active).do \in Alone
    BY <1>n, <1>a, DoOnType DEF DoOn, Alone
  <2>4. \/ Leave(p)
        \/ Continue(p, <<Do("count")>>)
        \/ agent.active # NoRun /\ Continue(p, <<DoOn("get_active", agent.active)>>)
    BY <1>4 DEF FollowUpReadAgent
  <2>5. CASE Leave(p)
    BY <1>l, <2>1, <2>5
  <2>6. CASE Continue(p, <<Do("count")>>)
    BY <1>r, <1>o, <2>1, <2>2, <2>6
  <2>7. CASE agent.active # NoRun /\ Continue(p, <<DoOn("get_active", agent.active)>>)
    BY <1>r, <1>o, <2>1, <2>3, <2>7
  <2> QED BY <2>4, <2>5, <2>6, <2>7
<1>5. CASE FollowUpReadActive(p)
  <2>1. cur.do = "get_active" /\ cur.do \in Alone /\ UNCHANGED <<runs, exec>>
    BY <1>5 DEF FollowUpReadActive, At, Cur, cur, Alone
  <2>2. Do("count") \in StatementOver(n) /\ Do("count").do \in Alone
    BY <1>n, DoType DEF Do, Alone
  <2>3. CASE Leave(p)
    BY <1>l, <2>1, <2>3
  <2>4. CASE Continue(p, <<Do("count")>>)
    BY <1>r, <1>o, <2>1, <2>2, <2>4
  <2> QED BY <1>5, <2>3, <2>4 DEF FollowUpReadActive
<1>6. CASE FollowUpCount(p)
  <2> DEFINE s == [Do("insert_run") EXCEPT !.n = n]
  <2>1. cur.do = "count" /\ cur.do \in Alone /\ UNCHANGED <<runs, exec>>
    BY <1>6 DEF FollowUpCount, At, Cur, cur, Alone
  <2>2. s \in StatementOver(n) /\ s.do \in Alone
    BY <1>n, InsertRunType DEF Do, Alone
  <2>3. Leave(p) \/ Continue(p, <<s>>)
    BY <1>6 DEF FollowUpCount, n
  <2> HIDE DEF s
  <2>4. CASE Leave(p)
    BY <1>l, <2>1, <2>4
  <2>5. CASE Continue(p, <<s>>)
    BY <1>r, <1>o, <2>1, <2>2, <2>5
  <2> QED BY <2>3, <2>4, <2>5
<1>10. CASE ReadMaxSeq(p)
  <2> DEFINE u == seg'[p].todo
  <2>1. /\ t[1].do = "append" /\ Len(u) = Len(t) /\ u # <<>>
        /\ u[1].do = "insert_event" /\ u[1].r = t[1].r /\ u[1].arg = t[1].arg
        /\ u[1].n = Len(log[t[1].r])
        /\ \A i \in 2 .. Len(u) : u[i] = t[i]
        /\ u = <<u[1]>> \o Tail(t)
        /\ u[1] \in StatementOver(n)
    BY <1>10, Reads DEF t, n
  <2>2. UNCHANGED <<runs, exec, log>> /\ \A q \in Process : q = p
    BY <1>10 DEF ReadMaxSeq, OneProcess
  <2>3. WellShaped(u)
    <3>1. WellShaped(<<u[1]>> \o Tail(t))
      BY <1>n, <1>s, <1>t, <2>1, ReadShaped
    <3> QED BY <2>1, <3>1
  <2>4. SegmentsShaped'
    BY <2>1, <2>2, <2>3 DEF SegmentsShaped
  <2>5. StatementsSound'
    <3> SUFFICES ASSUME NEW i \in 1 .. Len(seg'[p].todo) PROVE SoundAt(seg[p].todo, i)'
      BY <2>2 DEF StatementsSound
    <3>1. SoundAt(t, i)
      BY <2>1 DEF VerdictInv, StatementsSound, t
    <3>2. seg'[p].todo[1].do # "start" /\ t[1].do # "start"
      BY <2>1
    <3>3. CASE i = 1
      BY <2>1, <3>3 DEF SoundAt
    <3>4. CASE i # 1
      <4>1. seg'[p].todo[i] = t[i]
        BY <2>1, <3>4, <1>n
      <4> QED BY <2>2, <3>1, <3>2, <4>1 DEF SoundAt, Judged
    <3> QED BY <3>3, <3>4
  <2>6. ExecutorsSound'
    <3>1. ASSUME NEW q, Ending(q) PROVE Ending(q)'
      <4>1. Final(t).do = "stop" /\ Final(t).r = q
        BY <2>2, <3>1 DEF Ending, t
      <4>2. Len(t) # 1
        BY <2>1, <4>1 DEF Final
      <4>3. Final(seg'[p].todo) = Final(t)
        BY <1>n, <2>1, <4>2 DEF Final
      <4> QED BY <2>1, <4>1, <4>3 DEF Ending, Final
    <3> QED BY <2>2, <3>1 DEF VerdictInv, ExecutorsSound, Judged
  <2> QED BY <2>4, <2>5, <2>6 DEF VerdictInv
<1>11. CASE InsertEvent(p)
  <2>1. Continue(p, <<>>) /\ cur.do = "insert_event" /\ UNCHANGED <<runs, exec>>
    BY <1>11 DEF InsertEvent, At, Cur, cur
  <2> QED BY <1>t, <2>1, Moves DEF t, cur
<1>12. CASE InsertEventConflict(p)
  <2>1. cur.do = "insert_event" /\ Len(log[cur.r]) # cur.n
    BY <1>12 DEF InsertEventConflict, At, Cur, cur
  <2> QED BY <1>n, <1>s, <1>t, <2>1 DEF SegmentsShaped, t
<1>13. CASE CancelFindRun(p)
  <2> DEFINE r == cur.r
  <2>1. cur.do = "find" /\ cur.do \in Alone /\ UNCHANGED <<runs, exec>> /\ r \in 1 .. n
    BY <1>13, <1>n DEF CancelFindRun, At, Cur, cur, Alone, StatementOver
  <2>2. CASE ~Live(r)
    BY <1>13, <1>t, <2>1, <2>2, Moves DEF CancelFindRun, t, cur
  <2>3. CASE Live(r)
    <3>1. Continue(p, CancelScript(r))
      BY <1>13, <2>3 DEF CancelFindRun, cur
    <3> HIDE DEF r
    <3>2. CancelScript(r) \in Seq(StatementOver(n)) /\ WellShaped(CancelScript(r))
      BY <1>n, <1>c, <2>1, ScriptTypes, ScriptsShaped
    <3>3. \A i \in 1 .. Len(CancelScript(r)) :
            CancelScript(r)[i].do \in {"mark", "append"} /\ CancelScript(r)[i].r = r
      BY ScriptStatements
    <3>4. ~Judged(r)
      BY <2>3 DEF Live, Judged, Terminal
    <3>5. \A i \in 1 .. Len(CancelScript(r)) :
            CancelScript(r)[i].do # "insert_event" /\ SoundAt(CancelScript(r), i)
      BY <3>3, <3>4 DEF SoundAt
    <3>6. CancelScript(r) # <<>>
      BY DEF CancelScript
    <3> QED BY <1>r, <2>1, <3>1, <3>2, <3>5, <3>6
  <2> QED BY <2>2, <2>3
<1>14. CASE DriveFails(p)
  <2>1. Cur(p).do = "drive" /\ Leave(p) /\ UNCHANGED <<runs, exec>>
    BY <1>14 DEF DriveFails, At, Cur
  <2>2. Final(seg[p].todo).do # "stop"
    BY <1>t, <1>s, <2>1, AloneFinal DEF t
  <2>3. seg'[p].todo = <<>>
    BY <2>1 DEF Leave, Idle, TypeOK
  <2> QED BY <2>1, <2>2, <2>3, Leaves
<1> QED BY <1>1, <1>2, <1>3, <1>4, <1>5, <1>6, <1>10, <1>11, <1>12, <1>13, <1>14,
           InsertVerdict, StartVerdict, MarkVerdict, FinalVerdict DEF Step

\* A segment begins: the process was in none.
LEMMA BeginVerdict ==
  ASSUME OneProcess, TypeOK, VerdictInv, UNCHANGED <<runs, exec>>, NEW p \in Process,
         NEW op, NEW h, NEW u, Begin(p, op, h, u), WellShaped(u), 1 \in 1 .. Len(u),
         \A i \in 1 .. Len(u) : u[i].do # "insert_event" /\ SoundAt(u, i)
  PROVE  VerdictInv'
<1>1. seg[p].todo = <<>> /\ seg'[p].todo = u
  BY DEF Begin, IsIdle, TypeOK
<1> QED BY <1>1, NewTodo

LEMMA FrameVerdict ==
  ASSUME VerdictInv, UNCHANGED <<runs, log, exec, seg>> PROVE VerdictInv'
BY DEF VerdictInv, SegmentsShaped, StatementsSound, SoundAt, ExecutorsSound, Ending, Judged

\* The segments stay or are dropped, and executors go.
LEMMA GoneVerdict ==
  ASSUME VerdictInv, UNCHANGED <<runs, log>>,
         \A p \in Process : seg'[p].todo = <<>>,
         \A r \in 1 .. Len(runs) :
           \/ exec'[r] = exec[r]
           \/ exec[r].phase \in Alive /\ exec'[r].phase \notin Alive,
         \A r \in 1 .. Len(runs) : exec'[r].phase \in Alive => ~Judged(r)
  PROVE  VerdictInv'
<1>1. WellShaped(<<>>) /\ 1 .. Len(<<>>) = {}
  BY DEF WellShaped
<1>2. SegmentsShaped' /\ StatementsSound'
  BY <1>1 DEF SegmentsShaped, StatementsSound
<1>3. ExecutorsSound'
  BY DEF VerdictInv, ExecutorsSound, Judged, Alive
<1> QED BY <1>2, <1>3 DEF VerdictInv

LEMMA ClientVerdict ==
  ASSUME OneProcess, TypeOK, VerdictInv, Client
  PROVE  VerdictInv'
<1>q. \A p, q \in Process : p = q
  BY DEF OneProcess
<1>c. Do("choose").do = "choose" /\ Do("expire").do = "expire"
  BY DEF Do
<1>l. Len(runs) \in Nat /\ Len(exec) = Len(runs) /\ DOMAIN exec = 1 .. Len(runs)
  BY DEF TypeOK
<1>1. ASSUME NEW h \in Handle, Resume(h) PROVE VerdictInv'
  BY <1>1, FrameVerdict DEF Resume
<1>2. ASSUME NEW h \in Handle, Close(h) PROVE VerdictInv'
  <2>1. /\ UNCHANGED <<runs, log, seg>>
        /\ exec' = [r \in DOMAIN exec |->
                IF exec[r].phase \in Alive /\ exec[r].h = h
                THEN [exec[r] EXCEPT !.phase = "gone"] ELSE exec[r]]
    BY <1>2 DEF Close
  <2>2. \A p \in Process : seg[p].todo = <<>> /\ seg'[p].todo = <<>>
    BY <1>2, <1>q, ConstantsAssumption DEF Close, IsIdle
  <2>3. \A r \in 1 .. Len(runs) :
          \/ exec'[r] = exec[r]
          \/ exec[r].phase \in Alive /\ exec'[r].phase = "gone"
    <3> TAKE r \in 1 .. Len(runs)
    <3>1. exec[r] \in [phase : Phase, h : Handle]
      BY <1>l, ElementOfSeq DEF TypeOK
    <3> DEFINE e == [exec[r] EXCEPT !.phase = "gone"]
    <3>2. e.phase = "gone"
      BY <3>1
    <3>3. exec'[r] = IF exec[r].phase \in Alive /\ exec[r].h = h THEN e ELSE exec[r]
      BY <1>l, <2>1
    <3> HIDE DEF e
    <3> QED BY <3>2, <3>3
  <2>4. \A r : ~Ending(r)
    BY <2>2 DEF Ending
  <2>5. \A r \in 1 .. Len(runs) : exec'[r].phase \in Alive => ~Judged(r)
    BY <2>3, <2>4 DEF VerdictInv, ExecutorsSound, Alive
  <2> QED BY <2>1, <2>2, <2>3, <2>5, GoneVerdict DEF Alive
<1>3. ASSUME NEW h \in Handle, NEW force \in BOOLEAN, Send(h, force) PROVE VerdictInv'
  <2>1. ProcOf[h] \in Process /\ UNCHANGED <<runs, exec>>
    BY <1>3, ConstantsAssumption DEF Send
  <2>2. CASE Begin(ProcOf[h], "force", h, <<Do("expire"), Do("choose")>>)
    <3>1. WellShaped(<<Do("expire"), Do("choose")>>)
      BY <1>c, ShortShaped
    <3>2. \A i \in 1 .. Len(<<Do("expire"), Do("choose")>>) :
            /\ <<Do("expire"), Do("choose")>>[i].do # "insert_event"
            /\ SoundAt(<<Do("expire"), Do("choose")>>, i)
      BY <1>c DEF SoundAt
    <3>3. 1 \in 1 .. Len(<<Do("expire"), Do("choose")>>)
      OBVIOUS
    <3> QED BY <2>1, <2>2, <3>1, <3>2, <3>3, BeginVerdict
  <2>3. CASE Begin(ProcOf[h], "send", h, <<Do("choose")>>)
    <3>1. WellShaped(<<Do("choose")>>)
      BY <1>c, ShortShaped
    <3>2. \A i \in 1 .. Len(<<Do("choose")>>) :
            /\ <<Do("choose")>>[i].do # "insert_event"
            /\ SoundAt(<<Do("choose")>>, i)
      BY <1>c DEF SoundAt
    <3>3. 1 \in 1 .. Len(<<Do("choose")>>)
      OBVIOUS
    <3> QED BY <2>1, <2>3, <3>1, <3>2, <3>3, BeginVerdict
  <2> QED BY <1>3, <2>2, <2>3 DEF Send
<1>4. ASSUME NEW p \in Process, Crash(p) PROVE VerdictInv'
  <2>1. /\ UNCHANGED <<runs, log>>
        /\ seg' = [seg EXCEPT ![p] = Idle]
        /\ exec' = [r \in DOMAIN exec |->
                IF exec[r].phase \in Alive /\ ProcOf[exec[r].h] = p
                THEN [exec[r] EXCEPT !.phase = "gone"] ELSE exec[r]]
    BY <1>4 DEF Crash
  <2>2. \A q \in Process : seg'[q].todo = <<>>
    BY <1>q, <2>1 DEF TypeOK, Idle
  <2>3. \A r \in 1 .. Len(runs) : exec[r] \in [phase : Phase, h : Handle] /\ ProcOf[exec[r].h] = p
    <3> TAKE r \in 1 .. Len(runs)
    <3>1. exec[r] \in [phase : Phase, h : Handle]
      BY <1>l, ElementOfSeq DEF TypeOK
    <3> QED BY <3>1, <1>q, ConstantsAssumption
  <2>4. \A r \in 1 .. Len(runs) :
          /\ exec[r].phase \in Alive => exec'[r].phase = "gone"
          /\ exec[r].phase \notin Alive => exec'[r] = exec[r]
    BY <1>l, <2>1, <2>3
  <2> QED BY <2>1, <2>2, <2>4, GoneVerdict DEF Alive
<1>5. ASSUME NEW p \in Process, NEW r \in DOMAIN runs, Cancel(p, r) PROVE VerdictInv'
  <2>1. DoOn("find", r).do = "find" /\ UNCHANGED <<runs, exec>>
    BY <1>5 DEF DoOn, Cancel
  <2>2. Begin(p, "cancel", Creator, <<DoOn("find", r)>>)
    BY <1>5 DEF Cancel
  <2>3. WellShaped(<<DoOn("find", r)>>)
    BY <1>c, <2>1, ShortShaped DEF Alone
  <2>4. \A i \in 1 .. Len(<<DoOn("find", r)>>) :
          /\ <<DoOn("find", r)>>[i].do # "insert_event"
          /\ SoundAt(<<DoOn("find", r)>>, i)
    BY <2>1 DEF SoundAt
  <2>5. 1 \in 1 .. Len(<<DoOn("find", r)>>)
    OBVIOUS
  <2> QED BY <2>1, <2>2, <2>3, <2>4, <2>5, BeginVerdict
<1>6. ASSUME NEW p \in Process, NEW status, SetAgentStatus(p, status) PROVE VerdictInv'
  BY <1>6, FrameVerdict DEF SetAgentStatus
<1> QED BY <1>1, <1>2, <1>3, <1>4, <1>5, <1>6 DEF Client

LEMMA ExecutorVerdict ==
  ASSUME OneProcess, TypeOK, VerdictInv, NEW r \in DOMAIN exec, Executor(r)
  PROVE  VerdictInv'
<1>q. \A p, q \in Process : p = q
  BY DEF OneProcess
<1>l. Len(runs) \in Nat /\ Len(exec) = Len(runs) /\ r \in 1 .. Len(runs)
  BY DEF TypeOK
<1>h. ProcOfRun(r) \in Process
  <2>1. exec[r] \in [phase : Phase, h : Handle]
    BY <1>l, ElementOfSeq DEF TypeOK
  <2> QED BY <2>1, ConstantsAssumption DEF ProcOfRun
<1>a. ASSUME IsIdle(ProcOfRun(r)), exec[r].phase \in Alive
      PROVE  /\ ~Judged(r) /\ runs[r].status # "QUEUED"
             /\ \A p \in Process : seg[p].todo = <<>>
  <2>1. \A p \in Process : seg[p].todo = <<>>
    BY <1>a, <1>h, <1>q DEF IsIdle
  <2> QED BY <1>a, <1>l, <2>1 DEF VerdictInv, ExecutorsSound, Ending, Alive
<1>1. ASSUME NEW from \in Alive, NEW to \in Alive \cup {"gone"}, Turns(r, from, to)
      PROVE  VerdictInv'
  <2>1. /\ UNCHANGED <<runs, log, seg>> /\ ~Judged(r) /\ runs[r].status # "QUEUED"
        /\ \A p \in Process : seg[p].todo = <<>>
        /\ exec' = [exec EXCEPT ![r].phase = to]
    BY <1>1, <1>a DEF Turns
  <2>2. \A q \in 1 .. Len(runs) : q # r => exec'[q] = exec[q]
    BY <2>1, <1>l DEF TypeOK
  <2>3. SegmentsShaped' /\ StatementsSound'
    BY <2>1 DEF VerdictInv, SegmentsShaped, StatementsSound, SoundAt
  <2>4. \A q : ~Ending(q)
    BY <2>1 DEF Ending
  <2>5. ExecutorsSound'
    <3> SUFFICES ASSUME NEW q \in 1 .. Len(runs)
                 PROVE  /\ exec'[q].phase # "none" => runs[q].status # "QUEUED"
                        /\ exec'[q].phase \in Alive => ~Judged(q)
      BY <2>1 DEF ExecutorsSound, Judged
    <3> QED BY <2>1, <2>2, <2>4 DEF VerdictInv, ExecutorsSound
  <2> QED BY <2>3, <2>5 DEF VerdictInv
<1>2. ASSUME Emit(r) PROVE VerdictInv'
  <2> DEFINE s == DoWith("append", r, "progress")
  <2>1. s.do = "append" /\ s.arg \notin Terminal /\ Do("choose").do = "choose"
    BY DEF DoWith, Terminal, Do
  <2>2. Begin(ProcOfRun(r), "turn", exec[r].h, <<s>>) /\ UNCHANGED <<runs, exec>>
    BY <1>2 DEF Emit
  <2> HIDE DEF s
  <2>3. WellShaped(<<s>>)
    BY <2>1, ShortShaped
  <2>4. \A i \in 1 .. Len(<<s>>) : <<s>>[i].do # "insert_event" /\ SoundAt(<<s>>, i)
    BY <2>1 DEF SoundAt
  <2>5. 1 \in 1 .. Len(<<s>>)
    OBVIOUS
  <2> QED BY <1>h, <2>2, <2>3, <2>4, <2>5, BeginVerdict
<1>3. ASSUME NEW status \in {"FINISHED", "ERROR"}, NEW op, exec[r].phase \in Alive,
             Begin(ProcOfRun(r), op, exec[r].h, EndScript(r, status)), UNCHANGED <<runs, exec>>
      PROVE  VerdictInv'
  <2>1. ~Judged(r)
    BY <1>3, <1>a DEF Begin
  <2>2. WellShaped(EndScript(r, status))
    <3>1. Do("choose").do = "choose"
      BY DEF Do
    <3> QED BY <3>1, ScriptsShaped
  <2>3. \A i \in 1 .. Len(EndScript(r, status)) :
          EndScript(r, status)[i].do \in {"mark", "append", "stop"} /\ EndScript(r, status)[i].r = r
    BY ScriptStatements
  <2>4. \A i \in 1 .. Len(EndScript(r, status)) :
          EndScript(r, status)[i].do # "insert_event" /\ SoundAt(EndScript(r, status), i)
    BY <1>3, <2>1, <2>3 DEF SoundAt
  <2>5. 1 \in 1 .. Len(EndScript(r, status))
    BY DEF EndScript
  <2> QED BY <1>h, <1>3, <2>2, <2>4, <2>5, BeginVerdict
<1>4. CASE Startup(r)
  BY <1>1, <1>4 DEF Startup, StartupDone, StartupFails, Alive
<1>5. CASE StreamFails(r)
  BY <1>1, <1>5 DEF StreamFails, Alive
<1>6. CASE StreamAborted(r)
  BY <1>1, <1>6 DEF StreamAborted, Alive
<1>7. CASE TurnEnds(r)
  BY <1>3, <1>7 DEF TurnEnds, EndTurn, Alive
<1>8. CASE RunFails(r)
  BY <1>3, <1>8 DEF RunFails, Alive
<1> QED BY <1>2, <1>4, <1>5, <1>6, <1>7, <1>8 DEF Executor, TurnStops

LEMMA InitVerdict == Init => VerdictInv
<1> SUFFICES ASSUME Init PROVE VerdictInv
  OBVIOUS
<1>1. WellShaped(<<>>) /\ 1 .. Len(<<>>) = {}
  BY DEF WellShaped
<1>2. \A p \in Process : seg[p].todo = <<>>
  BY DEF Init, Idle
<1>3. Len(runs) = 1 /\ exec[1].phase = "none" /\ runs[1].status = "QUEUED"
  BY DEF Init
<1>4. SegmentsShaped /\ StatementsSound
  BY <1>1, <1>2 DEF SegmentsShaped, StatementsSound
<1>5. ExecutorsSound
  <2> SUFFICES ASSUME NEW r \in 1 .. Len(runs) PROVE r = 1
    BY <1>3 DEF ExecutorsSound, Alive
  <2> QED BY <1>3
<1> QED BY <1>4, <1>5 DEF VerdictInv

LEMMA NextVerdict ==
  ASSUME OneProcess, TypeOK, TypeOK', VerdictInv, [Next]_vars
  PROVE  VerdictInv'
<1>1. CASE UNCHANGED vars
  BY <1>1, FrameVerdict DEF vars
<1> QED BY <1>1, StepVerdict, ClientVerdict, ExecutorVerdict DEF Next

\* In one process, the rows and the executors are as the statements still to be
\* executed take them to be.
THEOREM VerdictInvCorrect == ASSUME OneProcess PROVE Spec => []VerdictInv
<1>1. Init => VerdictInv
  BY InitVerdict
<1>2. TypeOK /\ TypeOK' /\ VerdictInv /\ [Next]_vars => VerdictInv'
  BY NextVerdict
<1> QED BY <1>1, <1>2, TypeCorrect, PTL DEF Spec

-----------------------------------------------------------------------------
(* What follows for the rows of the runs. *)

LEMMA JudgedStays ==
  ASSUME OneProcess, TypeOK, VerdictInv, [Next]_vars,
         NEW r \in DOMAIN runs, runs[r].status \in {"FINISHED", "ERROR"}
  PROVE  runs'[r].status = runs[r].status
<1>d. DOMAIN runs = 1 .. Len(runs) /\ r \in 1 .. Len(runs) /\ Len(runs) \in Nat
  BY DEF TypeOK
<1>1. CASE runs' = runs
  BY <1>1
<1>2. ASSUME NEW p \in Process, FollowUpInsert(p) PROVE runs'[r].status = runs[r].status
  BY <1>2, <1>d DEF FollowUpInsert, TypeOK
<1>3. ASSUME NEW p \in Process, MarkRunStarting(p) \/ MarkRunTerminal(p)
      PROVE  runs'[r].status = runs[r].status
  <2>1. seg[p].todo # <<>> /\ Cur(p).do \in {"start", "mark"}
    BY <1>3 DEF MarkRunStarting, MarkRunTerminal, At, Cur
  <2>2. Cur(p) = seg[p].todo[1] /\ SoundAt(seg[p].todo, 1)
    BY <2>1, AtStatement DEF VerdictInv, StatementsSound
  <2>3. Cur(p).r # r
    BY <2>1, <2>2 DEF SoundAt, Judged
  <2> QED BY <1>3, <2>3 DEF MarkRunStarting, MarkRunTerminal
<1>4. [Next]_vars => runs' = runs \/ \E p \in Process :
         FollowUpInsert(p) \/ MarkRunStarting(p) \/ MarkRunTerminal(p)
  BY DEF Next, vars, Step, ExpireReadAgent, ExpireReadRun, ChooseRun, FollowUpReadAgent,
         FollowUpReadActive, FollowUpCount, ReadMaxSeq, InsertEvent, InsertEventConflict,
         CancelFindRun, Drive, DriveFails, ExecutorReturns, Client, Resume, Close, Send, Crash, Cancel,
         SetAgentStatus, Executor, Startup, StartupDone, StartupFails, TurnStops, TurnEnds,
         StreamFails, StreamAborted, Turns, Emit, EndTurn, RunFails
<1> QED BY <1>1, <1>2, <1>3, <1>4

\* In one process the verdict of an executor is final: no cancel, force or start
\* that was decided before it overwrites it (mark_run_terminal and
\* mark_run_starting are UPDATEs without a condition).
THEOREM VerdictIsFinalCorrect == ASSUME OneProcess PROVE Spec => VerdictIsFinal
<1>1. TypeOK /\ VerdictInv /\ [Next]_vars =>
        [\A r \in DOMAIN runs :
          runs[r].status \in {"FINISHED", "ERROR"} => runs'[r].status = runs[r].status]_vars
  BY JudgedStays
<1> QED BY <1>1, TypeCorrect, VerdictInvCorrect, PTL DEF Spec, VerdictIsFinal

-----------------------------------------------------------------------------
(* A forced send. *)

\* With the statements t of a forced send still to be executed: the active run is
\* about to be looked at and ended, a run has been chosen, or none is active.
Unblocked(t, active) ==
  \/ t[1].do = "expire"
  \/ t[1].do = "expire_run" /\ t[1].r = active
  \/ \E i \in 1 .. Len(t) : t[i].do = "mark"
  \/ Final(t).do = "drive"
  \/ active = NoRun

ForceInv ==
  \A p \in Process :
    seg[p].op = "force" /\ seg[p].todo # <<>> => Unblocked(seg[p].todo, agent.active)

LEMMA ForceStays ==
  ASSUME OneProcess, TypeOK, ForceInv, NEW p \in Process,
         seg'[p].op = "force" /\ seg'[p].todo # <<>> => Unblocked(seg'[p].todo, agent'.active)
  PROVE  ForceInv'
<1>1. \A q \in Process : q = p
  BY DEF OneProcess
<1> QED BY <1>1 DEF ForceInv, Unblocked, Final

\* A statement that is done and leaves active_run_id alone.
LEMMA ForceMoves ==
  ASSUME OneProcess, TypeOK, ForceInv, NEW p \in Process, seg[p].todo # <<>>,
         Continue(p, <<>>), Cur(p).do \notin {"expire", "expire_run", "mark"},
         agent'.active = agent.active \/ Final(seg[p].todo).do = "drive"
  PROVE  ForceInv'
<1> DEFINE t == seg[p].todo
           u == seg'[p].todo
<1> SUFFICES ASSUME seg'[p].op = "force", u # <<>> PROVE Unblocked(u, agent'.active)
  BY ForceStays
<1>1. Cur(p) = t[1]
  BY AtStatement
<1>2. /\ Len(u) = Len(t) - 1 /\ Final(u) = Final(t) /\ seg[p].op = "force"
      /\ \A i \in 1 .. Len(u) : i + 1 \in 1 .. Len(t) /\ u[i] = t[i + 1]
      /\ Len(t) \in Nat
  BY MovesOn, AtStatement
<1>3. Unblocked(t, agent.active)
  BY <1>2 DEF ForceInv
<1> HIDE DEF t, u
<1>4. ASSUME NEW i \in 1 .. Len(t), t[i].do = "mark" PROVE \E j \in 1 .. Len(u) : u[j].do = "mark"
  <2>1. i # 1
    BY <1>1, <1>4
  <2>2. i - 1 \in 1 .. Len(u) /\ u[i - 1] = t[i]
    BY <1>2, <2>1
  <2> QED BY <1>4, <2>2
<1> QED BY <1>1, <1>2, <1>3, <1>4 DEF Unblocked, t

\* A statement that stands alone, or the choice of the run, is replaced.
LEMMA ForceReplaced ==
  ASSUME OneProcess, TypeOK, VerdictInv, ForceInv, NEW p \in Process, seg[p].todo # <<>>,
         Cur(p).do \in Alone \cup {"choose"}, NEW n \in Nat, Len(runs) <= n,
         NEW more \in Seq(StatementOver(n)), Continue(p, more),
         agent'.active = agent.active \/ Final(more).do = "drive"
  PROVE  ForceInv'
<1>1. Len(seg[p].todo) = 1 /\ Final(seg[p].todo) = Cur(p) /\ Cur(p) = seg[p].todo[1]
  BY AloneFinal, AtStatement DEF VerdictInv
<1>2. seg'[p].todo = more /\ (seg'[p].todo # <<>> => seg'[p].op = seg[p].op)
  BY <1>1, Replaced
<1>3. seg[p].op = "force" => agent.active = NoRun
  <2> SUFFICES ASSUME seg[p].op = "force" PROVE agent.active = NoRun
    OBVIOUS
  <2>1. Unblocked(seg[p].todo, agent.active)
    BY DEF ForceInv
  <2>2. 1 .. Len(seg[p].todo) = {1}
    BY <1>1
  <2> QED BY <1>1, <2>1, <2>2 DEF Unblocked, Alone
<1> QED BY <1>2, <1>3, ForceStays DEF Unblocked

LEMMA ForceLeaves ==
  ASSUME OneProcess, TypeOK, ForceInv, NEW p \in Process, Leave(p)
  PROVE  ForceInv'
<1>1. seg'[p].todo = <<>>
  BY DEF Leave, Idle, TypeOK
<1> QED BY <1>1, ForceStays

LEMMA StepForce ==
  ASSUME OneProcess, TypeOK, TypeOK', ActiveRunInv, VerdictInv, ForceInv,
         NEW p \in Process, Step(p)
  PROVE  ForceInv'
<1> DEFINE n == Len(runs)
           t == seg[p].todo
<1>t. t # <<>>
  BY DEF Step, At, ExpireReadAgent, ExpireReadRun, ChooseRun, FollowUpReadAgent,
         FollowUpReadActive, FollowUpCount, FollowUpInsert, MarkRunStarting,
         MarkRunTerminal, ReadMaxSeq, InsertEvent, InsertEventConflict,
         CancelFindRun, Drive, DriveFails, ExecutorReturns
<1>n. /\ n \in Nat /\ n <= n /\ t \in Seq(StatementOver(n)) /\ Cur(p) = t[1]
      /\ Cur(p) \in StatementOver(n) /\ Len(t) \in Nat /\ 1 \in 1 .. Len(t)
  BY <1>t, AtStatement
<1>a. agent.active # NoRun => agent.active \in 1 .. n
  BY <1>n DEF TypeOK, NoRun
<1>s. WellShaped(t) /\ ShapedAt(t, 1) /\ SegmentsShaped
  BY <1>n DEF VerdictInv, SegmentsShaped, WellShaped
<1>h. seg[p].h \in Handle
  BY DEF TypeOK, Segment
<1> HIDE DEF n
<1>1. CASE ExpireReadAgent(p)
  <2>1. agent' = agent
    BY <1>1 DEF ExpireReadAgent
  <2>2. CASE agent.active = NoRun
    BY <2>1, <2>2, ForceStays DEF Unblocked
  <2>3. CASE agent.active # NoRun
    <3> DEFINE s == DoOn("expire_run", agent.active)
    <3>1. s \in StatementOver(n) /\ s.do = "expire_run" /\ s.r = agent.active
      BY <1>n, <1>a, <2>3, DoOnType DEF DoOn
    <3>2. Continue(p, <<s>>)
      BY <1>1, <2>3 DEF ExpireReadAgent
    <3> HIDE DEF s
    <3>3. <<s>> \in Seq(StatementOver(n)) /\ Len(<<s>>) = 1 /\ <<s>>[1] = s
      BY <3>1
    <3>4. seg'[p].todo = <<s>> \o Tail(t) /\ Tail(t) \in Seq(StatementOver(n))
      BY <1>t, <1>n, <3>2, <3>3, ContinueTodo DEF n
    <3>5. seg'[p].todo[1] = s
      BY <3>3, <3>4, ConcatProperties
    <3> QED BY <2>1, <3>1, <3>5, ForceStays DEF Unblocked
  <2> QED BY <2>2, <2>3
<1>2. CASE ExpireReadRun(p)
  <2> DEFINE r == Cur(p).r
  <2>1. Cur(p).do = "expire_run" /\ agent' = agent /\ r \in 1 .. n
    BY <1>2, <1>n DEF ExpireReadRun, At, Cur, StatementOver
  <2>2. CASE ~Live(r)
    <3>1. Continue(p, <<>>)
      BY <1>2, <2>2 DEF ExpireReadRun
    <3>2. seg'[p].todo # <<>> => seg'[p].op = seg[p].op
      BY <1>t, <3>1, MovesOn
    <3>3. Len(t) = 2 /\ t[2].do = "choose"
      BY <1>n, <1>s, <2>1 DEF ShapedAt
    <3>4. seg[p].op = "force" => agent.active = NoRun
      <4> SUFFICES ASSUME seg[p].op = "force" PROVE agent.active = NoRun
        OBVIOUS
      <4>1. Unblocked(t, agent.active)
        BY <1>t DEF ForceInv
      <4>2. 1 .. Len(t) = {1, 2} /\ Final(t) = t[2]
        BY <3>3 DEF Final
      <4>3. t[1].do = "expire_run" /\ t[1].r = r
        BY <1>n, <2>1
      <4>4. agent.active = r => agent.active = NoRun
        BY <2>2 DEF ActiveRunInv, ActiveIsNewestLive
      <4> HIDE DEF t, r
      <4> QED BY <3>3, <4>1, <4>2, <4>3, <4>4 DEF Unblocked
    <3> QED BY <2>1, <3>2, <3>4, ForceStays DEF Unblocked
  <2>3. CASE Live(r)
    <3>1. ExpireScript(r) \in Seq(StatementOver(n))
      BY <1>n, <2>1, ScriptTypes
    <3>2. Continue(p, ExpireScript(r))
      BY <1>2, <2>3 DEF ExpireReadRun
    <3>3. seg'[p].todo = ExpireScript(r) \o Tail(t) /\ Tail(t) \in Seq(StatementOver(n))
      BY <1>t, <1>n, <3>1, <3>2, ContinueTodo DEF n
    <3>4. Len(ExpireScript(r)) = 2 /\ ExpireScript(r)[1].do = "mark" /\ Len(Tail(t)) \in Nat
      BY <3>3, LenProperties DEF ExpireScript, DoWith
    <3>5. 1 \in 1 .. Len(seg'[p].todo) /\ seg'[p].todo[1].do = "mark"
      <4> DEFINE a == ExpireScript(r)
                 b == Tail(t)
                 u == seg'[p].todo
      <4>1. a \in Seq(StatementOver(n)) /\ b \in Seq(StatementOver(n)) /\ u = a \o b
        BY <3>1, <3>3
      <4>2. Len(a) = 2 /\ Len(b) \in Nat /\ a[1].do = "mark"
        BY <3>4
      <4> HIDE DEF a, b, u
      <4>3. 1 \in 1 .. Len(u) /\ u[1] = a[1]
        BY <4>1, <4>2, ConcatProperties
      <4> QED BY <4>2, <4>3 DEF u
    <3> QED BY <3>5, ForceStays DEF Unblocked
  <2> QED BY <2>2, <2>3
<1>3. CASE ChooseRun(p)
  <2> DEFINE w == pending[seg[p].h]
  <2>1. Cur(p).do = "choose" /\ agent' = agent
    BY <1>3 DEF ChooseRun, At, Cur
  <2>2. CASE w # NoRun /\ runs[w].status = "QUEUED"
    <3>1. w \in 1 .. n
      BY <2>2, <1>h, <1>n DEF TypeOK, NoRun, n
    <3>2. Continue(p, StartScript(w))
      BY <1>3, <2>2 DEF ChooseRun
    <3> QED BY <1>t, <1>n, <2>1, <3>1, <3>2, ScriptTypes, ForceReplaced DEF n
  <2>3. CASE ~(w # NoRun /\ runs[w].status = "QUEUED")
    <3>1. Continue(p, <<Do("get_agent")>>)
      BY <1>3, <2>3 DEF ChooseRun
    <3>2. Do("get_agent") \in StatementOver(n)
      BY <1>n, DoType
    <3>3. <<Do("get_agent")>> \in Seq(StatementOver(n))
      BY <3>2
    <3> QED BY <1>t, <1>n, <2>1, <3>1, <3>3, ForceReplaced DEF n
  <2> QED BY <2>2, <2>3
<1>4. CASE FollowUpReadAgent(p) \/ FollowUpReadActive(p)
  <2>1. Cur(p).do \in Alone /\ agent' = agent
    BY <1>4 DEF FollowUpReadAgent, FollowUpReadActive, At, Cur, Alone
  <2>2. <<Do("count")>> \in Seq(StatementOver(n))
    <3>1. Do("count") \in StatementOver(n)
      BY <1>n, DoType
    <3> QED BY <3>1
  <2>3. agent.active # NoRun => <<DoOn("get_active", agent.active)>> \in Seq(StatementOver(n))
    <3>1. agent.active # NoRun => DoOn("get_active", agent.active) \in StatementOver(n)
      BY <1>n, <1>a, DoOnType
    <3> QED BY <3>1
  <2>4. \/ Leave(p)
        \/ Continue(p, <<Do("count")>>)
        \/ agent.active # NoRun /\ Continue(p, <<DoOn("get_active", agent.active)>>)
    BY <1>4 DEF FollowUpReadAgent, FollowUpReadActive
  <2>5. CASE Leave(p)
    BY <2>5, ForceLeaves
  <2>6. CASE Continue(p, <<Do("count")>>)
    BY <1>t, <1>n, <2>1, <2>2, <2>6, ForceReplaced DEF n
  <2>7. CASE agent.active # NoRun /\ Continue(p, <<DoOn("get_active", agent.active)>>)
    BY <1>t, <1>n, <2>1, <2>3, <2>7, ForceReplaced DEF n
  <2> QED BY <2>4, <2>5, <2>6, <2>7
<1>5. CASE FollowUpCount(p)
  <2> DEFINE s == [Do("insert_run") EXCEPT !.n = n]
  <2>1. Cur(p).do \in Alone /\ agent' = agent
    BY <1>5 DEF FollowUpCount, At, Cur, Alone
  <2>2. s \in StatementOver(n)
    BY <1>n, InsertRunType
  <2>3. Leave(p) \/ Continue(p, <<s>>)
    BY <1>5 DEF FollowUpCount, n
  <2> HIDE DEF s
  <2>4. <<s>> \in Seq(StatementOver(n))
    BY <2>2
  <2>5. CASE Leave(p)
    BY <2>5, ForceLeaves
  <2>6. CASE Continue(p, <<s>>)
    BY <1>t, <1>n, <2>1, <2>4, <2>6, ForceReplaced DEF n
  <2> QED BY <2>3, <2>5, <2>6
<1>6. CASE FollowUpInsert(p)
  <2>1. Cur(p).do \in Alone /\ Continue(p, StartScript(n + 1))
    BY <1>6 DEF FollowUpInsert, At, Cur, Alone, n
  <2>2. n + 1 \in Nat /\ n <= n + 1 /\ n + 1 \in 1 .. n + 1
    BY <1>n
  <2>3. StartScript(n + 1) \in Seq(StatementOver(n + 1))
    BY <2>2, ScriptTypes
  <2>4. Final(StartScript(n + 1)).do = "drive"
    BY DEF Final, StartScript, DoOn
  <2> QED BY <1>t, <2>1, <2>2, <2>3, <2>4, ForceReplaced DEF n
<1>7. CASE MarkRunStarting(p)
  <2>1. Cur(p).do = "start" /\ Continue(p, <<>>)
    BY <1>7 DEF MarkRunStarting, At, Cur
  <2>2. Final(t).do = "drive"
    BY <1>n, <1>s, <2>1 DEF ShapedAt
  <2> QED BY <1>t, <2>1, <2>2, ForceMoves
<1>8. CASE MarkRunTerminal(p)
  <2>1. agent'.active = NoRun
    BY <1>8 DEF MarkRunTerminal
  <2> QED BY <2>1, ForceStays DEF Unblocked
<1>9. CASE ReadMaxSeq(p)
  <2> DEFINE u == seg'[p].todo
  <2>1. /\ t[1].do = "append" /\ Len(u) = Len(t) /\ u[1].do = "insert_event"
        /\ \A i \in 2 .. Len(u) : u[i] = t[i]
        /\ seg'[p].op = seg[p].op
    BY <1>9, Reads
  <2>2. agent' = agent
    BY <1>9 DEF ReadMaxSeq
  <2> SUFFICES ASSUME seg[p].op = "force" PROVE Unblocked(u, agent.active)
    BY <2>1, <2>2, ForceStays
  <2>3. Unblocked(t, agent.active)
    BY <1>t DEF ForceInv
  <2> HIDE DEF t, u
  <2>4. \A i \in 1 .. Len(t) : t[i].do = "mark" => u[i].do = "mark"
    BY <1>n, <2>1
  <2>5. Final(t).do = "drive" => Final(u).do = "drive"
    BY <1>n, <2>1 DEF Final
  <2> QED BY <2>1, <2>3, <2>4, <2>5 DEF Unblocked
<1>10. CASE InsertEvent(p) \/ Drive(p) \/ ExecutorReturns(p)
  <2>1. /\ Cur(p).do \in {"insert_event", "drive", "stop"}
        /\ Continue(p, <<>>) /\ agent' = agent
    BY <1>10 DEF InsertEvent, Drive, ExecutorReturns, At, Cur
  <2> QED BY <1>t, <2>1, ForceMoves
<1>11. CASE InsertEventConflict(p)
  BY <1>11, ForceLeaves DEF InsertEventConflict
<1>12. CASE CancelFindRun(p)
  <2>1. Cur(p).do \in Alone /\ agent' = agent /\ Cur(p).r \in 1 .. n
    BY <1>12, <1>n DEF CancelFindRun, At, Cur, Alone, StatementOver
  <2>2. CancelScript(Cur(p).r) \in Seq(StatementOver(n)) /\ <<>> \in Seq(StatementOver(n))
    BY <1>n, <2>1, ScriptTypes, EmptySeq
  <2>3. Continue(p, CancelScript(Cur(p).r)) \/ Continue(p, <<>>)
    BY <1>12 DEF CancelFindRun
  <2> QED BY <1>t, <1>n, <2>1, <2>2, <2>3, ForceReplaced DEF n
<1>13. CASE DriveFails(p)
  BY <1>13, ForceLeaves DEF DriveFails
<1> QED BY <1>1, <1>2, <1>3, <1>4, <1>5, <1>6, <1>7, <1>8, <1>9, <1>10, <1>11, <1>12, <1>13
        DEF Step

\* What is not a step of a segment begins one, drops one or leaves it.
LEMMA OtherForce ==
  ASSUME OneProcess, TypeOK, ForceInv, Client \/ \E r \in DOMAIN exec : Executor(r)
  PROVE  ForceInv'
<1>q. \A p, q \in Process : p = q
  BY DEF OneProcess
<1>1. ASSUME agent'.active = agent.active, seg' = seg PROVE ForceInv'
  BY <1>1 DEF ForceInv
<1>2. ASSUME NEW p \in Process, NEW op, NEW h, NEW u, op = "force" => u[1].do = "expire",
             Begin(p, op, h, u)
      PROVE  ForceInv'
  <2>1. seg'[p].op = op /\ seg'[p].todo = u
    BY <1>2 DEF Begin, TypeOK
  <2> QED BY <1>2, <2>1, ForceStays DEF Unblocked
<1>3. ASSUME NEW h \in Handle, NEW force \in BOOLEAN, Send(h, force) PROVE ForceInv'
  <2>1. ProcOf[h] \in Process /\ <<Do("expire"), Do("choose")>>[1].do = "expire"
    BY ConstantsAssumption DEF Do
  <2> QED BY <1>2, <1>3, <2>1 DEF Send
<1>4. ASSUME NEW p \in Process, Crash(p) PROVE ForceInv'
  BY <1>4, ForceLeaves DEF Crash, Leave
<1>5. ASSUME NEW r \in DOMAIN exec PROVE ProcOfRun(r) \in Process
  <2>1. r \in 1 .. Len(exec)
    BY DEF TypeOK
  <2>2. exec[r] \in [phase : Phase, h : Handle]
    BY <2>1, ElementOfSeq DEF TypeOK
  <2> QED BY <2>2, ConstantsAssumption DEF ProcOfRun
<1>6. CASE Client
  <2>1. ASSUME NEW h \in Handle, Resume(h) \/ Close(h) PROVE ForceInv'
    BY <1>1, <2>1 DEF Resume, Close
  <2>2. ASSUME NEW p \in Process, NEW r, Cancel(p, r) PROVE ForceInv'
    BY <1>2, <2>2 DEF Cancel
  <2>3. ASSUME NEW p \in Process, NEW status, SetAgentStatus(p, status) PROVE ForceInv'
    <3>1. agent'.active = agent.active /\ seg' = seg
      BY <2>3 DEF SetAgentStatus, TypeOK
    <3> QED BY <3>1, <1>1
  <2> QED BY <1>3, <1>4, <1>6, <2>1, <2>2, <2>3 DEF Client
<1>7. ASSUME NEW r \in DOMAIN exec, Executor(r) PROVE ForceInv'
  BY <1>1, <1>2, <1>5, <1>7 DEF Executor, Startup, StartupDone, StartupFails, TurnStops,
     TurnEnds, StreamFails, StreamAborted, Turns, Emit, EndTurn, RunFails
<1> QED BY <1>6, <1>7

\* In one process a forced send is never refused as busy: when create_follow_up_run
\* reads the agent row, expire_active_run has ended what was active.
THEOREM ForceUnblocksCorrect == ASSUME OneProcess PROVE Spec => []ForceUnblocks
<1>1. Init => ForceInv
  BY DEF Init, Idle, ForceInv
<1>2. TypeOK /\ TypeOK' /\ ActiveRunInv /\ VerdictInv /\ ForceInv /\ [Next]_vars => ForceInv'
  <2>1. ForceInv /\ UNCHANGED vars => ForceInv'
    BY DEF ForceInv, vars
  <2> QED BY <2>1, StepForce, OtherForce DEF Next
<1>3. TypeOK /\ VerdictInv /\ ForceInv => ForceUnblocks
  <2> SUFFICES ASSUME TypeOK, VerdictInv, ForceInv, NEW p \in Process,
                      At(p, "get_agent"), seg[p].op = "force"
               PROVE  agent.active = NoRun
    BY DEF ForceUnblocks
  <2>1. seg[p].todo # <<>> /\ Cur(p).do = "get_agent"
    BY DEF At, Cur
  <2>2. Len(seg[p].todo) = 1 /\ Final(seg[p].todo) = Cur(p) /\ Cur(p) = seg[p].todo[1]
    BY <2>1, AloneFinal, AtStatement DEF VerdictInv, Alone
  <2>3. Unblocked(seg[p].todo, agent.active) /\ 1 .. Len(seg[p].todo) = {1}
    BY <2>1, <2>2 DEF ForceInv
  <2> QED BY <2>1, <2>2, <2>3 DEF Unblocked
<1> QED BY <1>1, <1>2, <1>3, TypeCorrect, ActiveRunCorrect, VerdictInvCorrect, PTL DEF Spec

-----------------------------------------------------------------------------
(* Without forced sends and cancels: one turn at a time. *)

Undisturbed == Ops \cap {"force", "cancel"} = {}

\* Then the only ends are those of the executors.
Plain(s) ==
  /\ s.do \notin {"expire", "expire_run", "find"}
  /\ s.do = "mark" => s.arg \in {"FINISHED", "ERROR"}

PlainSegments == \A p \in Process : \A i \in 1 .. Len(seg[p].todo) : Plain(seg[p].todo[i])

\* The active run is the only one that has not ended.
OneTurn ==
  /\ Len(runs) # 0
  /\ \A r \in 1 .. Len(runs) :
       /\ runs[r].status \notin {"CANCELLED", "EXPIRED"}
       /\ Live(r) => agent.active = r

LEMMA PlainContinue ==
  ASSUME OneProcess, TypeOK, PlainSegments, NEW p \in Process, seg[p].todo # <<>>,
         NEW n \in Nat, Len(runs) <= n, NEW more \in Seq(StatementOver(n)), Continue(p, more),
         \A i \in 1 .. Len(more) : Plain(more[i])
  PROVE  PlainSegments'
<1> DEFINE t == seg[p].todo
           u == seg'[p].todo
           rest == Tail(t)
<1>1. \A q \in Process : q = p
  BY DEF OneProcess
<1>2. /\ u = more \o rest /\ rest \in Seq(StatementOver(n)) /\ t \in Seq(StatementOver(n))
  BY ContinueTodo
<1>3. /\ Len(t) \in Nat /\ Len(rest) = Len(t) - 1 /\ Len(rest) \in Nat
      /\ \A i \in 1 .. Len(rest) : i + 1 \in 1 .. Len(t) /\ rest[i] = t[i + 1]
  BY <1>2, HeadTailProperties, LenProperties
<1>4. \A i \in 1 .. Len(rest) : Plain(rest[i])
  BY <1>3 DEF PlainSegments
<1>5. /\ Len(u) = Len(more) + Len(rest) /\ Len(more) \in Nat
      /\ \A i \in 1 .. Len(u) : u[i] = IF i <= Len(more) THEN more[i] ELSE rest[i - Len(more)]
  <2> HIDE DEF rest
  <2> QED BY <1>2, ConcatProperties, LenProperties
<1> HIDE DEF t, u, rest
<1>6. ASSUME NEW i \in 1 .. Len(u) PROVE Plain(u[i])
  <2>1. CASE i <= Len(more)
    BY <1>5, <2>1
  <2>2. CASE ~(i <= Len(more))
    <3>1. i - Len(more) \in 1 .. Len(rest) /\ u[i] = rest[i - Len(more)]
      BY <1>3, <1>5, <2>2
    <3> QED BY <1>4, <3>1
  <2> QED BY <2>1, <2>2
<1> QED BY <1>1, <1>6 DEF PlainSegments, Plain, u

\* The statements that are no ends, and the end that an executor writes.
LEMMA PlainStatements ==
  ASSUME NEW r, NEW status \in {"FINISHED", "ERROR"}
  PROVE  /\ \A i \in 1 .. Len(StartScript(r)) : Plain(StartScript(r)[i])
         /\ \A i \in 1 .. Len(EndScript(r, status)) : Plain(EndScript(r, status)[i])
         /\ \A s : s.do \in {"choose", "get_agent", "get_active", "count", "insert_run",
                             "append", "insert_event"} =>
                     \A i \in 1 .. Len(<<s>>) : Plain(<<s>>[i])
<1>1. \A i \in 1 .. Len(StartScript(r)) : Plain(StartScript(r)[i])
  BY ScriptStatements DEF Plain
<1>2. \A i \in 1 .. Len(EndScript(r, status)) : Plain(EndScript(r, status)[i])
  BY DEF EndScript, DoWith, DoOn, Plain
<1>3. ASSUME NEW s, s.do \in {"choose", "get_agent", "get_active", "count", "insert_run",
                             "append", "insert_event"}
      PROVE  \A i \in 1 .. Len(<<s>>) : Plain(<<s>>[i])
  BY <1>3 DEF Plain
<1> QED BY <1>1, <1>2, <1>3

LEMMA PlainStep ==
  ASSUME OneProcess, TypeOK, PlainSegments, NEW p \in Process, Step(p)
  PROVE  PlainSegments'
<1> DEFINE n == Len(runs)
           t == seg[p].todo
<1>t. t # <<>>
  BY DEF Step, At, ExpireReadAgent, ExpireReadRun, ChooseRun, FollowUpReadAgent,
         FollowUpReadActive, FollowUpCount, FollowUpInsert, MarkRunStarting,
         MarkRunTerminal, ReadMaxSeq, InsertEvent, InsertEventConflict,
         CancelFindRun, Drive, DriveFails, ExecutorReturns
<1>n. /\ n \in Nat /\ n <= n /\ t \in Seq(StatementOver(n)) /\ Cur(p) = t[1]
      /\ Cur(p) \in StatementOver(n) /\ 1 \in 1 .. Len(t)
  BY <1>t, AtStatement
<1>a. agent.active # NoRun => agent.active \in 1 .. n
  BY <1>n DEF TypeOK, NoRun
<1>h. seg[p].h \in Handle
  BY DEF TypeOK, Segment
<1>p. Plain(Cur(p))
  BY <1>n DEF PlainSegments
<1>e. ASSUME Continue(p, <<>>) PROVE PlainSegments'
  <2>1. <<>> \in Seq(StatementOver(n)) /\ 1 .. Len(<<>>) = {}
    BY EmptySeq
  <2> QED BY <1>e, <1>t, <1>n, <2>1, PlainContinue
<1>o. ASSUME NEW s \in StatementOver(n), Continue(p, <<s>>),
             s.do \in {"choose", "get_agent", "get_active", "count", "insert_run",
                       "append", "insert_event"}
      PROVE  PlainSegments'
  <2>1. <<s>> \in Seq(StatementOver(n)) /\ \A i \in 1 .. Len(<<s>>) : Plain(<<s>>[i])
    BY <1>o, PlainStatements
  <2> QED BY <1>o, <1>t, <1>n, <2>1, PlainContinue
<1>l. ASSUME Leave(p) PROVE PlainSegments'
  <2>1. \A q \in Process : seg'[q].todo = <<>>
    BY <1>l DEF Leave, Idle, TypeOK, OneProcess
  <2>2. 1 .. Len(<<>>) = {}
    OBVIOUS
  <2> QED BY <2>1, <2>2 DEF PlainSegments
<1> HIDE DEF n, t
<1>1. CASE ExpireReadAgent(p) \/ ExpireReadRun(p) \/ CancelFindRun(p)
  BY <1>1, <1>p DEF ExpireReadAgent, ExpireReadRun, CancelFindRun, At, Cur, Plain
<1>2. CASE ChooseRun(p)
  <2> DEFINE w == pending[seg[p].h]
  <2>1. CASE w # NoRun /\ runs[w].status = "QUEUED"
    <3>1. w \in 1 .. n
      BY <2>1, <1>h, <1>n DEF TypeOK, NoRun, n
    <3>2. Continue(p, StartScript(w))
      BY <1>2, <2>1 DEF ChooseRun
    <3>3. StartScript(w) \in Seq(StatementOver(n))
      BY <1>n, <3>1, ScriptTypes
    <3> QED BY <1>t, <1>n, <3>2, <3>3, PlainStatements, PlainContinue DEF t, n
  <2>2. CASE ~(w # NoRun /\ runs[w].status = "QUEUED")
    BY <1>2, <1>n, <1>o, <2>2, DoType DEF ChooseRun, Do
  <2> QED BY <2>1, <2>2
<1>3. CASE FollowUpReadAgent(p)
  <2>1. Do("count") \in StatementOver(n) /\ Do("count").do = "count"
    BY <1>n, DoType DEF Do
  <2>2. agent.active # NoRun => /\ DoOn("get_active", agent.active) \in StatementOver(n)
                                /\ DoOn("get_active", agent.active).do = "get_active"
    BY <1>n, <1>a, DoOnType DEF DoOn
  <2> QED BY <1>3, <1>o, <1>l, <2>1, <2>2 DEF FollowUpReadAgent
<1>4. CASE FollowUpReadActive(p)
  <2>1. Do("count") \in StatementOver(n) /\ Do("count").do = "count"
    BY <1>n, DoType DEF Do
  <2> QED BY <1>4, <1>o, <1>l, <2>1 DEF FollowUpReadActive
<1>5. CASE FollowUpCount(p)
  <2> DEFINE s == [Do("insert_run") EXCEPT !.n = n]
  <2>1. s \in StatementOver(n) /\ s.do = "insert_run"
    BY <1>n, InsertRunType DEF Do
  <2>2. Leave(p) \/ Continue(p, <<s>>)
    BY <1>5 DEF FollowUpCount, n
  <2> HIDE DEF s
  <2> QED BY <1>o, <1>l, <2>1, <2>2
<1>6. CASE FollowUpInsert(p)
  <2>1. Continue(p, StartScript(n + 1))
    BY <1>6 DEF FollowUpInsert, n
  <2>2. n + 1 \in Nat /\ n <= n + 1 /\ n + 1 \in 1 .. n + 1
    BY <1>n
  <2>3. StartScript(n + 1) \in Seq(StatementOver(n + 1))
    BY <2>2, ScriptTypes
  <2>4. \A i \in 1 .. Len(StartScript(n + 1)) : Plain(StartScript(n + 1)[i])
    BY PlainStatements
  <2> QED BY <1>t, <2>1, <2>2, <2>3, <2>4, PlainContinue DEF t, n
<1>7. CASE ReadMaxSeq(p)
  <2> DEFINE s == [Cur(p) EXCEPT !.do = "insert_event", !.n = Len(log[Cur(p).r])]
  <2>1. Continue(p, <<s>>)
    BY <1>7 DEF ReadMaxSeq
  <2>2. s \in StatementOver(n) /\ s.do = "insert_event"
    <3>1. Cur(p) = seg[p].todo[1]
      BY <1>n DEF t
    <3>2. /\ seg'[p].todo[1] = s /\ seg'[p].todo[1] \in StatementOver(Len(runs))
          /\ seg'[p].todo[1].do = "insert_event"
      BY <1>7, <3>1, Reads
    <3> HIDE DEF s
    <3> QED BY <3>2 DEF n
  <2> HIDE DEF s
  <2> QED BY <1>o, <2>1, <2>2
<1>8. CASE MarkRunStarting(p) \/ MarkRunTerminal(p) \/ InsertEvent(p) \/ Drive(p) \/ ExecutorReturns(p)
  BY <1>8, <1>e DEF MarkRunStarting, MarkRunTerminal, InsertEvent, Drive, ExecutorReturns
<1>9. CASE InsertEventConflict(p) \/ DriveFails(p)
  BY <1>9, <1>l DEF InsertEventConflict, DriveFails
<1> QED BY <1>1, <1>2, <1>3, <1>4, <1>5, <1>6, <1>7, <1>8, <1>9 DEF Step

LEMMA PlainOther ==
  ASSUME OneProcess, Undisturbed, TypeOK, PlainSegments, Client \/ \E r \in DOMAIN exec : Executor(r)
  PROVE  PlainSegments'
<1>1. ASSUME seg' = seg PROVE PlainSegments'
  BY <1>1 DEF PlainSegments
<1>2. ASSUME NEW p \in Process, NEW op, NEW h, NEW u, \A i \in 1 .. Len(u) : Plain(u[i]),
             Begin(p, op, h, u)
      PROVE  PlainSegments'
  <2>1. \A q \in Process : seg'[q].todo = u
    BY <1>2 DEF Begin, TypeOK, OneProcess
  <2> QED BY <1>2, <2>1 DEF PlainSegments
<1>3. ASSUME NEW h \in Handle, NEW force \in BOOLEAN, Send(h, force) PROVE PlainSegments'
  <2>1. ProcOf[h] \in Process /\ Do("choose").do = "choose"
    BY ConstantsAssumption DEF Do
  <2>2. \A i \in 1 .. Len(<<Do("choose")>>) : Plain(<<Do("choose")>>[i])
    BY <2>1, PlainStatements
  <2> QED BY <1>2, <1>3, <2>1, <2>2 DEF Send, Undisturbed
<1>4. ASSUME NEW p \in Process, Crash(p) PROVE PlainSegments'
  <2>1. \A q \in Process : seg'[q].todo = <<>>
    BY <1>4 DEF Crash, Idle, TypeOK, OneProcess
  <2>2. 1 .. Len(<<>>) = {}
    OBVIOUS
  <2> QED BY <2>1, <2>2 DEF PlainSegments
<1>5. ASSUME NEW r \in DOMAIN exec PROVE ProcOfRun(r) \in Process
  <2>1. r \in 1 .. Len(exec)
    BY DEF TypeOK
  <2>2. exec[r] \in [phase : Phase, h : Handle]
    BY <2>1, ElementOfSeq DEF TypeOK
  <2> QED BY <2>2, ConstantsAssumption DEF ProcOfRun
<1>6. CASE Client
  <2>1. ASSUME NEW h \in Handle, Resume(h) \/ Close(h) PROVE PlainSegments'
    BY <1>1, <2>1 DEF Resume, Close
  <2>2. ASSUME NEW p \in Process, NEW r PROVE ~Cancel(p, r)
    BY DEF Cancel, Undisturbed
  <2>3. ASSUME NEW p \in Process, NEW status, SetAgentStatus(p, status) PROVE PlainSegments'
    BY <1>1, <2>3 DEF SetAgentStatus
  <2> QED BY <1>3, <1>4, <1>6, <2>1, <2>2, <2>3 DEF Client
<1>7. ASSUME NEW r \in DOMAIN exec, Executor(r) PROVE PlainSegments'
  <2>1. CASE Emit(r)
    <3>1. DoWith("append", r, "progress").do = "append"
      BY DEF DoWith
    <3>2. \A i \in 1 .. Len(<<DoWith("append", r, "progress")>>) :
             Plain(<<DoWith("append", r, "progress")>>[i])
      BY <3>1, PlainStatements
    <3> QED BY <1>2, <1>5, <2>1, <3>2 DEF Emit
  <2>2. ASSUME NEW status \in {"FINISHED", "ERROR"}, EndTurn(r, status) PROVE PlainSegments'
    BY <1>2, <1>5, <2>2, PlainStatements DEF EndTurn
  <2>3. CASE RunFails(r)
    BY <1>2, <1>5, <2>3, PlainStatements DEF RunFails
  <2> QED BY <1>1, <1>7, <2>1, <2>2, <2>3 DEF Executor, Startup, StartupDone, StartupFails,
         TurnStops, TurnEnds, StreamFails, StreamAborted, Turns
<1> QED BY <1>6, <1>7

\* What a statement does to the rows: it adds the run that follows, starts the
\* active one, or records its end.
LEMMA TurnStep ==
  ASSUME OneProcess, TypeOK, ActiveRunInv, VerdictInv, PlainSegments, OneTurn, [Next]_vars
  PROVE  \/ runs' = runs /\ agent'.active = agent.active
         \/ \E k \in Nat :
              /\ agent.active = NoRun
              /\ runs' = Append(runs, [status |-> "QUEUED", turn |-> k])
              /\ agent'.active = Len(runs) + 1
         \/ /\ agent.active = Len(runs) /\ runs[Len(runs)].status = "QUEUED"
            /\ runs' = [runs EXCEPT ![Len(runs)].status = "RUNNING"]
            /\ agent'.active = agent.active
         \/ \E to \in {"FINISHED", "ERROR"} :
              /\ agent.active = Len(runs) /\ runs[Len(runs)].status = "RUNNING"
              /\ runs' = [runs EXCEPT ![Len(runs)].status = to]
              /\ agent'.active = NoRun
<1> DEFINE n == Len(runs)
<1>n. n \in Nat /\ n # 0 /\ Len(exec) = n
  BY DEF TypeOK, OneTurn
<1>a. agent.active # NoRun => agent.active = n
  BY DEF ActiveRunInv, ActiveIsNewestLive
<1>1. ASSUME NEW p \in Process, FollowUpInsert(p)
      PROVE  \E k \in Nat :
              /\ agent.active = NoRun
              /\ runs' = Append(runs, [status |-> "QUEUED", turn |-> k])
              /\ agent'.active = n + 1
  <2>1. agent.active = NoRun
    BY <1>1 DEF FollowUpInsert, ActiveRunInv, ChecksHold
  <2>2. runs' = Append(runs, [status |-> "QUEUED", turn |-> Cur(p).n + 1]) /\ agent'.active = n + 1
    BY <1>1 DEF FollowUpInsert
  <2>3. Cur(p).n + 1 \in Nat
    <3>1. seg[p].todo # <<>>
      BY <1>1 DEF FollowUpInsert, At
    <3>2. Cur(p) \in StatementOver(n)
      BY <3>1, AtStatement
    <3> QED BY <3>2 DEF StatementOver, Statement
  <2> QED BY <2>1, <2>2, <2>3
<1>2. ASSUME NEW p \in Process, MarkRunStarting(p)
      PROVE  /\ agent.active = n /\ runs[n].status = "QUEUED"
             /\ runs' = [runs EXCEPT ![n].status = "RUNNING"] /\ agent'.active = agent.active
  <2>1. seg[p].todo # <<>> /\ Cur(p).do = "start" /\ At(p, "start")
    BY <1>2 DEF MarkRunStarting, At, Cur
  <2>2. Cur(p) = seg[p].todo[1] /\ Cur(p) \in StatementOver(n) /\ SoundAt(seg[p].todo, 1)
    BY <2>1, AtStatement DEF VerdictInv, StatementsSound
  <2>3. Cur(p).r \in 1 .. n /\ runs[Cur(p).r].status = "QUEUED"
    BY <2>1, <2>2 DEF StatementOver, SoundAt
  <2>4. Cur(p).r = agent.active
    BY <2>1 DEF ActiveRunInv, ChecksHold
  <2>5. Cur(p).r = n
    BY <1>a, <1>n, <2>3, <2>4 DEF NoRun
  <2> QED BY <1>2, <2>3, <2>4, <2>5 DEF MarkRunStarting
<1>3. ASSUME NEW p \in Process, MarkRunTerminal(p)
      PROVE  \E to \in {"FINISHED", "ERROR"} :
              /\ agent.active = n /\ runs[n].status = "RUNNING"
              /\ runs' = [runs EXCEPT ![n].status = to]
              /\ agent'.active = NoRun
  <2> DEFINE t == seg[p].todo
             r == Cur(p).r
  <2>1. t # <<>> /\ Cur(p).do = "mark"
    BY <1>3 DEF MarkRunTerminal, At, Cur
  <2>2. /\ Cur(p) = t[1] /\ Cur(p) \in StatementOver(n) /\ 1 \in 1 .. Len(t) /\ Len(t) \in Nat
        /\ Len(t) \in 1 .. Len(t)
    BY <2>1, AtStatement
  <2>3. SoundAt(t, 1) /\ SoundAt(t, Len(t)) /\ ShapedAt(t, 1) /\ ShapedAt(t, Len(t)) /\ Plain(t[1])
    BY <2>2 DEF VerdictInv, StatementsSound, SegmentsShaped, WellShaped, PlainSegments
  <2>4. r \in 1 .. n /\ Cur(p).arg \in {"FINISHED", "ERROR"}
    BY <2>1, <2>2, <2>3 DEF StatementOver, Plain
  <2>5. Final(t).do = "stop"
    BY <2>1, <2>2, <2>3, <2>4 DEF ShapedAt
  <2>6. Final(t).r = r
    BY <2>1, <2>2, <2>3, <2>5 DEF ShapedAt, Final
  <2>7. exec[r].phase \in Alive
    BY <2>3, <2>5, <2>6 DEF SoundAt, Final
  <2>8. runs[r].status # "QUEUED"
    BY <2>4, <2>7 DEF VerdictInv, ExecutorsSound, Alive
  <2>9. ~Judged(r)
    BY <2>1, <2>2, <2>3 DEF SoundAt
  <2>10. runs[r].status = "RUNNING"
    <3>1. runs[r] \in [status : RunStatus, turn : Nat]
      BY <2>4, ElementOfSeq DEF TypeOK
    <3>2. runs[r].status \notin {"CANCELLED", "EXPIRED"}
      BY <2>4 DEF OneTurn
    <3> QED BY <2>8, <2>9, <3>1, <3>2 DEF RunStatus, Terminal, Judged
  <2>11. agent.active = r /\ r = n
    <3>1. agent.active = r
      BY <2>4, <2>10 DEF OneTurn, Live, Terminal
    <3> QED BY <1>a, <2>4, <3>1 DEF NoRun
  <2>12. runs' = [runs EXCEPT ![r].status = Cur(p).arg] /\ agent'.active = NoRun
    BY <1>3 DEF MarkRunTerminal
  <2> HIDE DEF r
  <2> QED BY <2>4, <2>10, <2>11, <2>12
<1>4. ASSUME NEW p \in Process, NEW status, SetAgentStatus(p, status)
      PROVE  runs' = runs /\ agent'.active = agent.active
  BY <1>4 DEF SetAgentStatus, TypeOK
<1>5. \/ UNCHANGED <<runs, agent>>
      \/ \E p \in Process :
           \/ FollowUpInsert(p) \/ MarkRunStarting(p) \/ MarkRunTerminal(p)
           \/ \E status : SetAgentStatus(p, status)
  BY DEF Next, vars, Step, ExpireReadAgent, ExpireReadRun, ChooseRun, FollowUpReadAgent,
         FollowUpReadActive, FollowUpCount, ReadMaxSeq, InsertEvent, InsertEventConflict,
         CancelFindRun, Drive, DriveFails, ExecutorReturns, Client, Resume, Close, Send, Crash, Cancel,
         Executor, Startup, StartupDone, StartupFails, TurnStops, TurnEnds,
         StreamFails, StreamAborted, Turns, Emit, EndTurn, RunFails
<1> HIDE DEF n
<1>6. CASE UNCHANGED <<runs, agent>>
  BY <1>6
<1>7. CASE \E p \in Process : FollowUpInsert(p)
  BY <1>1, <1>7 DEF n
<1>8. CASE \E p \in Process : MarkRunStarting(p)
  BY <1>2, <1>8 DEF n
<1>9. CASE \E p \in Process : MarkRunTerminal(p)
  BY <1>3, <1>9 DEF n
<1>10. CASE \E p \in Process : \E status : SetAgentStatus(p, status)
  BY <1>4, <1>10
<1> QED BY <1>5, <1>6, <1>7, <1>8, <1>9, <1>10

\* What a change of one run's status leaves of the others.
LEMMA OtherRuns ==
  ASSUME TypeOK, NEW r \in 1 .. Len(runs), NEW to \in RunStatus,
         runs' = [runs EXCEPT ![r].status = to]
  PROVE  /\ Len(runs') = Len(runs) /\ DOMAIN runs' = DOMAIN runs /\ runs'[r].status = to
         /\ \A q \in 1 .. Len(runs) : q # r => runs'[q] = runs[q]
<1>1. runs \in Seq([status : RunStatus, turn : Nat])
  BY DEF TypeOK
<1> QED BY <1>1, StatusOfRun

LEMMA NextOneTurn ==
  ASSUME TypeOK, OneTurn, OneProcess, ActiveRunInv, VerdictInv, PlainSegments, [Next]_vars
  PROVE  OneTurn'
<1> DEFINE n == Len(runs)
<1>n. n \in Nat /\ n # 0 /\ n \in 1 .. n
  BY DEF TypeOK, OneTurn
<1>1. CASE runs' = runs /\ agent'.active = agent.active
  BY <1>1 DEF OneTurn, Live
<1>2. ASSUME NEW k \in Nat, agent.active = NoRun, agent'.active = n + 1,
             runs' = Append(runs, [status |-> "QUEUED", turn |-> k])
      PROVE  OneTurn'
  <2>1. /\ Len(runs') = n + 1 /\ runs'[n + 1].status = "QUEUED"
        /\ \A q \in 1 .. n : runs'[q] = runs[q]
    BY <1>2, <1>n DEF TypeOK
  <2>2. \A q \in 1 .. n : ~Live(q)
    BY <1>2, <1>n DEF OneTurn, NoRun
  <2> QED BY <1>2, <1>n, <2>1, <2>2 DEF OneTurn, Live
<1>3. CASE /\ agent.active = n
           /\ runs' = [runs EXCEPT ![n].status = "RUNNING"]
           /\ agent'.active = agent.active
  <2>1. /\ Len(runs') = n /\ runs'[n].status = "RUNNING"
        /\ \A q \in 1 .. n : q # n => runs'[q] = runs[q]
    BY <1>3, <1>n, OtherRuns DEF RunStatus
  <2> QED BY <1>3, <1>n, <2>1 DEF OneTurn, Live
<1>4. ASSUME NEW to \in {"FINISHED", "ERROR"}, agent.active = n,
             runs' = [runs EXCEPT ![n].status = to], agent'.active = NoRun
      PROVE  OneTurn'
  <2>1. /\ Len(runs') = n /\ runs'[n].status = to
        /\ \A q \in 1 .. n : q # n => runs'[q] = runs[q]
    BY <1>4, <1>n, OtherRuns DEF RunStatus, Terminal
  <2> QED BY <1>4, <1>n, <2>1 DEF OneTurn, Live, Terminal
<1> QED BY <1>1, <1>2, <1>3, <1>4, TurnStep

LEMMA TurnInvCorrect ==
  ASSUME OneProcess, Undisturbed
  PROVE  Spec => [](PlainSegments /\ OneTurn)
<1>1. Init => PlainSegments /\ OneTurn
  <2> SUFFICES ASSUME Init PROVE PlainSegments /\ OneTurn
    OBVIOUS
  <2>1. 1 .. Len(<<>>) = {}
    OBVIOUS
  <2>2. PlainSegments
    BY <2>1 DEF Init, Idle, PlainSegments
  <2>3. OneTurn
    BY DEF Init, OneTurn
  <2> QED BY <2>2, <2>3
<1>2. TypeOK /\ ActiveRunInv /\ VerdictInv /\ PlainSegments /\ OneTurn /\ [Next]_vars
        => (PlainSegments /\ OneTurn)'
  <2>1. PlainSegments /\ UNCHANGED vars => PlainSegments'
    BY DEF PlainSegments, vars
  <2> QED BY <2>1, PlainStep, PlainOther, NextOneTurn DEF Next
<1> QED BY <1>1, <1>2, TypeCorrect, ActiveRunCorrect, VerdictInvCorrect, PTL DEF Spec

\* In one process whose clients neither cancel nor force, the agent has at most
\* one run that has not ended: the busy check of create_follow_up_run suffices.
THEOREM OneLiveRunCorrect ==
  ASSUME OneProcess, Undisturbed
  PROVE  Spec => []OneLiveRun
<1>1. TypeOK /\ OneTurn => OneLiveRun
  BY DEF TypeOK, OneTurn, OneLiveRun
<1> QED BY <1>1, TypeCorrect, TurnInvCorrect, PTL

-----------------------------------------------------------------------------
(* The refinement. *)

TurnRow == [r \in DOMAIN runs |-> TurnOf(runs[r].status)]

LEMMA TurnRowType ==
  ASSUME NEW rows \in Seq([status : RunStatus, turn : Nat])
  PROVE  LET u == [r \in DOMAIN rows |-> TurnOf(rows[r].status)]
         IN  /\ u \in Seq({"queued", "running", "ended"}) /\ Len(u) = Len(rows)
             /\ \A r \in 1 .. Len(rows) : u[r] = TurnOf(rows[r].status)
<1> DEFINE u == [r \in DOMAIN rows |-> TurnOf(rows[r].status)]
           S == {"queued", "running", "ended"}
<1>1. /\ DOMAIN rows = 1 .. Len(rows) /\ Len(rows) \in Nat
      /\ \A r \in 1 .. Len(rows) : u[r] = TurnOf(rows[r].status)
  OBVIOUS
<1>2. \A r \in 1 .. Len(rows) : u[r] \in S
  BY <1>1 DEF TurnOf
<1>3. u = [r \in 1 .. Len(rows) |-> u[r]]
  BY <1>1
<1> HIDE DEF u, S
<1>4. u \in [1 .. Len(rows) -> S]
  BY <1>2, <1>3
<1>5. u \in Seq(S) /\ Len(u) = Len(rows)
  BY <1>1, <1>4
<1> QED BY <1>1, <1>5 DEF u, S

LEMMA TurnRefined ==
  ASSUME OneProcess, TypeOK, TypeOK', ActiveRunInv, VerdictInv, PlainSegments, OneTurn, [Next]_vars
  PROVE  [Agent!Next]_TurnRow
<1> DEFINE n == Len(runs)
           S == {"queued", "running", "ended"}
<1>n. n \in Nat /\ n # 0 /\ n \in 1 .. n
  BY DEF TypeOK, OneTurn
<1>1. /\ TurnRow \in Seq(S) /\ Len(TurnRow) = n
      /\ \A r \in 1 .. n : TurnRow[r] = TurnOf(runs[r].status)
  BY TurnRowType DEF TypeOK, TurnRow
<1>2. /\ TurnRow' \in Seq(S) /\ Len(TurnRow') = Len(runs')
      /\ \A r \in 1 .. Len(runs') : TurnRow'[r] = TurnOf(runs'[r].status)
  BY TurnRowType DEF TypeOK, TurnRow
<1>3. CASE runs' = runs
  BY <1>3 DEF TurnRow
<1>4. ASSUME NEW k \in Nat, agent.active = NoRun,
             runs' = Append(runs, [status |-> "QUEUED", turn |-> k])
      PROVE  Agent!Next
  <2>1. /\ Len(runs') = n + 1 /\ runs'[n + 1].status = "QUEUED"
        /\ \A q \in 1 .. n : runs'[q] = runs[q]
    BY <1>4, <1>n DEF TypeOK
  <2>2. TurnRow[n] = "ended"
    <3>1. ~Live(n)
      BY <1>4, <1>n DEF OneTurn, NoRun
    <3> QED BY <1>1, <1>n, <3>1 DEF Live, TurnOf, Terminal
  <2>3. TurnRow' = Append(TurnRow, "queued")
    <3>1. /\ Append(TurnRow, "queued") \in Seq(S) /\ Len(Append(TurnRow, "queued")) = n + 1
          /\ Append(TurnRow, "queued")[n + 1] = "queued"
          /\ \A q \in 1 .. n : Append(TurnRow, "queued")[q] = TurnRow[q]
      BY <1>1, AppendProperties
    <3>2. \A q \in 1 .. n + 1 : TurnRow'[q] = Append(TurnRow, "queued")[q]
      BY <1>1, <1>2, <1>n, <2>1, <3>1 DEF TurnOf
    <3> QED BY <1>2, <2>1, <3>1, <3>2, SeqEqual
  <2> QED BY <1>1, <2>2, <2>3 DEF Agent!Next, Agent!QueueTurn, TurnRow
<1>5. ASSUME NEW to \in RunStatus, runs' = [runs EXCEPT ![n].status = to]
      PROVE  TurnRow' = [TurnRow EXCEPT ![n] = TurnOf(to)]
  <2> DEFINE u == [TurnRow EXCEPT ![n] = TurnOf(to)]
  <2>1. /\ Len(runs') = n /\ runs'[n].status = to
        /\ \A q \in 1 .. n : q # n => runs'[q] = runs[q]
    BY <1>5, <1>n, OtherRuns
  <2>2. TurnOf(to) \in S
    BY DEF TurnOf
  <2>3. u \in Seq(S) /\ Len(u) = n /\ u[n] = TurnOf(to) /\ \A q \in 1 .. n : q # n => u[q] = TurnRow[q]
    BY <1>1, <1>n, <2>2, ExceptSeq
  <2> HIDE DEF u
  <2>4. \A q \in 1 .. n : TurnRow'[q] = u[q]
    BY <1>1, <1>2, <2>1, <2>3
  <2>5. TurnRow' = u
    BY <1>2, <2>1, <2>3, <2>4, SeqEqual
  <2> QED BY <2>5 DEF u
<1>6. CASE runs[n].status = "QUEUED" /\ runs' = [runs EXCEPT ![n].status = "RUNNING"]
  <2>1. TurnRow' = [TurnRow EXCEPT ![n] = "running"]
    BY <1>5, <1>6 DEF RunStatus, TurnOf
  <2>2. TurnRow[n] = "queued"
    BY <1>1, <1>n, <1>6 DEF TurnOf
  <2> QED BY <1>1, <2>1, <2>2 DEF Agent!Next, Agent!StartTurn, TurnRow
<1>7. ASSUME NEW to \in {"FINISHED", "ERROR"}, runs[n].status = "RUNNING",
             runs' = [runs EXCEPT ![n].status = to]
      PROVE  Agent!Next
  <2>1. TurnRow' = [TurnRow EXCEPT ![n] = "ended"]
    BY <1>5, <1>7 DEF RunStatus, Terminal, TurnOf
  <2>2. TurnRow[n] = "running"
    BY <1>1, <1>n, <1>7 DEF TurnOf
  <2> QED BY <1>1, <2>1, <2>2 DEF Agent!Next, Agent!EndTurn, TurnRow
<1> QED BY <1>3, <1>4, <1>6, <1>7, TurnStep

\* The store, the handles and the executors of one process implement AgentTurns:
\* every change of the rows is the queueing, the start or the end of the last turn.
THEOREM TakesTurnsCorrect ==
  ASSUME OneProcess, Undisturbed
  PROVE  Spec => TakesTurns
<1>1. Init => Agent!Init
  BY DEF Init, Agent!Init, TurnOf
<1>2. TypeOK /\ TypeOK' /\ ActiveRunInv /\ VerdictInv /\ PlainSegments /\ OneTurn /\ [Next]_vars
        => [Agent!Next]_TurnRow
  BY TurnRefined
<1> QED BY <1>1, <1>2, TypeCorrect, ActiveRunCorrect, VerdictInvCorrect, TurnInvCorrect, PTL
        DEF Spec, TakesTurns, Agent!Spec, TurnRow

-----------------------------------------------------------------------------
(* The log of a run and its row. *)

\* A verdict on run r is still to be appended to its log, or to be written to its row.
Writing(t, r) == \E i \in 1 .. Len(t) : IsVerdict(t[i]) /\ t[i].r = r
Marking(t, r) == \E i \in 1 .. Len(t) : t[i].do = "mark" /\ t[i].r = r

\* Between the two writes, the one that is done agrees with the one to come.
LogInv ==
  \A p \in Process : \A r \in 1 .. Len(runs) :
    LET t == seg[p].todo
    IN  /\ ~Writing(t, r) /\ ~Marking(t, r) => Agrees(r)
        /\ ~Marking(t, r) => \A i \in 1 .. Len(t) :
             IsVerdict(t[i]) /\ t[i].r = r => runs[r].status = t[i].arg
        /\ ~Writing(t, r) => \A i \in 1 .. Len(t) :
             t[i].do = "mark" /\ t[i].r = r => LastVerdict(log[r], t[i].arg)

Quiet(t) == \A i \in 1 .. Len(t) : t[i].do # "mark" /\ ~IsVerdict(t[i])
Paired(t) == \A r : Writing(t, r) <=> Marking(t, r)

LEMMA LogNext ==
  ASSUME OneProcess, NEW p \in Process, NEW u, seg'[p].todo = u,
         \A r \in 1 .. Len(runs') :
           /\ ~Writing(u, r) /\ ~Marking(u, r) => Agrees(r)'
           /\ ~Marking(u, r) => \A i \in 1 .. Len(u) :
                IsVerdict(u[i]) /\ u[i].r = r => runs'[r].status = u[i].arg
           /\ ~Writing(u, r) => \A i \in 1 .. Len(u) :
                u[i].do = "mark" /\ u[i].r = r => LastVerdict(log'[r], u[i].arg)
  PROVE  LogInv'
<1>1. \A q \in Process : q = p
  BY DEF OneProcess
<1> QED BY <1>1 DEF LogInv

\* Statements that concern no verdict are replaced.
LEMMA LogReplaced ==
  ASSUME OneProcess, LogInv, UNCHANGED <<runs, log>>, NEW p \in Process,
         Quiet(seg[p].todo), NEW u, seg'[p].todo = u, Paired(u)
  PROVE  LogInv'
<1>1. \A q \in Process : q = p
  BY DEF OneProcess
<1>2. \A r : ~Writing(seg[p].todo, r) /\ ~Marking(seg[p].todo, r)
  BY DEF Quiet, Writing, Marking
<1>3. \A r \in 1 .. Len(runs) : Agrees(r)
  BY <1>2 DEF LogInv
<1>4. \A i \in 1 .. Len(u) :
        /\ IsVerdict(u[i]) => Marking(u, u[i].r)
        /\ u[i].do = "mark" => Writing(u, u[i].r)
  BY DEF Paired, Writing, Marking
<1>5. ASSUME NEW r \in 1 .. Len(runs)
      PROVE  LET t == seg'[p].todo
             IN  /\ ~Writing(t, r) /\ ~Marking(t, r) => Agrees(r)'
                 /\ ~Marking(t, r) => \A i \in 1 .. Len(t) :
                      IsVerdict(t[i]) /\ t[i].r = r => runs'[r].status = t[i].arg
                 /\ ~Writing(t, r) => \A i \in 1 .. Len(t) :
                      t[i].do = "mark" /\ t[i].r = r => LastVerdict(log'[r], t[i].arg)
  <2>1. Agrees(r)'
    BY <1>3 DEF Agrees, Live, NoVerdict, LastVerdict
  <2> QED BY <1>4, <2>1
<1> QED BY <1>1, <1>5 DEF LogInv

LEMMA QuietPaired == \A t : Quiet(t) => Paired(t)
BY DEF Quiet, Paired, Writing, Marking

\* The first of the statements t is done: what is still to be written.
LEMMA Shifted ==
  ASSUME NEW t, NEW u, Len(t) \in Nat, Len(u) = Len(t) - 1,
         \A i \in 1 .. Len(u) : i + 1 \in 1 .. Len(t) /\ u[i] = t[i + 1]
  PROVE  \A r : /\ Writing(u, r) => Writing(t, r)
                /\ Marking(u, r) => Marking(t, r)
                /\ Writing(t, r) => Writing(u, r) \/ (IsVerdict(t[1]) /\ t[1].r = r)
                /\ Marking(t, r) => Marking(u, r) \/ (t[1].do = "mark" /\ t[1].r = r)
<1>1. \A j \in 1 .. Len(t) : j = 1 \/ (j - 1 \in 1 .. Len(u) /\ u[j - 1] = t[j])
  OBVIOUS
<1> TAKE r
<1>2. Writing(u, r) => Writing(t, r)
  BY DEF Writing
<1>3. Marking(u, r) => Marking(t, r)
  BY DEF Marking
<1>4. Writing(t, r) => Writing(u, r) \/ (IsVerdict(t[1]) /\ t[1].r = r)
  BY <1>1 DEF Writing
<1>5. Marking(t, r) => Marking(u, r) \/ (t[1].do = "mark" /\ t[1].r = r)
  BY <1>1 DEF Marking
<1> QED BY <1>2, <1>3, <1>4, <1>5

\* A statement that writes no verdict.
LEMMA LogMoves ==
  ASSUME OneProcess, TypeOK, LogInv, NEW p \in Process, seg[p].todo # <<>>,
         Continue(p, <<>>), Cur(p).do # "mark", ~IsVerdict(Cur(p)),
         Len(runs') = Len(runs),
         \A r \in 1 .. Len(runs) :
           /\ runs'[r].status = runs[r].status
           /\ NoVerdict(log[r]) => NoVerdict(log'[r])
           /\ \A s : LastVerdict(log[r], s) => LastVerdict(log'[r], s)
  PROVE  LogInv'
<1> DEFINE t == seg[p].todo
           u == seg'[p].todo
<1>1. \A q \in Process : q = p
  BY DEF OneProcess
<1>2. /\ Len(t) \in Nat /\ Len(u) = Len(t) - 1 /\ Cur(p) = t[1]
      /\ \A i \in 1 .. Len(u) : i + 1 \in 1 .. Len(t) /\ u[i] = t[i + 1]
  BY AtStatement, MovesOn
<1>3. \A r : (Writing(u, r) <=> Writing(t, r)) /\ (Marking(u, r) <=> Marking(t, r))
  <2>1. t[1].do # "mark" /\ ~IsVerdict(t[1])
    BY <1>2
  <2> HIDE DEF t, u
  <2> QED BY <1>2, <2>1, Shifted
<1>4. ASSUME NEW r \in 1 .. Len(runs)
      PROVE  /\ ~Writing(u, r) /\ ~Marking(u, r) => Agrees(r)'
             /\ ~Marking(u, r) => \A i \in 1 .. Len(u) :
                  IsVerdict(u[i]) /\ u[i].r = r => runs'[r].status = u[i].arg
             /\ ~Writing(u, r) => \A i \in 1 .. Len(u) :
                  u[i].do = "mark" /\ u[i].r = r => LastVerdict(log'[r], u[i].arg)
  <2>1. Agrees(r) => Agrees(r)'
    BY DEF Agrees, Live
  <2>2. /\ ~Writing(t, r) /\ ~Marking(t, r) => Agrees(r)
        /\ ~Marking(t, r) => \A i \in 1 .. Len(t) :
             IsVerdict(t[i]) /\ t[i].r = r => runs[r].status = t[i].arg
        /\ ~Writing(t, r) => \A i \in 1 .. Len(t) :
             t[i].do = "mark" /\ t[i].r = r => LastVerdict(log[r], t[i].arg)
    BY DEF LogInv
  <2> HIDE DEF t, u
  <2>3. \A i \in 1 .. Len(u) : \E j \in 1 .. Len(t) : u[i] = t[j]
    BY <1>2
  <2>4. ~Writing(u, r) /\ ~Marking(u, r) => Agrees(r)'
    BY <1>3, <2>1, <2>2
  <2>5. ASSUME ~Marking(u, r), NEW i \in 1 .. Len(u), IsVerdict(u[i]), u[i].r = r
        PROVE  runs'[r].status = u[i].arg
    <3>1. runs'[r].status = runs[r].status
      OBVIOUS
    <3> QED BY <1>3, <2>2, <2>3, <2>5, <3>1
  <2>6. ASSUME ~Writing(u, r), NEW i \in 1 .. Len(u), u[i].do = "mark", u[i].r = r
        PROVE  LastVerdict(log'[r], u[i].arg)
    <3>1. LastVerdict(log[r], u[i].arg)
      BY <1>3, <2>2, <2>3, <2>6
    <3> QED BY <3>1
  <2> QED BY <2>4, <2>5, <2>6
<1> QED BY <1>4, LogNext

LEMMA LogMarks ==
  ASSUME OneProcess, TypeOK, VerdictInv, LogInv, NEW p \in Process, MarkRunTerminal(p)
  PROVE  LogInv'
<1> DEFINE t == seg[p].todo
           u == seg'[p].todo
           r == t[1].r
           to == t[1].arg
<1>1. \A q \in Process : q = p
  BY DEF OneProcess
<1>2. t # <<>> /\ Cur(p).do = "mark" /\ Continue(p, <<>>)
  BY DEF MarkRunTerminal, At, Cur
<1>3. /\ Cur(p) = t[1] /\ 1 \in 1 .. Len(t) /\ t[1] \in StatementOver(Len(runs)) /\ Len(t) \in Nat
      /\ Len(u) = Len(t) - 1
      /\ \A i \in 1 .. Len(u) : i + 1 \in 1 .. Len(t) /\ u[i] = t[i + 1]
  BY <1>2, AtStatement, MovesOn
<1>4. t[1].do = "mark" /\ r \in 1 .. Len(runs) /\ to \in Terminal /\ to \in RunStatus
  BY <1>2, <1>3 DEF StatementOver, RunStatus
<1>5. /\ Len(runs') = Len(runs) /\ runs'[r].status = to /\ log' = log
      /\ \A q \in 1 .. Len(runs) : q # r => runs'[q] = runs[q]
  <2>1. runs' = [runs EXCEPT ![r].status = to] /\ log' = log
    BY <1>3 DEF MarkRunTerminal
  <2> HIDE DEF r, to
  <2> QED BY <1>4, <2>1, OtherRuns
<1>6. WellShaped(t)
  BY DEF VerdictInv, SegmentsShaped
<1>7. ASSUME NEW i \in 1 .. Len(u)
      PROVE  /\ u[i].do # "mark"
             /\ IsVerdict(u[i]) => u[i].r = r /\ u[i].arg = to
  <2>1. i + 1 \in 2 .. Len(t) /\ u[i] = t[i + 1] /\ ShapedAt(t, 1) /\ ShapedAt(t, i + 1)
    BY <1>3, <1>6 DEF WellShaped
  <2>2. u[i].do \in Writes \cup {"stop", "choose"}
    BY <1>4, <2>1 DEF ShapedAt
  <2>3. IsVerdict(u[i]) => u[i].r = r /\ u[i].arg = to
    BY <1>3, <1>4, <2>1 DEF ShapedAt
  <2> QED BY <2>2, <2>3 DEF Writes
<1>8. \A q : /\ ~Marking(u, q)
             /\ Writing(u, q) <=> Writing(t, q)
             /\ Writing(u, q) => q = r
             /\ Marking(t, q) => q = r
  <2>1. ~IsVerdict(t[1])
    BY <1>4 DEF IsVerdict, Writes
  <2> HIDE DEF t, u, r, to
  <2>2. \A q : ~Marking(u, q) /\ (Writing(u, q) => q = r)
    BY <1>7 DEF Marking, Writing
  <2> QED BY <1>3, <2>1, <2>2, Shifted DEF r
<1>9. ASSUME NEW q \in 1 .. Len(runs)
      PROVE  /\ ~Writing(u, q) => Agrees(q)'
             /\ \A i \in 1 .. Len(u) : IsVerdict(u[i]) /\ u[i].r = q => runs'[q].status = u[i].arg
  <2>1. /\ ~Writing(t, q) /\ ~Marking(t, q) => Agrees(q)
        /\ ~Writing(t, q) => \A i \in 1 .. Len(t) :
             t[i].do = "mark" /\ t[i].r = q => LastVerdict(log[q], t[i].arg)
    BY DEF LogInv
  <2> HIDE DEF t, u, to
  <2>2. CASE q = r
    <3>1. ~Writing(u, q) => LastVerdict(log[q], to)
      BY <1>3, <1>4, <1>8, <2>1, <2>2 DEF to
    <3>2. ~Writing(u, q) => Agrees(q)'
      BY <1>4, <1>5, <2>2, <3>1 DEF Agrees, Live
    <3> QED BY <1>5, <1>7, <2>2, <3>2
  <2>3. CASE q # r
    <3>1. Agrees(q)
      BY <1>8, <2>1, <2>3
    <3>2. Agrees(q)'
      BY <1>5, <2>3, <3>1 DEF Agrees, Live
    <3> QED BY <1>7, <2>3, <3>2
  <2> QED BY <2>2, <2>3
<1> QED BY <1>1, <1>5, <1>7, <1>8, <1>9 DEF LogInv

\* What one more event does to a log.
LEMMA AppendedVerdict ==
  ASSUME NEW l \in Seq(Event), NEW e \in Event
  PROVE  /\ e \notin Terminal /\ NoVerdict(l) => NoVerdict(Append(l, e))
         /\ e \notin Terminal => \A s : LastVerdict(l, s) => LastVerdict(Append(l, e), s)
         /\ LastVerdict(Append(l, e), e)
<1> DEFINE m == Append(l, e)
<1>1. /\ Len(l) \in Nat /\ DOMAIN l = 1 .. Len(l) /\ Len(m) = Len(l) + 1 /\ DOMAIN m = 1 .. Len(m)
      /\ m[Len(l) + 1] = e
      /\ \A i \in 1 .. Len(l) : m[i] = l[i]
  BY AppendProperties
<1> HIDE DEF m
<1>2. \A i \in 1 .. Len(m) : i \in 1 .. Len(l) \/ i = Len(l) + 1
  BY <1>1
<1>3. e \notin Terminal /\ NoVerdict(l) => NoVerdict(m)
  BY <1>1, <1>2 DEF NoVerdict
<1>4. ASSUME e \notin Terminal, NEW s, LastVerdict(l, s) PROVE LastVerdict(m, s)
  <2>1. PICK i \in 1 .. Len(l) : l[i] = s /\ \A j \in i + 1 .. Len(l) : l[j] \notin Terminal
    BY <1>1, <1>4 DEF LastVerdict
  <2>2. i \in DOMAIN m /\ m[i] = s
    BY <1>1, <2>1
  <2>3. \A j \in i + 1 .. Len(m) : m[j] \notin Terminal
    BY <1>1, <1>4, <2>1
  <2> QED BY <2>2, <2>3 DEF LastVerdict
<1>5. LastVerdict(m, e)
  <2>1. Len(l) + 1 \in DOMAIN m /\ (Len(l) + 1) + 1 .. Len(m) = {}
    BY <1>1
  <2> QED BY <1>1, <2>1 DEF LastVerdict
<1> QED BY <1>3, <1>4, <1>5 DEF m

LEMMA LogInserts ==
  ASSUME OneProcess, TypeOK, VerdictInv, LogInv, NEW p \in Process, InsertEvent(p)
  PROVE  LogInv'
<1> DEFINE t == seg[p].todo
           u == seg'[p].todo
           r == t[1].r
           e == t[1].arg
<1>1. \A q \in Process : q = p
  BY DEF OneProcess
<1>2. t # <<>> /\ Cur(p).do = "insert_event" /\ Continue(p, <<>>)
  BY DEF InsertEvent, At, Cur
<1>3. /\ Cur(p) = t[1] /\ 1 \in 1 .. Len(t) /\ t[1] \in StatementOver(Len(runs)) /\ Len(t) \in Nat
      /\ Len(u) = Len(t) - 1
      /\ \A i \in 1 .. Len(u) : i + 1 \in 1 .. Len(t) /\ u[i] = t[i + 1]
  BY <1>2, AtStatement, MovesOn
<1>4. r \in 1 .. Len(runs) /\ e \in Event /\ r \in 1 .. Len(log)
  BY <1>2, <1>3 DEF StatementOver, TypeOK
<1>5. runs' = runs /\ log' = [log EXCEPT ![r] = Append(log[r], e)]
  BY <1>3 DEF InsertEvent
<1>6. /\ log[r] \in Seq(Event) /\ log'[r] = Append(log[r], e)
      /\ \A q \in 1 .. Len(runs) : q # r => log'[q] = log[q]
  <2> HIDE DEF r, e
  <2> QED BY <1>4, <1>5, ElementOfSeq DEF TypeOK
<1>7. WellShaped(t) /\ ShapedAt(t, 1)
  BY <1>3 DEF VerdictInv, SegmentsShaped, WellShaped
<1>8. CASE e \notin Terminal
  <2>1. \A q \in 1 .. Len(runs) :
           /\ runs'[q].status = runs[q].status
           /\ NoVerdict(log[q]) => NoVerdict(log'[q])
           /\ \A s : LastVerdict(log[q], s) => LastVerdict(log'[q], s)
    <3> HIDE DEF r, e
    <3> QED BY <1>4, <1>5, <1>6, <1>8, AppendedVerdict
  <2>2. Cur(p).do # "mark" /\ ~IsVerdict(Cur(p)) /\ Len(runs') = Len(runs)
    BY <1>2, <1>3, <1>5, <1>8 DEF IsVerdict
  <2> QED BY <1>2, <2>1, <2>2, LogMoves
<1>9. CASE e \in Terminal
  <2>1. IsVerdict(t[1]) /\ t[1].do # "mark"
    BY <1>2, <1>3, <1>9 DEF IsVerdict, Writes
  <2>2. ASSUME NEW i \in 1 .. Len(u)
        PROVE  ~IsVerdict(u[i]) /\ (u[i].do = "mark" => u[i].r = r /\ u[i].arg = e)
    <3>1. i + 1 \in 1 .. Len(t) /\ u[i] = t[i + 1] /\ i + 1 # 1
      BY <1>3
    <3> QED BY <1>7, <2>1, <3>1 DEF ShapedAt
  <2> HIDE DEF t, u, r, e
  <2>3. \A q : /\ ~Writing(u, q)
               /\ Marking(u, q) <=> Marking(t, q)
               /\ Marking(u, q) => q = r
               /\ Writing(t, q) => q = r
    <3>1. \A q : ~Writing(u, q) /\ (Marking(u, q) => q = r)
      BY <2>2 DEF Writing, Marking
    <3> QED BY <1>3, <2>1, <3>1, Shifted DEF r
  <2>4. ASSUME NEW q \in 1 .. Len(runs)
        PROVE  /\ ~Marking(u, q) => Agrees(q)'
               /\ \A i \in 1 .. Len(u) : u[i].do = "mark" /\ u[i].r = q => LastVerdict(log'[q], u[i].arg)
    <3>1. /\ ~Writing(t, q) /\ ~Marking(t, q) => Agrees(q)
          /\ ~Marking(t, q) => \A i \in 1 .. Len(t) :
               IsVerdict(t[i]) /\ t[i].r = q => runs[q].status = t[i].arg
      BY DEF LogInv, t
    <3>2. CASE q = r
      <4>1. LastVerdict(log'[q], e)
        BY <1>4, <1>6, <3>2, AppendedVerdict
      <4>2. ~Marking(u, q) => runs[q].status = e
        BY <1>3, <2>1, <2>3, <3>1, <3>2 DEF r, e
      <4>3. ~Marking(u, q) => Agrees(q)'
        BY <1>5, <1>9, <4>1, <4>2 DEF Agrees, Live
      <4> QED BY <2>2, <4>1, <4>3
    <3>3. CASE q # r
      <4>1. Agrees(q)
        BY <2>3, <3>1, <3>3
      <4>2. Agrees(q)'
        BY <1>5, <1>6, <3>3, <4>1 DEF Agrees, Live
      <4> QED BY <2>2, <3>3, <4>2
    <3> QED BY <3>2, <3>3
  <2> QED BY <1>1, <1>5, <2>2, <2>3, <2>4 DEF LogInv, u
<1> QED BY <1>8, <1>9

LEMMA ScriptsPaired ==
  ASSUME NEW r, NEW c, c.do = "choose"
  PROVE  /\ Quiet(StartScript(r))
         /\ Paired(CancelScript(r))
         /\ \A S : ExpireScript(r) \in Seq(S) /\ c \in S => Paired(ExpireScript(r) \o <<c>>)
         /\ \A s \in Terminal : Paired(EndScript(r, s))
         /\ Quiet(<<>>)
         /\ \A s : s.do \notin {"mark"} \cup Writes => Quiet(<<s>>) /\ Quiet(<<s, c>>)
         /\ \A s : s.do \in Writes /\ s.arg \notin Terminal => Quiet(<<s>>)
<1>1. Quiet(StartScript(r))
  BY DEF Quiet, StartScript, DoOn, DoWith, IsVerdict, Writes, Terminal
<1>2. Paired(CancelScript(r))
  <2> DEFINE t == CancelScript(r)
  <2>1. /\ 1 .. Len(t) = {1, 2, 3, 4}
        /\ t[1].do = "mark" /\ t[1].r = r
        /\ t[2].do = "append" /\ t[2].r = r /\ t[2].arg \in Terminal
        /\ t[3].do = "append" /\ t[3].arg \notin Terminal
        /\ t[4].do = "append" /\ t[4].arg \notin Terminal
    BY DEF CancelScript, DoWith, Terminal
  <2> HIDE DEF t
  <2>2. IsVerdict(t[2]) /\ ~IsVerdict(t[1]) /\ ~IsVerdict(t[3]) /\ ~IsVerdict(t[4])
    BY <2>1 DEF IsVerdict, Writes
  <2>3. \A q : (Writing(t, q) <=> q = r) /\ (Marking(t, q) <=> q = r)
    BY <2>1, <2>2 DEF Writing, Marking
  <2> QED BY <2>3 DEF Paired, t
<1>3. ASSUME NEW S, ExpireScript(r) \in Seq(S), c \in S PROVE Paired(ExpireScript(r) \o <<c>>)
  <2> DEFINE t == ExpireScript(r) \o <<c>>
  <2>1. /\ Len(t) = 3 /\ t[1] = DoWith("mark", r, "EXPIRED")
        /\ t[2] = DoWith("append", r, "EXPIRED") /\ t[3] = c
    BY <1>3, ExpireStatements
  <2>2. /\ DoWith("mark", r, "EXPIRED").do = "mark" /\ DoWith("mark", r, "EXPIRED").r = r
        /\ DoWith("append", r, "EXPIRED").do = "append" /\ DoWith("append", r, "EXPIRED").r = r
        /\ DoWith("append", r, "EXPIRED").arg \in Terminal
    BY DEF DoWith, Terminal
  <2> HIDE DEF t
  <2>3. IsVerdict(t[2]) /\ ~IsVerdict(t[1]) /\ ~IsVerdict(t[3]) /\ 1 .. Len(t) = {1, 2, 3}
    BY <2>1, <2>2 DEF IsVerdict, Writes
  <2>4. \A q : (Writing(t, q) <=> q = r) /\ (Marking(t, q) <=> q = r)
    BY <2>1, <2>2, <2>3 DEF Writing, Marking
  <2> QED BY <2>4 DEF Paired, t
<1>4. ASSUME NEW s \in Terminal PROVE Paired(EndScript(r, s))
  <2> DEFINE t == EndScript(r, s)
  <2>1. /\ 1 .. Len(t) = {1, 2, 3, 4, 5}
        /\ t[1].do = "append" /\ t[1].r = r /\ t[1].arg \in Terminal
        /\ t[2].do = "mark" /\ t[2].r = r
        /\ t[3].do = "append" /\ t[3].arg \notin Terminal
        /\ t[4].do = "append" /\ t[4].arg \notin Terminal
        /\ t[5].do = "stop"
    BY DEF EndScript, DoWith, DoOn, Terminal
  <2> HIDE DEF t
  <2>2. IsVerdict(t[1]) /\ ~IsVerdict(t[2]) /\ ~IsVerdict(t[3]) /\ ~IsVerdict(t[4]) /\ ~IsVerdict(t[5])
    BY <2>1 DEF IsVerdict, Writes
  <2>3. \A q : (Writing(t, q) <=> q = r) /\ (Marking(t, q) <=> q = r)
    BY <2>1, <2>2 DEF Writing, Marking
  <2> QED BY <2>3 DEF Paired, t
<1>5. Quiet(<<>>)
  BY DEF Quiet
<1>6. ASSUME NEW s, s.do \notin {"mark"} \cup Writes PROVE Quiet(<<s>>) /\ Quiet(<<s, c>>)
  BY <1>6 DEF Quiet, IsVerdict, Writes
<1>7. ASSUME NEW s, s.do \in Writes, s.arg \notin Terminal PROVE Quiet(<<s>>)
  BY <1>7 DEF Quiet, IsVerdict, Writes
<1> QED BY <1>1, <1>2, <1>3, <1>4, <1>5, <1>6, <1>7

LEMMA LogStep ==
  ASSUME OneProcess, TypeOK, TypeOK', VerdictInv, LogInv, NEW p \in Process, Step(p)
  PROVE  LogInv'
<1> DEFINE n == Len(runs)
           t == seg[p].todo
<1>t. t # <<>>
  BY DEF Step, At, ExpireReadAgent, ExpireReadRun, ChooseRun, FollowUpReadAgent,
         FollowUpReadActive, FollowUpCount, FollowUpInsert, MarkRunStarting,
         MarkRunTerminal, ReadMaxSeq, InsertEvent, InsertEventConflict,
         CancelFindRun, Drive, DriveFails, ExecutorReturns
<1>n. /\ n \in Nat /\ n <= n /\ t \in Seq(StatementOver(n)) /\ Cur(p) = t[1]
      /\ Cur(p) \in StatementOver(n) /\ 1 \in 1 .. Len(t) /\ Len(t) \in Nat
  BY <1>t, AtStatement
<1>a. agent.active # NoRun => agent.active \in 1 .. n
  BY <1>n DEF TypeOK, NoRun
<1>h. seg[p].h \in Handle
  BY DEF TypeOK, Segment
<1>c. Do("choose").do = "choose"
  BY DEF Do
<1>s. SegmentsShaped /\ WellShaped(t) /\ ShapedAt(t, 1)
  BY <1>n DEF VerdictInv, SegmentsShaped, WellShaped
<1>f. /\ Cur(p).do \in Alone \cup {"choose", "drive", "stop"} => Len(t) = 1
      /\ Cur(p).do \in {"expire", "expire_run"} => Len(t) = 2 /\ t[2].do = "choose"
  BY <1>t, <1>s, AloneFinal
<1>q. /\ Cur(p).do \in Alone \cup {"choose", "drive", "stop", "expire", "expire_run"} => Quiet(t)
  <2>1. CASE Cur(p).do \in Alone \cup {"choose", "drive", "stop"}
    <3> HIDE DEF t
    <3>1. Len(t) = 1
      BY <1>f, <2>1
    <3>2. 1 .. Len(t) = {1}
      BY <3>1
    <3>3. Cur(p) = t[1]
      BY <1>n
    <3> DEFINE s == t[1]
    <3>4. s.do \in Alone \cup {"choose", "drive", "stop"}
      BY <2>1, <3>3
    <3> HIDE DEF s
    <3>5. ~IsVerdict(s) /\ s.do # "mark"
      BY <3>4 DEF IsVerdict, Writes, Alone
    <3>6. ~IsVerdict(t[1]) /\ t[1].do # "mark"
      BY <3>5 DEF s
    <3> QED BY <3>2, <3>6 DEF Quiet
  <2>2. CASE Cur(p).do \in {"expire", "expire_run"}
    <3> HIDE DEF t
    <3>1. Len(t) = 2 /\ t[2].do = "choose"
      BY <1>f, <2>2
    <3>2. 1 .. Len(t) = {1, 2}
      BY <3>1
    <3>3. Cur(p) = t[1]
      BY <1>n
    <3>4. t[1].do \in {"expire", "expire_run"}
      BY <2>2, <3>3
    <3>5. \A i \in {1, 2} : ~IsVerdict(t[i]) /\ t[i].do # "mark"
      BY <3>1, <3>4 DEF IsVerdict, Writes
    <3> QED BY <3>2, <3>5 DEF Quiet
  <2> QED BY <2>1, <2>2
\* the only statement is replaced
<1>r. ASSUME NEW more \in Seq(StatementOver(n)), Continue(p, more), UNCHANGED <<runs, log>>,
             Cur(p).do \in Alone \cup {"choose", "drive", "stop"}, Paired(more)
      PROVE  LogInv'
  <2>1. seg'[p].todo = more
    BY <1>t, <1>n, <1>f, <1>r, Replaced
  <2> QED BY <1>q, <1>r, <2>1, LogReplaced
<1>o. ASSUME NEW s \in StatementOver(n), s.do \in Alone PROVE <<s>> \in Seq(StatementOver(n)) /\ Paired(<<s>>)
  <2>1. <<s>> \in Seq(StatementOver(n))
    OBVIOUS
  <2>2. s.do \notin {"mark"} \cup Writes
    BY <1>o DEF Alone, Writes
  <2> QED BY <1>c, <2>1, <2>2, ScriptsPaired, QuietPaired
<1>l. ASSUME Leave(p), UNCHANGED <<runs, log>>, Cur(p).do \in Alone \cup {"drive"} PROVE LogInv'
  <2>1. seg'[p].todo = <<>>
    BY <1>l DEF Leave, Idle, TypeOK
  <2> QED BY <1>c, <1>l, <1>q, <2>1, ScriptsPaired, QuietPaired, LogReplaced
<1>e. <<>> \in Seq(StatementOver(n)) /\ Paired(<<>>)
  BY <1>c, EmptySeq, ScriptsPaired, QuietPaired
\* the statement is done, and it is none of those that write a verdict
<1>m. ASSUME Continue(p, <<>>), UNCHANGED <<runs, log>>, Cur(p).do \notin {"mark"} \cup Writes
      PROVE  LogInv'
  <2>1. ~IsVerdict(Cur(p))
    BY <1>m DEF IsVerdict
  <2> QED BY <1>m, <1>t, <2>1, LogMoves
<1> HIDE DEF n, t
<1>1. CASE ExpireReadAgent(p)
  <2>1. Cur(p).do = "expire" /\ UNCHANGED <<runs, log>>
    BY <1>1 DEF ExpireReadAgent, At, Cur
  <2>2. CASE agent.active = NoRun
    BY <1>1, <1>m, <2>1, <2>2 DEF ExpireReadAgent, Writes
  <2>3. CASE agent.active # NoRun
    <3> DEFINE s == DoOn("expire_run", agent.active)
    <3>1. s \in StatementOver(n) /\ s.do = "expire_run"
      BY <1>n, <1>a, <2>3, DoOnType DEF DoOn
    <3>2. Continue(p, <<s>>)
      BY <1>1, <2>3 DEF ExpireReadAgent
    <3> HIDE DEF s
    <3>3. <<s>> \in Seq(StatementOver(n))
      BY <3>1
    <3>4. seg'[p].todo = <<s>> \o Tail(t)
      BY <1>t, <1>n, <3>2, <3>3, ContinueTodo DEF t, n
    <3>5. seg'[p].todo = <<s, t[2]>> /\ t[2].do = "choose"
      BY <1>n, <1>f, <2>1, <3>1, <3>4, TailOfTwo
    <3>6. s.do \notin {"mark"} \cup Writes
      BY <3>1 DEF Writes
    <3>7. Paired(seg'[p].todo)
      BY <3>5, <3>6, ScriptsPaired, QuietPaired
    <3> QED BY <1>q, <2>1, <3>7, LogReplaced DEF t
  <2> QED BY <2>2, <2>3
<1>2. CASE ExpireReadRun(p)
  <2> DEFINE r == Cur(p).r
  <2>1. Cur(p).do = "expire_run" /\ UNCHANGED <<runs, log>> /\ r \in 1 .. n
    BY <1>2, <1>n DEF ExpireReadRun, At, Cur, StatementOver
  <2>2. CASE ~Live(r)
    BY <1>2, <1>m, <2>1, <2>2 DEF ExpireReadRun, Writes
  <2>3. CASE Live(r)
    <3>1. ExpireScript(r) \in Seq(StatementOver(n))
      BY <1>n, <2>1, ScriptTypes
    <3>2. Continue(p, ExpireScript(r))
      BY <1>2, <2>3 DEF ExpireReadRun
    <3>3. seg'[p].todo = ExpireScript(r) \o Tail(t)
      BY <1>t, <1>n, <3>1, <3>2, ContinueTodo DEF t, n
    <3>4. t[2].do = "choose" /\ Tail(t) = <<t[2]>> /\ t[2] \in StatementOver(n)
      BY <1>n, <1>f, <2>1, TailOfTwo
    <3> HIDE DEF r
    <3>5. Paired(seg'[p].todo)
      BY <3>1, <3>3, <3>4, ScriptsPaired
    <3> QED BY <1>q, <2>1, <3>5, LogReplaced DEF t
  <2> QED BY <2>2, <2>3
<1>3. CASE ChooseRun(p)
  <2> DEFINE w == pending[seg[p].h]
  <2>1. Cur(p).do = "choose" /\ UNCHANGED <<runs, log>>
    BY <1>3 DEF ChooseRun, At, Cur
  <2>2. CASE w # NoRun /\ runs[w].status = "QUEUED"
    <3>1. w \in 1 .. n
      BY <2>2, <1>h, <1>n DEF TypeOK, NoRun, n
    <3>2. Continue(p, StartScript(w))
      BY <1>3, <2>2 DEF ChooseRun
    <3>3. StartScript(w) \in Seq(StatementOver(n)) /\ Paired(StartScript(w))
      BY <1>c, <1>n, <3>1, ScriptTypes, ScriptsPaired, QuietPaired
    <3> QED BY <1>r, <2>1, <3>2, <3>3
  <2>3. CASE ~(w # NoRun /\ runs[w].status = "QUEUED")
    <3>1. Continue(p, <<Do("get_agent")>>)
      BY <1>3, <2>3 DEF ChooseRun
    <3>2. Do("get_agent") \in StatementOver(n) /\ Do("get_agent").do \in Alone
      BY <1>n, DoType DEF Do, Alone
    <3> QED BY <1>r, <1>o, <2>1, <3>1, <3>2
  <2> QED BY <2>2, <2>3
<1>4. CASE FollowUpReadAgent(p) \/ FollowUpReadActive(p)
  <2>1. Cur(p).do \in Alone /\ UNCHANGED <<runs, log>>
    BY <1>4 DEF FollowUpReadAgent, FollowUpReadActive, At, Cur, Alone
  <2>2. Do("count") \in StatementOver(n) /\ Do("count").do \in Alone
    BY <1>n, DoType DEF Do, Alone
  <2>3. agent.active # NoRun =>
          /\ DoOn("get_active", agent.active) \in StatementOver(n)
          /\ DoOn("get_active", agent.active).do \in Alone
    BY <1>n, <1>a, DoOnType DEF DoOn, Alone
  <2>4. \/ Leave(p)
        \/ Continue(p, <<Do("count")>>)
        \/ agent.active # NoRun /\ Continue(p, <<DoOn("get_active", agent.active)>>)
    BY <1>4 DEF FollowUpReadAgent, FollowUpReadActive
  <2>5. CASE Leave(p)
    BY <1>l, <2>1, <2>5
  <2>6. CASE Continue(p, <<Do("count")>>)
    BY <1>r, <1>o, <2>1, <2>2, <2>6
  <2>7. CASE agent.active # NoRun /\ Continue(p, <<DoOn("get_active", agent.active)>>)
    BY <1>r, <1>o, <2>1, <2>3, <2>7
  <2> QED BY <2>4, <2>5, <2>6, <2>7
<1>5. CASE FollowUpCount(p)
  <2> DEFINE s == [Do("insert_run") EXCEPT !.n = n]
  <2>1. Cur(p).do \in Alone /\ UNCHANGED <<runs, log>>
    BY <1>5 DEF FollowUpCount, At, Cur, Alone
  <2>2. s \in StatementOver(n) /\ s.do \in Alone
    BY <1>n, InsertRunType DEF Do, Alone
  <2>3. Leave(p) \/ Continue(p, <<s>>)
    BY <1>5 DEF FollowUpCount, n
  <2> HIDE DEF s
  <2> QED BY <1>l, <1>r, <1>o, <2>1, <2>2, <2>3
<1>6. CASE FollowUpInsert(p)
  <2>1. Cur(p).do \in Alone /\ Continue(p, StartScript(n + 1))
    BY <1>6 DEF FollowUpInsert, At, Cur, Alone, n
  <2>2. n + 1 \in Nat /\ n <= n + 1 /\ n + 1 \in 1 .. n + 1
    BY <1>n
  <2>3. StartScript(n + 1) \in Seq(StatementOver(n + 1))
    BY <2>2, ScriptTypes
  <2>4. seg'[p].todo = StartScript(n + 1)
    BY <1>t, <1>f, <2>1, <2>2, <2>3, Replaced DEF t, n
  <2>5. Quiet(StartScript(n + 1)) /\ Quiet(t)
    BY <1>c, <1>q, <2>1, ScriptsPaired
  <2>6. \A r : /\ ~Writing(StartScript(n + 1), r) /\ ~Marking(StartScript(n + 1), r)
               /\ ~Writing(t, r) /\ ~Marking(t, r)
    BY <2>5 DEF Quiet, Writing, Marking
  <2>7. /\ Len(runs') = n + 1 /\ runs'[n + 1].status = "QUEUED" /\ log'[n + 1] = <<>>
        /\ \A r \in 1 .. n : runs'[r] = runs[r] /\ log'[r] = log[r]
    BY <1>6, <1>n DEF FollowUpInsert, TypeOK, n
  <2>8. ASSUME NEW r \in 1 .. n + 1 PROVE Agrees(r)'
    <3>1. CASE r = n + 1
      <4>1. NoVerdict(<<>>)
        BY DEF NoVerdict
      <4> QED BY <2>7, <3>1, <4>1 DEF Agrees, Live, Terminal
    <3>2. CASE r # n + 1
      <4>1. r \in 1 .. n
        BY <1>n, <3>2
      <4>2. Agrees(r)
        BY <2>6, <4>1 DEF LogInv, t, n
      <4> QED BY <2>7, <4>1, <4>2 DEF Agrees, Live
    <3> QED BY <3>1, <3>2
  <2>9. \A r, i : ~(i \in 1 .. Len(StartScript(n + 1))
                     /\ (IsVerdict(StartScript(n + 1)[i]) \/ StartScript(n + 1)[i].do = "mark"))
    BY <2>5 DEF Quiet
  <2> QED BY <2>4, <2>7, <2>8, <2>9, LogNext
<1>7. CASE MarkRunStarting(p)
  <2> DEFINE r == Cur(p).r
  <2>1. Cur(p).do = "start" /\ log' = log /\ Continue(p, <<>>)
    BY <1>7 DEF MarkRunStarting, At, Cur
  <2>2. r \in 1 .. n /\ SoundAt(t, 1) /\ runs[r].status = "QUEUED"
    BY <1>n, <2>1 DEF StatementOver, VerdictInv, StatementsSound, SoundAt, t
  <2>3. /\ Len(runs') = n /\ runs'[r].status = "RUNNING"
        /\ \A q \in 1 .. n : q # r => runs'[q] = runs[q]
    <3>1. runs' = [runs EXCEPT ![r].status = "RUNNING"]
      BY <1>7 DEF MarkRunStarting
    <3> HIDE DEF r
    <3> QED BY <2>2, <3>1, OtherRuns DEF RunStatus, n
  <2> DEFINE u == seg'[p].todo
  <2>4. /\ Len(u) = Len(t) - 1
        /\ \A i \in 1 .. Len(u) : i + 1 \in 1 .. Len(t) /\ u[i] = t[i + 1]
    BY <1>t, <2>1, MovesOn DEF t
  <2>5. Quiet(t)
    <3>1. Final(t).do = "drive" /\ Len(t) \in 1 .. Len(t)
      BY <1>n, <1>s, <2>1 DEF ShapedAt
    <3>2. ShapedAt(t, Len(t))
      BY <1>s, <3>1 DEF WellShaped
    <3>3. ASSUME NEW i \in 1 .. Len(t) PROVE t[i].do # "mark" /\ ~IsVerdict(t[i])
      <4>1. CASE i = Len(t)
        BY <3>1, <4>1 DEF Final, IsVerdict, Writes
      <4>2. CASE i # Len(t)
        <5>1. i \in 1 .. Len(t) - 1
          BY <1>n, <4>2
        <5> QED BY <3>1, <3>2, <5>1 DEF ShapedAt, Final, Writes
      <4> QED BY <4>1, <4>2
    <3> QED BY <3>3 DEF Quiet
  <2>6. \A q : ~Writing(t, q) /\ ~Marking(t, q)
    BY <2>5 DEF Quiet, Writing, Marking
  <2> HIDE DEF u, r
  <2>7. \A i \in 1 .. Len(u) : u[i].do # "mark" /\ ~IsVerdict(u[i])
    BY <2>4, <2>5 DEF Quiet
  <2>8. ASSUME NEW q \in 1 .. n PROVE Agrees(q)'
    <3>1. Agrees(q)
      BY <2>6 DEF LogInv, t, n
    <3>2. CASE q = r
      BY <2>1, <2>2, <2>3, <3>1, <3>2 DEF Agrees, Live, Terminal
    <3>3. CASE q # r
      BY <2>1, <2>3, <3>1, <3>3 DEF Agrees, Live
    <3> QED BY <3>2, <3>3
  <2> QED BY <2>3, <2>7, <2>8, LogNext DEF u
<1>8. CASE ReadMaxSeq(p)
  <2> DEFINE u == seg'[p].todo
  <2>1. /\ t[1].do = "append" /\ Len(u) = Len(t)
        /\ u[1].do = "insert_event" /\ u[1].r = t[1].r /\ u[1].arg = t[1].arg
        /\ \A i \in 2 .. Len(u) : u[i] = t[i]
    BY <1>8, Reads DEF t
  <2>2. runs' = runs /\ log' = log
    BY <1>8 DEF ReadMaxSeq
  <2> HIDE DEF u
  <2>3. \A i \in 1 .. Len(t) :
          /\ IsVerdict(u[i]) <=> IsVerdict(t[i])
          /\ u[i].do = "mark" <=> t[i].do = "mark"
          /\ u[i].r = t[i].r /\ u[i].arg = t[i].arg
    BY <1>n, <2>1 DEF IsVerdict, Writes
  <2>4. \A q : (Writing(u, q) <=> Writing(t, q)) /\ (Marking(u, q) <=> Marking(t, q))
    BY <2>1, <2>3 DEF Writing, Marking
  <2>5. ASSUME NEW q \in 1 .. n
        PROVE  /\ ~Writing(u, q) /\ ~Marking(u, q) => Agrees(q)'
               /\ ~Marking(u, q) => \A i \in 1 .. Len(u) :
                    IsVerdict(u[i]) /\ u[i].r = q => runs'[q].status = u[i].arg
               /\ ~Writing(u, q) => \A i \in 1 .. Len(u) :
                    u[i].do = "mark" /\ u[i].r = q => LastVerdict(log'[q], u[i].arg)
    <3>1. /\ ~Writing(t, q) /\ ~Marking(t, q) => Agrees(q)
          /\ ~Marking(t, q) => \A i \in 1 .. Len(t) :
               IsVerdict(t[i]) /\ t[i].r = q => runs[q].status = t[i].arg
          /\ ~Writing(t, q) => \A i \in 1 .. Len(t) :
               t[i].do = "mark" /\ t[i].r = q => LastVerdict(log[q], t[i].arg)
      BY DEF LogInv, t, n
    <3>2. Agrees(q) => Agrees(q)'
      BY <2>2 DEF Agrees, Live
    <3> QED BY <2>1, <2>2, <2>3, <2>4, <3>1, <3>2
  <2> QED BY <2>2, <2>5, LogNext DEF u, n
<1>9. CASE Drive(p) \/ ExecutorReturns(p)
  <2>1. Cur(p).do \in {"drive", "stop"} /\ Continue(p, <<>>) /\ UNCHANGED <<runs, log>>
    BY <1>9 DEF Drive, ExecutorReturns, At, Cur
  <2> QED BY <1>m, <2>1 DEF Writes
<1>10. CASE InsertEventConflict(p)
  <2>1. Cur(p).do = "insert_event" /\ Len(log[Cur(p).r]) # Cur(p).n
    BY <1>10 DEF InsertEventConflict, At, Cur
  <2> QED BY <1>n, <1>s, <1>t, <2>1 DEF SegmentsShaped, t
<1>11. CASE CancelFindRun(p)
  <2>1. Cur(p).do \in Alone /\ UNCHANGED <<runs, log>> /\ Cur(p).r \in 1 .. n
    BY <1>11, <1>n DEF CancelFindRun, At, Cur, Alone, StatementOver
  <2>2. CancelScript(Cur(p).r) \in Seq(StatementOver(n)) /\ Paired(CancelScript(Cur(p).r))
    BY <1>c, <1>n, <2>1, ScriptTypes, ScriptsPaired
  <2>3. Continue(p, CancelScript(Cur(p).r)) \/ Continue(p, <<>>)
    BY <1>11 DEF CancelFindRun
  <2> QED BY <1>r, <1>e, <2>1, <2>2, <2>3
<1>12. CASE DriveFails(p)
  <2>1. Cur(p).do = "drive" /\ Leave(p) /\ UNCHANGED <<runs, log>>
    BY <1>12 DEF DriveFails, At, Cur
  <2> QED BY <1>l, <2>1
<1> QED BY <1>1, <1>2, <1>3, <1>4, <1>5, <1>6, <1>7, <1>8, <1>9, <1>10, <1>11, <1>12,
           LogMarks, LogInserts DEF Step

\* No process dies inside a segment.
LEMMA LogOther ==
  ASSUME OneProcess, "crash" \notin Ops, TypeOK, LogInv,
         Client \/ \E r \in DOMAIN exec : Executor(r)
  PROVE  LogInv'
<1>c. Do("choose").do = "choose" /\ Do("expire").do = "expire"
  BY DEF Do
<1>1. ASSUME UNCHANGED <<runs, log, seg>> PROVE LogInv'
  BY <1>1 DEF LogInv, Agrees, Live
<1>2. ASSUME NEW p \in Process, NEW op, NEW h, NEW u, Paired(u), Begin(p, op, h, u),
             UNCHANGED <<runs, log>>
      PROVE  LogInv'
  <2>1. seg'[p].todo = u /\ seg[p].todo = <<>>
    BY <1>2 DEF Begin, IsIdle, TypeOK
  <2> QED BY <1>2, <1>c, <2>1, ScriptsPaired, LogReplaced
<1>3. ASSUME NEW h \in Handle, NEW force \in BOOLEAN, Send(h, force) PROVE LogInv'
  <2>1. ProcOf[h] \in Process
    BY ConstantsAssumption
  <2>2. Do("choose").do \notin {"mark"} \cup Writes /\ Do("expire").do \notin {"mark"} \cup Writes
    BY <1>c DEF Writes
  <2>3. Paired(<<Do("choose")>>) /\ Paired(<<Do("expire"), Do("choose")>>)
    BY <1>c, <2>2, ScriptsPaired, QuietPaired
  <2> QED BY <1>2, <1>3, <2>1, <2>3 DEF Send
<1>4. ASSUME NEW p \in Process PROVE ~Crash(p)
  BY DEF Crash
<1>5. ASSUME NEW r \in DOMAIN exec PROVE ProcOfRun(r) \in Process
  <2>1. r \in 1 .. Len(exec)
    BY DEF TypeOK
  <2>2. exec[r] \in [phase : Phase, h : Handle]
    BY <2>1, ElementOfSeq DEF TypeOK
  <2> QED BY <2>2, ConstantsAssumption DEF ProcOfRun
<1>6. CASE Client
  <2>1. ASSUME NEW h \in Handle, Resume(h) \/ Close(h) PROVE LogInv'
    BY <1>1, <2>1 DEF Resume, Close
  <2>2. ASSUME NEW p \in Process, NEW r, Cancel(p, r) PROVE LogInv'
    <3>1. DoOn("find", r).do \notin {"mark"} \cup Writes
      BY DEF DoOn, Writes
    <3>2. Paired(<<DoOn("find", r)>>)
      BY <1>c, <3>1, ScriptsPaired, QuietPaired
    <3> QED BY <1>2, <2>2, <3>2 DEF Cancel
  <2>3. ASSUME NEW p \in Process, NEW status, SetAgentStatus(p, status) PROVE LogInv'
    BY <1>1, <2>3 DEF SetAgentStatus
  <2> QED BY <1>3, <1>4, <1>6, <2>1, <2>2, <2>3 DEF Client
<1>7. ASSUME NEW r \in DOMAIN exec, Executor(r) PROVE LogInv'
  <2>1. CASE Emit(r)
    <3>1. DoWith("append", r, "progress").do \in Writes /\ DoWith("append", r, "progress").arg \notin Terminal
      BY DEF DoWith, Writes, Terminal
    <3>2. Paired(<<DoWith("append", r, "progress")>>)
      BY <1>c, <3>1, ScriptsPaired, QuietPaired
    <3> QED BY <1>2, <1>5, <2>1, <3>2 DEF Emit
  <2>2. \A status \in {"FINISHED", "ERROR"} : Paired(EndScript(r, status))
    BY <1>c, ScriptsPaired DEF Terminal
  <2>3. ASSUME NEW status \in {"FINISHED", "ERROR"}, EndTurn(r, status) PROVE LogInv'
    BY <1>2, <1>5, <2>2, <2>3 DEF EndTurn
  <2>4. CASE RunFails(r)
    BY <1>2, <1>5, <2>2, <2>4 DEF RunFails
  <2> QED BY <1>1, <1>7, <2>1, <2>3, <2>4 DEF Executor, Startup, StartupDone, StartupFails,
         TurnStops, TurnEnds, StreamFails, StreamAborted, Turns
<1> QED BY <1>6, <1>7

\* In one process that does not die inside a segment, a run has ended if and only
\* if its log says so, and the log's last verdict is the row's: _finish, _fail,
\* cancel and expire_active_run write both, in either order, within one segment.
THEOREM LogAgreesCorrect ==
  ASSUME OneProcess, "crash" \notin Ops
  PROVE  Spec => []LogAgreesWithRow
<1>1. Init => LogInv
  <2> SUFFICES ASSUME Init PROVE LogInv
    OBVIOUS
  <2>1. (\A p \in Process : seg[p].todo = <<>>) /\ 1 .. Len(<<>>) = {}
    <3>1. 1 .. Len(<<>>) = {}
      OBVIOUS
    <3>2. \A p \in Process : seg[p].todo = <<>>
      BY DEF Init, Idle
    <3> QED BY <3>1, <3>2
  <2>2. Len(runs) = 1 /\ runs[1].status = "QUEUED" /\ log[1] = <<>>
    BY DEF Init
  <2>3. \A r \in 1 .. Len(runs) : Agrees(r)
    BY <2>2 DEF Agrees, Live, NoVerdict, Terminal
  <2> QED BY <2>1, <2>3 DEF LogInv
<1>2. TypeOK /\ TypeOK' /\ VerdictInv /\ LogInv /\ [Next]_vars => LogInv'
  <2>1. LogInv /\ UNCHANGED vars => LogInv'
    BY DEF LogInv, Agrees, Live, vars
  <2> QED BY <2>1, LogStep, LogOther DEF Next
<1>3. TypeOK /\ LogInv => LogAgreesWithRow
  <2> SUFFICES ASSUME TypeOK, LogInv, \A p \in Process : IsIdle(p), NEW r \in DOMAIN runs
               PROVE  Agrees(r)
    BY DEF LogAgreesWithRow
  <2>1. r \in 1 .. Len(runs)
    BY DEF TypeOK
  <2>2. ProcOf[Creator] \in Process
    BY ConstantsAssumption
  <2>3. seg[ProcOf[Creator]].todo = <<>> /\ 1 .. Len(<<>>) = {}
    BY <2>2 DEF IsIdle
  <2> QED BY <2>1, <2>2, <2>3 DEF LogInv, Writing, Marking
<1> QED BY <1>1, <1>2, <1>3, TypeCorrect, VerdictInvCorrect, PTL DEF Spec

=============================================================================
