------------------------- MODULE RunRecords_proofs -------------------------
(***************************************************************************)
(* The logs of the runs of LocalRuntime, for any number of processes and   *)
(* whatever their clients do: what a run is begun with, and its verdict.   *)
(* A segment that writes to a log is followed from its end: it is known by *)
(* its last statement, and how far it has come by how many are left.       *)
(***************************************************************************)
EXTENDS LocalRuntime_proofs

-----------------------------------------------------------------------------
Logs(s, e) == s.do \in {"append", "insert_event"} /\ s.arg = e

\* All statements are about one run, and a SELECT comes before its INSERT.
OfOneRun(t) == /\ \A i \in 1 .. Len(t) : t[i].r = t[1].r
               /\ \A i \in 2 .. Len(t) : t[i].do # "insert_event"

\* What is left of the script of a start, an end, a report, a cancel.
Starts(t) ==
  /\ Len(t) \in 1 .. 5 /\ OfOneRun(t) /\ t[Len(t)].do = "drive"
  /\ Len(t) >= 2 => Logs(t[Len(t) - 1], "RUNNING")
  /\ Len(t) >= 3 => Logs(t[Len(t) - 2], "user")
  /\ Len(t) >= 4 => Logs(t[Len(t) - 3], "request")
  /\ Len(t) = 5 => t[1].do = "start"
Ends(t) ==
  /\ Len(t) \in 1 .. 5 /\ OfOneRun(t) /\ t[Len(t)].do = "stop"
  /\ Len(t) >= 2 => Logs(t[Len(t) - 1], "done")
  /\ Len(t) >= 3 => Logs(t[Len(t) - 2], "result")
  /\ Len(t) >= 4 => t[Len(t) - 3].do = "mark"
  /\ Len(t) = 5 => Logs(t[1], "FINISHED") \/ Logs(t[1], "ERROR")
Reports(t) == Len(t) = 1 /\ OfOneRun(t) /\ Logs(t[1], "progress")
Cancels(t) ==
  /\ Len(t) \in 1 .. 4 /\ OfOneRun(t) /\ Logs(t[Len(t)], "done")
  /\ Len(t) >= 2 => Logs(t[Len(t) - 1], "result")
  /\ Len(t) >= 3 => Logs(t[Len(t) - 2], "CANCELLED")
  /\ Len(t) = 4 => t[1].do = "mark"
\* What comes before a start or a cancel.
Prepares(t) ==
  /\ t[Len(t)].do \in {"choose", "get_agent", "get_active", "count", "insert_run", "find"}
  /\ \A i \in 1 .. Len(t) - 1 :
       t[i].do \in {"expire", "expire_run", "mark"} \/ Logs(t[i], "EXPIRED")

\* A log that can still take a report or a verdict.
Going(l) == Len(l) >= 3 /\ l[Len(l)] \in {"RUNNING", "progress"}
\* An INSERT that will not conflict.
Fresh(t, l) == t[1].do = "insert_event" => t[1].n = Len(l)
Begun(t) == IF Len(t) >= 4 THEN 0 ELSE 4 - Len(t)

StartsIn(t, l) == /\ Recorded(l, Begun(t))
                  /\ Interrupted(l) \/ (Len(l) = Begun(t) /\ Fresh(t, l))
EndsIn(t, l) ==
  \/ Interrupted(l)
  \/ /\ Fresh(t, l) /\ Len(l) >= 3
     /\ Len(t) = 5 => Going(l)
     /\ Len(t) \in {3, 4} => l[Len(l)] \in Terminal
     /\ Len(t) = 2 => l[Len(l)] = "result"
ReportsIn(t, l) == Interrupted(l) \/ (Fresh(t, l) /\ Going(l))
CancelsIn(t, l) == Len(t) <= 2 => Interrupted(l)

SegmentInv(p) ==
  LET t == seg[p].todo
      r == t[1].r
  IN  \/ t = <<>>
      \/ /\ seg[p].op \in {"send", "force", "cancel"} /\ Prepares(t)
         /\ seg[p].op = "cancel" <=> t[Len(t)].do = "find"
      \/ /\ seg[p].op \in {"send", "force"} /\ Starts(t) /\ StartsIn(t, log[r])
         /\ exec[r].phase = "none" /\ \A h \in Handle : pending[h] # r
      \/ seg[p].op = "cancel" /\ Cancels(t) /\ CancelsIn(t, log[r])
      \/ /\ seg[p].op \in {"turn", "fail"} /\ exec[r].phase \in Alive /\ ProcOfRun(r) = p
         /\ \/ Ends(t) /\ EndsIn(t, log[r])
            \/ Reports(t) /\ ReportsIn(t, log[r])

\* The executor of the run is in the middle of a segment.
Busy(r) == /\ seg[ProcOfRun(r)].todo # <<>> /\ seg[ProcOfRun(r)].op \in {"turn", "fail"}
           /\ seg[ProcOfRun(r)].todo[1].r = r
RunInv(r) ==
  /\ Interrupted(log[r]) \/ InOrder(log[r])
  /\ exec[r].phase # "none" => Recorded(log[r], 3)
  /\ exec[r].phase \in Alive /\ ~Busy(r) => Interrupted(log[r]) \/ Going(log[r])
  /\ \A h \in Handle : pending[h] = r =>
       /\ h = Creator /\ exec[r].phase = "none" /\ Recorded(log[r], 0)
       /\ Interrupted(log[r]) \/ Len(log[r]) = 0
\* No run is started twice.
StartedOnce ==
  \A p, q \in Process :
    /\ Starts(seg[p].todo) /\ Starts(seg[q].todo)
    /\ seg[p].todo[1].r = seg[q].todo[1].r
    => p = q

RecordInv == /\ \A p \in Process : SegmentInv(p)
             /\ \A r \in DOMAIN log : RunInv(r)
             /\ StartedOnce

\* One more event in a log.
LEMMA Grown ==
  ASSUME NEW l \in Seq(Event), NEW e \in Event
  PROVE  /\ Append(l, e) \in Seq(Event) /\ Len(l) \in Nat /\ Len(Append(l, e)) = Len(l) + 1
         /\ \A i \in 1 .. Len(l) : Append(l, e)[i] = l[i]
         /\ Append(l, e)[Len(l) + 1] = e
         /\ DOMAIN l = 1 .. Len(l) /\ DOMAIN Append(l, e) = 1 .. Len(l) + 1
BY AppendProperties, LenProperties

LEMMA StaysInterrupted ==
  ASSUME NEW l \in Seq(Event), NEW e \in Event
  PROVE  Interrupted(Append(l, e)) <=> Interrupted(l) \/ e \in {"EXPIRED", "CANCELLED"}
<1> DEFINE m == Append(l, e)
<1>1. /\ Len(l) \in Nat /\ \A i \in 1 .. Len(l) : m[i] = l[i]
      /\ m[Len(l) + 1] = e
      /\ DOMAIN l = 1 .. Len(l) /\ DOMAIN m = 1 .. Len(l) + 1
  BY Grown
<1> HIDE DEF m
<1>2. {m[i] : i \in DOMAIN m} = {l[i] : i \in DOMAIN l} \cup {e}
  BY <1>1
<1> QED BY <1>2 DEF Interrupted, m

LEMMA StartedIs ==
  /\ Started[1] = "request" /\ Started[2] = "user" /\ Started[3] = "RUNNING"
  /\ \A i \in 1 .. 3 : Started[i] \in {"request", "user", "RUNNING"}
  /\ \A i, j \in 1 .. 3 : Started[i] = Started[j] => i = j
BY DEF Started

\* An event that does not belong to a start.
LEMMA RecordedStays ==
  ASSUME NEW l \in Seq(Event), NEW e \in Event \ {"request", "user", "RUNNING"}, NEW k \in 0 .. 3,
         Recorded(l, k)
  PROVE  Recorded(Append(l, e), k)
<1> DEFINE m == Append(l, e)
<1>1. /\ Len(l) \in Nat /\ \A i \in 1 .. Len(l) : m[i] = l[i]
      /\ m[Len(l) + 1] = e
      /\ DOMAIN l = 1 .. Len(l) /\ DOMAIN m = 1 .. Len(l) + 1
  BY Grown
<1> HIDE DEF m
<1>2. \A i \in 1 .. 3 : Started[i] # e
  BY StartedIs
<1>3. \A i \in 1 .. 3 : i <= k <=> \E x \in DOMAIN l : l[x] = Started[i]
  BY DEF Recorded
<1>4. \A x, y \in DOMAIN l, i, j \in 1 .. 3 :
        l[x] = Started[i] /\ l[y] = Started[j] => (x < y <=> i < j)
  BY DEF Recorded
<1>5. \A x \in DOMAIN m, i \in 1 .. 3 : m[x] = Started[i] => x \in DOMAIN l /\ l[x] = m[x]
  BY <1>1, <1>2
<1>6. \A i \in 1 .. 3 : i <= k <=> \E x \in DOMAIN m : m[x] = Started[i]
  BY <1>1, <1>3, <1>5
<1>7. \A x, y \in DOMAIN m, i, j \in 1 .. 3 :
        m[x] = Started[i] /\ m[y] = Started[j] => (x < y <=> i < j)
  BY <1>4, <1>5
<1> QED BY <1>6, <1>7 DEF Recorded, m

\* The next event of a start.
LEMMA RecordedGrows ==
  ASSUME NEW l \in Seq(Event), NEW k \in 0 .. 2, Recorded(l, k)
  PROVE  Recorded(Append(l, Started[k + 1]), k + 1)
<1> DEFINE e == Started[k + 1]
           m == Append(l, e)
<1>0. e \in Event /\ k + 1 \in 1 .. 3
  BY StartedIs DEF Event
<1>1. /\ Len(l) \in Nat /\ \A i \in 1 .. Len(l) : m[i] = l[i]
      /\ m[Len(l) + 1] = e
      /\ DOMAIN l = 1 .. Len(l) /\ DOMAIN m = 1 .. Len(l) + 1
  BY <1>0, Grown
<1>2. \A i \in 1 .. 3 : Started[i] = e => i = k + 1
  BY <1>0, StartedIs
<1>3. \A i \in 1 .. 3 : i <= k <=> \E x \in DOMAIN l : l[x] = Started[i]
  BY DEF Recorded
<1>4. \A x, y \in DOMAIN l, i, j \in 1 .. 3 :
        l[x] = Started[i] /\ l[y] = Started[j] => (x < y <=> i < j)
  BY DEF Recorded
<1>e. e = Started[k + 1]
  OBVIOUS
<1> HIDE DEF m, e
<1>5. ASSUME NEW x \in DOMAIN m, NEW i \in 1 .. 3, m[x] = Started[i]
      PROVE  \/ x \in DOMAIN l /\ l[x] = Started[i] /\ i <= k
             \/ x = Len(l) + 1 /\ i = k + 1
  BY <1>1, <1>2, <1>3, <1>5
<1>6. ASSUME NEW i \in 1 .. 3 PROVE i <= k + 1 <=> \E x \in DOMAIN m : m[x] = Started[i]
  <2>1. CASE i <= k
    BY <1>1, <1>3, <2>1
  <2>2. CASE i = k + 1
    <3>1. Len(l) + 1 \in DOMAIN m /\ m[Len(l) + 1] = Started[i]
      BY <1>1, <1>e, <2>2
    <3> QED BY <3>1, <2>2
  <2>3. CASE i > k + 1
    BY <1>5, <2>3
  <2> QED BY <2>1, <2>2, <2>3
<1>7. \A x, y \in DOMAIN m, i, j \in 1 .. 3 :
        m[x] = Started[i] /\ m[y] = Started[j] => (x < y <=> i < j)
  <2> SUFFICES ASSUME NEW x \in DOMAIN m, NEW y \in DOMAIN m, NEW i \in 1 .. 3, NEW j \in 1 .. 3,
                      m[x] = Started[i], m[y] = Started[j]
               PROVE  x < y <=> i < j
    OBVIOUS
  <2>1. \/ x \in DOMAIN l /\ l[x] = Started[i] /\ i <= k
        \/ x = Len(l) + 1 /\ i = k + 1
    BY <1>5
  <2>2. \/ y \in DOMAIN l /\ l[y] = Started[j] /\ j <= k
        \/ y = Len(l) + 1 /\ j = k + 1
    BY <1>5
  <2>3. x \in Nat /\ y \in Nat /\ (x \in DOMAIN l => x <= Len(l)) /\ (y \in DOMAIN l => y <= Len(l))
    BY <1>1
  <2> QED BY <1>1, <1>4, <2>1, <2>2, <2>3
<1> QED BY <1>6, <1>7 DEF Recorded, m, e

\* What may follow in a log that was not interrupted.
LEMMA StaysInOrder ==
  ASSUME NEW l \in Seq(Event), InOrder(l), NEW e \in Event,
         \/ Len(l) <= 2 /\ e = Started[Len(l) + 1]
         \/ Going(l) /\ e \in {"progress", "FINISHED", "ERROR"}
         \/ Len(l) >= 3 /\ l[Len(l)] \in Terminal /\ e = "result"
         \/ Len(l) >= 3 /\ l[Len(l)] = "result" /\ e = "done"
  PROVE  InOrder(Append(l, e))
<1> DEFINE m == Append(l, e)
<1>1. /\ Len(l) \in Nat /\ \A i \in 1 .. Len(l) : m[i] = l[i]
      /\ m[Len(l) + 1] = e
      /\ DOMAIN l = 1 .. Len(l) /\ DOMAIN m = 1 .. Len(l) + 1
  BY Grown
<1> DEFINE Ok(x, i) ==
             /\ x[i] = "request" <=> i = 1
             /\ x[i] = "user" <=> i = 2
             /\ x[i] = "RUNNING" <=> i = 3
             /\ x[i] \in Terminal \cup {"progress"} => x[i - 1] \in {"RUNNING", "progress"}
             /\ x[i] = "result" => x[i - 1] \in Terminal
             /\ x[i] = "done" => x[i - 1] = "result"
<1> HIDE DEF m
<1>2. ASSUME NEW i \in 1 .. Len(l) PROVE Ok(m, i)
  <2>1. Ok(l, i) /\ m[i] = l[i]
    BY <1>1 DEF InOrder
  <2>2. CASE i = 1
    BY <2>1, <2>2 DEF Terminal
  <2>3. CASE i # 1
    <3>1. m[i - 1] = l[i - 1]
      BY <1>1, <2>3
    <3> QED BY <2>1, <3>1
  <2> QED BY <2>2, <2>3
<1>3. Ok(m, Len(l) + 1)
  <2> DEFINE n == Len(l)
  <2>1. n \in Nat /\ m[n + 1] = e /\ (n > 0 => m[n] = l[n]) /\ n + 1 - 1 = n
    BY <1>1
  <2>2. CASE n <= 2 /\ e = Started[n + 1]
    BY <2>1, <2>2, StartedIs DEF Terminal
  <2>3. CASE Going(l) /\ e \in {"progress", "FINISHED", "ERROR"}
    <3>1. n >= 3 /\ m[n] \in {"RUNNING", "progress"}
      BY <2>1, <2>3 DEF Going
    <3>2. m[n + 1 - 1] \in {"RUNNING", "progress"} /\ n + 1 \notin {1, 2, 3}
      BY <2>1, <3>1
    <3>3. m[n + 1] \in {"progress", "FINISHED", "ERROR"}
      BY <2>1, <2>3
    <3> QED BY <3>2, <3>3
  <2>4. CASE n >= 3 /\ l[n] \in Terminal /\ e = "result"
    BY <2>1, <2>4 DEF Terminal
  <2>5. CASE n >= 3 /\ l[n] = "result" /\ e = "done"
    BY <2>1, <2>5 DEF Terminal
  <2> QED BY <2>2, <2>3, <2>4, <2>5
<1>4. \A i \in DOMAIN m : Ok(m, i)
  <2> SUFFICES ASSUME NEW i \in DOMAIN m PROVE Ok(m, i)
    OBVIOUS
  <2>1. i \in 1 .. Len(l) \/ i = Len(l) + 1
    BY <1>1
  <2> QED BY <1>2, <1>3, <2>1
<1> QED BY <1>4 DEF InOrder, m

-----------------------------------------------------------------------------
(* What is left of a script after one of its statements. *)

LEMMA FormsShrink ==
  ASSUME NEW t, NEW u, Len(t) \in Nat, Len(t) >= 2, Len(u) = Len(t) - 1,
         \A i \in 1 .. Len(u) : u[i] = t[i + 1]
  PROVE  /\ Starts(t) => Starts(u) /\ u[1].r = t[1].r /\ u[1].do # "insert_event"
         /\ Ends(t) => Ends(u) /\ u[1].r = t[1].r /\ u[1].do # "insert_event"
         /\ Cancels(t) => Cancels(u) /\ u[1].r = t[1].r
         /\ Prepares(t) => Prepares(u)
<1>1. \A k \in 0 .. 3 : Len(t) >= k + 2 => u[Len(u) - k] = t[Len(t) - k]
  <2> SUFFICES ASSUME NEW k \in 0 .. 3, Len(t) >= k + 2 PROVE u[Len(u) - k] = t[Len(t) - k]
    OBVIOUS
  <2>1. Len(u) - k \in 1 .. Len(u) /\ Len(u) - k + 1 = Len(t) - k
    OBVIOUS
  <2> QED BY <2>1
<1>2. u[Len(u)] = t[Len(t)] /\ u[1] = t[2]
  BY <1>1
<1>3. /\ Len(t) >= 3 => u[Len(u) - 1] = t[Len(t) - 1]
      /\ Len(t) >= 4 => u[Len(u) - 2] = t[Len(t) - 2]
      /\ Len(t) >= 5 => u[Len(u) - 3] = t[Len(t) - 3]
  BY <1>1
<1>4. OfOneRun(t) => OfOneRun(u) /\ u[1].r = t[1].r /\ u[1].do # "insert_event"
  <2> SUFFICES ASSUME OfOneRun(t) PROVE OfOneRun(u) /\ u[1].r = t[1].r /\ u[1].do # "insert_event"
    OBVIOUS
  <2>1. 2 \in 1 .. Len(t) /\ 2 \in 2 .. Len(t)
    OBVIOUS
  <2>2. u[1].r = t[1].r /\ u[1].do # "insert_event"
    BY <1>2, <2>1 DEF OfOneRun
  <2>3. ASSUME NEW i \in 1 .. Len(u) PROVE u[i].r = u[1].r
    <3>1. i + 1 \in 1 .. Len(t) /\ u[i] = t[i + 1]
      OBVIOUS
    <3> QED BY <3>1, <2>2 DEF OfOneRun
  <2>4. ASSUME NEW i \in 2 .. Len(u) PROVE u[i].do # "insert_event"
    <3>1. i + 1 \in 2 .. Len(t) /\ u[i] = t[i + 1]
      OBVIOUS
    <3> QED BY <3>1 DEF OfOneRun
  <2> QED BY <2>2, <2>3, <2>4 DEF OfOneRun
<1>5. Starts(t) => Starts(u)
  <2> SUFFICES ASSUME Starts(t) PROVE Starts(u)
    OBVIOUS
  <2>0. Len(t) \in 1 .. 5 /\ OfOneRun(t)
    BY Zenon DEF Starts
  <2>1. Len(t) \in {2, 3, 4, 5} /\ OfOneRun(u)
    BY <1>4, <2>0
  <2>2. Len(u) \in 1 .. 4 /\ u[Len(u)].do = "drive"
    BY <1>2, <2>1 DEF Starts
  <2>3. /\ Len(u) >= 2 => Logs(u[Len(u) - 1], "RUNNING")
        /\ Len(u) >= 3 => Logs(u[Len(u) - 2], "user")
        /\ Len(u) >= 4 => Logs(u[Len(u) - 3], "request")
    BY <1>3, <2>1 DEF Starts
  <2>4. Len(u) \in 1 .. 5 /\ Len(u) # 5
    BY <2>2
  <2> QED BY <2>1, <2>2, <2>3, <2>4, Zenon DEF Starts
<1>6. Ends(t) => Ends(u)
  <2> SUFFICES ASSUME Ends(t) PROVE Ends(u)
    OBVIOUS
  <2>0. Len(t) \in 1 .. 5 /\ OfOneRun(t)
    BY Zenon DEF Ends
  <2>1. Len(t) \in {2, 3, 4, 5} /\ OfOneRun(u)
    BY <1>4, <2>0
  <2>2. Len(u) \in 1 .. 4 /\ u[Len(u)].do = "stop"
    BY <1>2, <2>1 DEF Ends
  <2>3. /\ Len(u) >= 2 => Logs(u[Len(u) - 1], "done")
        /\ Len(u) >= 3 => Logs(u[Len(u) - 2], "result")
        /\ Len(u) >= 4 => u[Len(u) - 3].do = "mark"
    BY <1>3, <2>1 DEF Ends
  <2>4. Len(u) \in 1 .. 5 /\ Len(u) # 5
    BY <2>2
  <2> QED BY <2>1, <2>2, <2>3, <2>4, Zenon DEF Ends
<1>7. Cancels(t) => Cancels(u)
  <2> SUFFICES ASSUME Cancels(t) PROVE Cancels(u)
    OBVIOUS
  <2>0. Len(t) \in 1 .. 4 /\ OfOneRun(t)
    BY Zenon DEF Cancels
  <2>1. Len(t) \in {2, 3, 4} /\ OfOneRun(u)
    BY <1>4, <2>0
  <2>2. Len(u) \in 1 .. 3 /\ Logs(u[Len(u)], "done")
    BY <1>2, <2>1 DEF Cancels
  <2>3. /\ Len(u) >= 2 => Logs(u[Len(u) - 1], "result")
        /\ Len(u) >= 3 => Logs(u[Len(u) - 2], "CANCELLED")
    <3>1. /\ Len(t) >= 2 => Logs(t[Len(t) - 1], "result")
          /\ Len(t) >= 3 => Logs(t[Len(t) - 2], "CANCELLED")
      BY Zenon DEF Cancels
    <3>2. (Len(u) >= 2 => Len(t) >= 2 /\ Len(t) >= 3) /\ (Len(u) >= 3 => Len(t) >= 3 /\ Len(t) >= 4)
      OBVIOUS
    <3> QED BY <1>3, <3>1, <3>2, Zenon
  <2>4. Len(u) \in 1 .. 4 /\ Len(u) # 4
    BY <2>1
  <2> QED BY <2>1, <2>2, <2>3, <2>4, Zenon DEF Cancels
<1>8. Prepares(t) => Prepares(u)
  <2> SUFFICES ASSUME Prepares(t), NEW i \in 1 .. Len(u) - 1
               PROVE  u[i].do \in {"expire", "expire_run", "mark"} \/ Logs(u[i], "EXPIRED")
    BY <1>2 DEF Prepares
  <2>1. i + 1 \in 1 .. Len(t) - 1 /\ u[i] = t[i + 1]
    OBVIOUS
  <2> QED BY <2>1 DEF Prepares
<1> QED BY <1>4, <1>5, <1>6, <1>7, <1>8 DEF Starts, Ends, Cancels

\* A SELECT gives way to its INSERT.
LEMMA FormsRead ==
  ASSUME NEW t, NEW u, Len(t) \in Nat, Len(t) >= 1, Len(u) = Len(t),
         t[1].do = "append", u[1].do = "insert_event", u[1].r = t[1].r, u[1].arg = t[1].arg,
         \A i \in 2 .. Len(u) : u[i] = t[i]
  PROVE  /\ Starts(t) => Starts(u)
         /\ Ends(t) => Ends(u)
         /\ Reports(t) => Reports(u)
         /\ Cancels(t) => Cancels(u)
         /\ Prepares(t) => Prepares(u)
<1>1. \A i \in 1 .. Len(t) : /\ u[i].r = t[i].r
                             /\ \A e : Logs(t[i], e) => Logs(u[i], e)
                             /\ t[i].do # "append" => u[i] = t[i]
  <2> SUFFICES ASSUME NEW i \in 1 .. Len(t)
               PROVE  /\ u[i].r = t[i].r
                      /\ \A e : Logs(t[i], e) => Logs(u[i], e)
                      /\ t[i].do # "append" => u[i] = t[i]
    OBVIOUS
  <2>1. CASE i = 1
    BY <2>1 DEF Logs
  <2>2. CASE i # 1
    BY <2>2
  <2> QED BY <2>1, <2>2
<1>2. OfOneRun(t) => OfOneRun(u)
  BY <1>1 DEF OfOneRun
<1>3. Starts(t) => Starts(u)
  <2>1. Len(t) \in 1 .. Len(t) /\ 1 \in 1 .. Len(t)
        /\ (Len(t) >= 2 => Len(t) - 1 \in 1 .. Len(t))
        /\ (Len(t) >= 3 => Len(t) - 2 \in 1 .. Len(t))
        /\ (Len(t) >= 4 => Len(t) - 3 \in 1 .. Len(t))
    OBVIOUS
  <2> QED BY <1>1, <1>2, <2>1 DEF Starts
<1>4. Ends(t) => Ends(u)
  <2>1. Len(t) \in 1 .. Len(t) /\ 1 \in 1 .. Len(t)
        /\ (Len(t) >= 2 => Len(t) - 1 \in 1 .. Len(t))
        /\ (Len(t) >= 3 => Len(t) - 2 \in 1 .. Len(t))
        /\ (Len(t) >= 4 => Len(t) - 3 \in 1 .. Len(t))
    OBVIOUS
  <2> QED BY <1>1, <1>2, <2>1 DEF Ends
<1>5. Cancels(t) => Cancels(u)
  <2>1. Len(t) \in 1 .. Len(t) /\ 1 \in 1 .. Len(t)
        /\ (Len(t) >= 2 => Len(t) - 1 \in 1 .. Len(t))
        /\ (Len(t) >= 3 => Len(t) - 2 \in 1 .. Len(t))
        /\ (Len(t) >= 4 => Len(t) - 3 \in 1 .. Len(t))
    OBVIOUS
  <2> QED BY <1>1, <1>2, <2>1 DEF Cancels
<1>6. Reports(t) => Reports(u)
  BY <1>1, <1>2 DEF Reports
<1>7. Prepares(t) => Prepares(u)
  <2> SUFFICES ASSUME Prepares(t) PROVE Prepares(u)
    OBVIOUS
  <2>1. Len(t) \in 1 .. Len(t)
    OBVIOUS
  <2>2. u[Len(u)].do \in {"choose", "get_agent", "get_active", "count", "insert_run", "find"}
    BY <1>1, <2>1 DEF Prepares
  <2>3. ASSUME NEW i \in 1 .. Len(u) - 1
        PROVE  u[i].do \in {"expire", "expire_run", "mark"} \/ Logs(u[i], "EXPIRED")
    <3>1. i \in 1 .. Len(t) /\ (t[i].do \in {"expire", "expire_run", "mark"} \/ Logs(t[i], "EXPIRED"))
      BY DEF Prepares
    <3> QED BY <1>1, <3>1
  <2> QED BY <2>2, <2>3 DEF Prepares
<1> QED BY <1>3, <1>4, <1>5, <1>6, <1>7

\* The last statement tells the forms apart.
LEMMA FormsApart ==
  ASSUME NEW t
  PROVE  /\ Starts(t) => ~Ends(t) /\ ~Reports(t) /\ ~Cancels(t) /\ ~Prepares(t)
         /\ Cancels(t) => ~Ends(t) /\ ~Reports(t) /\ ~Prepares(t)
         /\ Prepares(t) => ~Ends(t) /\ ~Reports(t)
         /\ Reports(t) => ~Ends(t)
<1>1. Reports(t) => t[Len(t)] = t[1]
  BY DEF Reports
<1> QED BY <1>1 DEF Starts, Ends, Reports, Cancels, Prepares, Logs

\* The run that a segment writes to is there.
LEMMA InRuns ==
  ASSUME TypeOK, NEW p \in Process, seg[p].todo # <<>>,
         \/ Starts(seg[p].todo) \/ Ends(seg[p].todo)
         \/ Reports(seg[p].todo) \/ Cancels(seg[p].todo)
  PROVE  /\ seg[p].todo[1].r \in DOMAIN log /\ seg[p].todo[1].r \in DOMAIN exec
         /\ seg[p].todo[1].r \in DOMAIN runs /\ log[seg[p].todo[1].r] \in Seq(Event)
<1> DEFINE t == seg[p].todo
<1>1. t[1] \in StatementOver(Len(runs)) /\ Len(t) \in Nat
  BY AtStatement
<1>2. t[1].do \in {"drive", "append", "insert_event", "start", "stop", "mark"}
  <2> HIDE DEF t
  <2>1. CASE Starts(t)
    <3>1. Len(t) \in {1, 2, 3, 4, 5}
      BY <2>1 DEF Starts
    <3> QED BY <2>1, <3>1 DEF Starts, Logs
  <2>2. CASE Ends(t)
    <3>1. Len(t) \in {1, 2, 3, 4, 5}
      BY <2>2 DEF Ends
    <3> QED BY <2>2, <3>1 DEF Ends, Logs
  <2>3. CASE Cancels(t)
    <3>1. Len(t) \in {1, 2, 3, 4}
      BY <2>3 DEF Cancels
    <3> QED BY <2>3, <3>1 DEF Cancels, Logs
  <2>4. CASE Reports(t)
    BY <2>4 DEF Reports, Logs
  <2> QED BY <2>1, <2>2, <2>3, <2>4 DEF t
<1>3. t[1].r \in 1 .. Len(runs)
  BY <1>1, <1>2 DEF StatementOver
<1> QED BY <1>3, ElementOfSeq DEF TypeOK

-----------------------------------------------------------------------------
(* What a segment is known to be doing. *)

\* Each form comes with what is known of its run.
LEMMA FormsHold ==
  ASSUME NEW p \in Process, SegmentInv(p), seg[p].todo # <<>>
  PROVE  LET t == seg[p].todo
             r == t[1].r
         IN  /\ Starts(t) \/ Ends(t) \/ Reports(t) \/ Cancels(t) \/ Prepares(t)
             /\ Starts(t) => /\ seg[p].op \in {"send", "force"} /\ StartsIn(t, log[r])
                             /\ exec[r].phase = "none" /\ \A h \in Handle : pending[h] # r
             /\ Cancels(t) => seg[p].op = "cancel" /\ CancelsIn(t, log[r])
             /\ Ends(t) => /\ seg[p].op \in {"turn", "fail"} /\ exec[r].phase \in Alive
                           /\ ProcOfRun(r) = p /\ EndsIn(t, log[r])
             /\ Reports(t) => /\ seg[p].op \in {"turn", "fail"} /\ exec[r].phase \in Alive
                              /\ ProcOfRun(r) = p /\ ReportsIn(t, log[r])
             /\ Prepares(t) => /\ seg[p].op \in {"send", "force", "cancel"}
                               /\ seg[p].op = "cancel" <=> t[Len(t)].do = "find"
<1> DEFINE t == seg[p].todo
<1>1. /\ Starts(t) => ~Ends(t) /\ ~Reports(t) /\ ~Cancels(t) /\ ~Prepares(t)
      /\ Cancels(t) => ~Ends(t) /\ ~Reports(t) /\ ~Prepares(t)
      /\ Prepares(t) => ~Ends(t) /\ ~Reports(t)
      /\ Reports(t) => ~Ends(t)
  BY FormsApart
<1> QED BY <1>1, Zenon DEF SegmentInv

\* The verbs at the end of what prepares a start or a cancel.
Preparing == {"choose", "get_agent", "get_active", "count", "insert_run", "find"}

\* Which form a segment has, and how much of it is left, by the statement it is at.
LEMMA FormsByVerb ==
  ASSUME NEW t, Len(t) \in Nat, Len(t) >= 1,
         Starts(t) \/ Ends(t) \/ Reports(t) \/ Cancels(t) \/ Prepares(t)
  PROVE  /\ t[1].do \in Preparing => Prepares(t) /\ Len(t) = 1
         /\ t[1].do \in {"expire", "expire_run"} => Prepares(t) /\ Len(t) >= 2
         /\ t[1].do = "start" => Starts(t) /\ Len(t) = 5
         /\ t[1].do = "drive" => Starts(t) /\ Len(t) = 1
         /\ t[1].do = "stop" => Ends(t) /\ Len(t) = 1
         /\ t[1].do = "mark" => Len(t) >= 2 /\ ~Starts(t) /\ ~Reports(t)
<1>1. CASE Starts(t)
  <2>1. Len(t) \in 1 .. 5
    BY <1>1, Zenon DEF Starts
  <2>2. Len(t) = 1 => t[1].do = "drive"
    BY <1>1 DEF Starts
  <2>3. Len(t) \in {2, 3, 4} => t[1].do \in {"append", "insert_event"}
    <3>1. /\ Len(t) >= 2 => Logs(t[Len(t) - 1], "RUNNING")
          /\ Len(t) >= 3 => Logs(t[Len(t) - 2], "user")
          /\ Len(t) >= 4 => Logs(t[Len(t) - 3], "request")
      BY <1>1, Zenon DEF Starts
    <3>2. Len(t) = 2 => t[1].do \in {"append", "insert_event"}
      BY <3>1 DEF Logs
    <3>3. Len(t) = 3 => t[1].do \in {"append", "insert_event"}
      BY <3>1 DEF Logs
    <3>4. Len(t) = 4 => t[1].do \in {"append", "insert_event"}
      BY <3>1 DEF Logs
    <3> QED BY <3>2, <3>3, <3>4
  <2>4. Len(t) = 5 => t[1].do = "start"
    BY <1>1, Zenon DEF Starts
  <2>5. Len(t) \in {1, 2, 3, 4, 5}
    BY <2>1
  <2> QED BY <1>1, <2>2, <2>3, <2>4, <2>5 DEF Preparing
<1>2. CASE Ends(t)
  <2>1. Len(t) \in 1 .. 5
    BY <1>2, Zenon DEF Ends
  <2>2. Len(t) = 1 => t[1].do = "stop"
    BY <1>2 DEF Ends
  <2>3. Len(t) \in {2, 3} => t[1].do \in {"append", "insert_event"}
    <3>1. /\ Len(t) >= 2 => Logs(t[Len(t) - 1], "done")
          /\ Len(t) >= 3 => Logs(t[Len(t) - 2], "result")
      BY <1>2, Zenon DEF Ends
    <3>2. Len(t) = 2 => t[1].do \in {"append", "insert_event"}
      BY <3>1 DEF Logs
    <3>3. Len(t) = 3 => t[1].do \in {"append", "insert_event"}
      BY <3>1 DEF Logs
    <3> QED BY <3>2, <3>3
  <2>4. Len(t) = 4 => t[1].do = "mark"
    BY <1>2 DEF Ends
  <2>5. Len(t) = 5 => t[1].do \in {"append", "insert_event"}
    <3>1. Len(t) = 5 => Logs(t[1], "FINISHED") \/ Logs(t[1], "ERROR")
      BY <1>2, Zenon DEF Ends
    <3> QED BY <3>1 DEF Logs
  <2>6. Len(t) \in {1, 2, 3, 4, 5}
    BY <2>1
  <2>7. ~Starts(t) /\ ~Reports(t)
    BY <1>2, FormsApart
  <2>8. /\ t[1].do \in {"stop", "mark", "append", "insert_event"}
        /\ t[1].do = "stop" => Len(t) = 1
        /\ t[1].do = "mark" => Len(t) >= 2
    <3>1. CASE Len(t) = 1
      BY <3>1, <2>2
    <3>2. CASE Len(t) \in {2, 3}
      BY <3>2, <2>3
    <3>3. CASE Len(t) = 4
      BY <3>3, <2>4
    <3>4. CASE Len(t) = 5
      BY <3>4, <2>5
    <3> QED BY <2>6, <3>1, <3>2, <3>3, <3>4
  <2> QED BY <1>2, <2>7, <2>8 DEF Preparing
<1>3. CASE Reports(t)
  BY <1>3 DEF Reports, Logs, Preparing
<1>4. CASE Cancels(t)
  <2>1. Len(t) \in {1, 2, 3, 4}
    BY <1>4 DEF Cancels
  <2>2. \/ Len(t) \in {1, 2, 3} /\ t[1].do \in {"append", "insert_event"}
        \/ Len(t) = 4 /\ t[1].do = "mark"
    BY <1>4, <2>1 DEF Cancels, Logs
  <2>3. ~Starts(t) /\ ~Reports(t)
    BY <1>4, FormsApart
  <2>4. /\ t[1].do \in {"mark", "append", "insert_event"}
        /\ t[1].do = "mark" => Len(t) >= 2
    BY <2>2
  <2> QED BY <2>3, <2>4 DEF Preparing
<1>5. CASE Prepares(t)
  <2>1. Len(t) = 1 => t[1].do \in Preparing
    BY <1>5 DEF Prepares, Preparing
  <2>2. Len(t) >= 2 => t[1].do \in {"expire", "expire_run", "mark", "append", "insert_event"}
    BY <1>5 DEF Prepares, Logs
  <2>3. ~Starts(t) /\ ~Reports(t)
    BY <1>5, FormsApart
  <2>4. Len(t) = 1 \/ Len(t) >= 2
    OBVIOUS
  <2>5. CASE Len(t) = 1
    BY <1>5, <2>1, <2>5 DEF Preparing
  <2>6. CASE Len(t) >= 2
    BY <1>5, <2>2, <2>3, <2>6 DEF Preparing
  <2> QED BY <2>4, <2>5, <2>6
<1> QED BY <1>1, <1>2, <1>3, <1>4, <1>5

\* The scripts have the forms they are named after.
LEMMA ScriptForms ==
  ASSUME NEW r
  PROVE  /\ Starts(StartScript(r)) /\ Len(StartScript(r)) = 5 /\ StartScript(r)[1].r = r
         /\ StartScript(r)[1].do = "start"
         /\ Cancels(CancelScript(r)) /\ Len(CancelScript(r)) = 4 /\ CancelScript(r)[1].r = r
         /\ \A status \in {"FINISHED", "ERROR"} :
              /\ Ends(EndScript(r, status)) /\ Len(EndScript(r, status)) = 5
              /\ EndScript(r, status)[1].r = r /\ EndScript(r, status)[1].do = "append"
         /\ LET u == << DoWith("append", r, "progress") >>
            IN  Reports(u) /\ Len(u) = 1 /\ u[1].r = r /\ u[1].do = "append"
<1>1. Starts(StartScript(r)) /\ Len(StartScript(r)) = 5 /\ StartScript(r)[1].r = r
      /\ StartScript(r)[1].do = "start"
  BY DEF StartScript, Starts, OfOneRun, Logs, DoOn, DoWith
<1>2. Cancels(CancelScript(r)) /\ Len(CancelScript(r)) = 4 /\ CancelScript(r)[1].r = r
  BY DEF CancelScript, Cancels, OfOneRun, Logs, DoOn, DoWith
<1>3. ASSUME NEW status \in {"FINISHED", "ERROR"}
      PROVE  /\ Ends(EndScript(r, status)) /\ Len(EndScript(r, status)) = 5
             /\ EndScript(r, status)[1].r = r /\ EndScript(r, status)[1].do = "append"
  BY DEF EndScript, Ends, OfOneRun, Logs, DoOn, DoWith
<1>4. LET u == << DoWith("append", r, "progress") >>
      IN  Reports(u) /\ Len(u) = 1 /\ u[1].r = r /\ u[1].do = "append"
  BY DEF Reports, OfOneRun, Logs, DoWith
<1> QED BY <1>1, <1>2, <1>3, <1>4

-----------------------------------------------------------------------------
(* Steps that leave the logs alone. *)

LEMMA OnceStays ==
  ASSUME StartedOnce,
         \A q \in Process :
           Starts(seg'[q].todo) => /\ Starts(seg[q].todo)
                                   /\ seg'[q].todo[1].r = seg[q].todo[1].r
  PROVE  StartedOnce'
BY DEF StartedOnce

\* An executor may move to another phase or be over, and a segment end early, if
\* the executor that was in the middle of it can go on.
LEMMA Quiet ==
  ASSUME TypeOK, TypeOK', RecordInv, log' = log, StartedOnce',
         \A h \in Handle : pending'[h] \in {pending[h], NoRun},
         \A r \in DOMAIN exec :
           /\ exec'[r].h = exec[r].h
           /\ \/ exec'[r].phase = exec[r].phase
              \/ exec[r].phase \in Alive /\ exec'[r].phase \in Alive \cup {"gone"},
         \A q \in Process :
           \/ seg'[q] = seg[q] /\ \A r \in DOMAIN exec :
                                    /\ ProcOfRun(r) = q /\ Busy(r) /\ exec[r].phase \in Alive
                                    => exec'[r].phase \in Alive
           \/ seg'[q].todo = <<>>
           \/ SegmentInv(q)',
         \A r \in DOMAIN exec :
           exec'[r].phase \in Alive /\ Busy(r) /\ ~Busy(r)' => Interrupted(log[r]) \/ Going(log[r])
  PROVE  RecordInv'
<1>1. /\ DOMAIN log = 1 .. Len(runs) /\ DOMAIN exec = 1 .. Len(runs)
      /\ DOMAIN log' = DOMAIN log /\ DOMAIN exec' = DOMAIN exec /\ Len(runs) \in Nat
  <2>1. Len(log) \in Nat /\ DOMAIN log = 1 .. Len(log) /\ DOMAIN exec = 1 .. Len(exec)
        /\ Len(log) = Len(runs) /\ Len(exec) = Len(runs)
    BY LenProperties DEF TypeOK
  <2>2. DOMAIN exec' = 1 .. Len(exec') /\ Len(exec') = Len(runs') /\ Len(log') = Len(runs')
    BY LenProperties DEF TypeOK
  <2> QED BY <2>1, <2>2
<1>2. ASSUME NEW q \in Process PROVE SegmentInv(q)'
  <2>1. CASE seg'[q].todo = <<>>
    BY <2>1 DEF SegmentInv
  <2>2. CASE seg'[q] = seg[q] /\ seg[q].todo # <<>> /\ \A r \in DOMAIN exec :
                                    /\ ProcOfRun(r) = q /\ Busy(r) /\ exec[r].phase \in Alive
                                    => exec'[r].phase \in Alive
    <3> DEFINE t == seg[q].todo
               r == t[1].r
    <3>1. SegmentInv(q) /\ t # <<>> /\ seg'[q].todo = t /\ seg'[q].op = seg[q].op
      BY <2>2 DEF RecordInv
    <3>2. CASE Prepares(t)
      <4>1. seg[q].op \in {"send", "force", "cancel"} /\ (seg[q].op = "cancel" <=> t[Len(t)].do = "find")
        BY <3>1, <3>2, FormsHold
      <4> HIDE DEF t
      <4> QED BY <3>1, <3>2, <4>1 DEF SegmentInv
    <3>3. CASE Cancels(t)
      BY <3>1, <3>3, FormsHold DEF SegmentInv
    <3>4. CASE Starts(t)
      <4>1. /\ seg[q].op \in {"send", "force"} /\ StartsIn(t, log[r])
            /\ exec[r].phase = "none" /\ \A h \in Handle : pending[h] # r
        BY <3>1, <3>4, FormsHold
      <4>2. r \in DOMAIN exec
        BY <3>1, <3>4, InRuns
      <4>3. exec'[r].phase = "none" /\ \A h \in Handle : pending'[h] # r
        BY <4>1, <4>2, <1>1 DEF NoRun, Alive
      <4> HIDE DEF r, t
      <4> QED BY <3>1, <3>4, <4>1, <4>3 DEF SegmentInv, r
    <3>5. CASE Ends(t) \/ Reports(t)
      <4>1. /\ seg[q].op \in {"turn", "fail"} /\ exec[r].phase \in Alive /\ ProcOfRun(r) = q
            /\ Ends(t) => EndsIn(t, log[r])
            /\ Reports(t) => ReportsIn(t, log[r])
        BY <3>1, <3>5, FormsHold
      <4>2. r \in DOMAIN exec
        BY <3>1, <3>5, InRuns
      <4>3. Busy(r)
        BY <3>1, <4>1 DEF Busy
      <4>4. exec'[r].phase \in Alive /\ ProcOf[exec'[r].h] = q
        BY <2>2, <4>1, <4>2, <4>3 DEF ProcOfRun
      <4>5. \/ Ends(t) /\ EndsIn(t, log'[r])
            \/ Reports(t) /\ ReportsIn(t, log'[r])
        BY <3>5, <4>1
      <4>6. ASSUME NEW k, k = r, seg'[q].todo = t, seg'[q].op = seg[q].op PROVE SegmentInv(q)'
        <5>1. k = seg'[q].todo[1].r /\ exec'[k].phase \in Alive /\ ProcOfRun(k)' = q
          BY <4>4, <4>6 DEF ProcOfRun
        <5>2. \/ Ends(seg'[q].todo) /\ EndsIn(seg'[q].todo, log'[k])
              \/ Reports(seg'[q].todo) /\ ReportsIn(seg'[q].todo, log'[k])
          BY <4>5, <4>6
        <5>3. seg'[q].op \in {"turn", "fail"}
          BY <4>1, <4>6
        <5> QED BY <5>1, <5>2, <5>3 DEF SegmentInv
      <4> QED BY <3>1, <4>6
    <3> QED BY <3>1, <3>2, <3>3, <3>4, <3>5, FormsHold
  <2> QED BY <2>1, <2>2
<1>3. ASSUME NEW r \in DOMAIN log' PROVE RunInv(r)'
  <2>1. r \in DOMAIN exec /\ r \in 1 .. Len(runs) /\ RunInv(r) /\ log'[r] = log[r]
    BY <1>1 DEF RecordInv
  <2>2. (Interrupted(log[r]) \/ InOrder(log[r]))'
    BY <2>1 DEF RunInv
  <2>3. (exec[r].phase # "none" => Recorded(log[r], 3))'
    BY <2>1 DEF RunInv, Alive
  <2>4. (exec[r].phase \in Alive /\ ~Busy(r) => Interrupted(log[r]) \/ Going(log[r]))'
    <3> SUFFICES ASSUME exec'[r].phase \in Alive, ~Busy(r)' PROVE Interrupted(log[r]) \/ Going(log[r])
      OBVIOUS
    <3>1. exec[r].phase \in Alive
      BY <2>1
    <3> QED BY <2>1, <3>1 DEF RunInv
  <2>5. ASSUME NEW h \in Handle, pending'[h] = r
        PROVE  /\ h = Creator /\ exec'[r].phase = "none" /\ Recorded(log'[r], 0)
               /\ Interrupted(log'[r]) \/ Len(log'[r]) = 0
    <3>1. pending[h] = r
      BY <2>1, <2>5, <1>1 DEF NoRun
    <3>2. h = Creator /\ exec[r].phase = "none" /\ Recorded(log[r], 0)
          /\ (Interrupted(log[r]) \/ Len(log[r]) = 0)
      BY <2>1, <3>1 DEF RunInv
    <3> QED BY <2>1, <3>2 DEF Alive
  <2> QED BY <2>2, <2>3, <2>4, <2>5 DEF RunInv
<1> QED BY <1>2, <1>3 DEF RecordInv

\* One process goes on in its segment or begins another, and nothing else changes
\* that matters here.
LEMMA SegmentOnly ==
  ASSUME TypeOK, TypeOK', RecordInv, NEW p \in Process, log' = log, exec' = exec,
         \A h \in Handle : pending'[h] \in {pending[h], NoRun},
         \A q \in Process \ {p} : seg'[q] = seg[q],
         SegmentInv(p)',
         Starts(seg'[p].todo) => Starts(seg[p].todo) /\ seg'[p].todo[1].r = seg[p].todo[1].r,
         seg[p].todo # <<>> /\ (Ends(seg[p].todo) \/ Reports(seg[p].todo)) =>
           /\ seg'[p].todo # <<>> /\ seg'[p].op = seg[p].op
           /\ seg'[p].todo[1].r = seg[p].todo[1].r
  PROVE  RecordInv'
<1>1. StartedOnce'
  <2>1. \A q \in Process : Starts(seg'[q].todo) => /\ Starts(seg[q].todo)
                                                   /\ seg'[q].todo[1].r = seg[q].todo[1].r
    OBVIOUS
  <2> QED BY <2>1, OnceStays DEF RecordInv
<1>2. ASSUME NEW r \in DOMAIN exec, Busy(r) PROVE Busy(r)'
  <2>1. CASE ProcOfRun(r) = p
    <3>1. seg[p].todo # <<>> /\ seg[p].op \in {"turn", "fail"} /\ seg[p].todo[1].r = r
      BY <1>2, <2>1 DEF Busy
    <3>2. SegmentInv(p)
      BY DEF RecordInv
    <3>3. Ends(seg[p].todo) \/ Reports(seg[p].todo)
      <4>1. /\ Starts(seg[p].todo) => seg[p].op \in {"send", "force"}
            /\ Cancels(seg[p].todo) => seg[p].op = "cancel"
            /\ Prepares(seg[p].todo) => seg[p].op \in {"send", "force", "cancel"}
            /\ \/ Starts(seg[p].todo) \/ Ends(seg[p].todo) \/ Reports(seg[p].todo)
               \/ Cancels(seg[p].todo) \/ Prepares(seg[p].todo)
        BY <3>1, <3>2, FormsHold
      <4> QED BY <3>1, <4>1
    <3>4. seg'[p].todo # <<>> /\ seg'[p].op = seg[p].op /\ seg'[p].todo[1].r = seg[p].todo[1].r
      BY <3>1, <3>3
    <3>5. ProcOfRun(r)' = p
      BY <2>1 DEF ProcOfRun
    <3> QED BY <3>1, <3>4, <3>5 DEF Busy
  <2>2. CASE ProcOfRun(r) # p
    <3>1. ProcOfRun(r) \in Process /\ ProcOfRun(r)' = ProcOfRun(r)
      <4>1. exec[r].h \in Handle
        <5>1. exec \in Seq([phase : Phase, h : Handle])
          BY DEF TypeOK
        <5>2. r \in 1 .. Len(exec)
          BY <5>1, LenProperties
        <5>3. exec[r] \in [phase : Phase, h : Handle]
          BY <5>1, <5>2, ElementOfSeq
        <5> QED BY <5>3
      <4> QED BY <4>1, ConstantsAssumption DEF ProcOfRun
    <3>2. seg'[ProcOfRun(r)] = seg[ProcOfRun(r)]
      BY <2>2, <3>1
    <3> QED BY <1>2, <3>1, <3>2 DEF Busy
  <2> QED BY <2>1, <2>2
<1>3. \A q \in Process :
        \/ seg'[q] = seg[q] /\ \A r \in DOMAIN exec :
                                 /\ ProcOfRun(r) = q /\ Busy(r) /\ exec[r].phase \in Alive
                                 => exec'[r].phase \in Alive
        \/ seg'[q].todo = <<>>
        \/ SegmentInv(q)'
  <2> SUFFICES ASSUME NEW q \in Process, q # p
               PROVE  seg'[q] = seg[q] /\ \A r \in DOMAIN exec :
                                 /\ ProcOfRun(r) = q /\ Busy(r) /\ exec[r].phase \in Alive
                                 => exec'[r].phase \in Alive
    OBVIOUS
  <2> QED OBVIOUS
<1>4. \A r \in DOMAIN exec :
        /\ exec'[r].h = exec[r].h
        /\ \/ exec'[r].phase = exec[r].phase
           \/ exec[r].phase \in Alive /\ exec'[r].phase \in Alive \cup {"gone"}
  OBVIOUS
<1>5. \A r \in DOMAIN exec :
        exec'[r].phase \in Alive /\ Busy(r) /\ ~Busy(r)' => Interrupted(log[r]) \/ Going(log[r])
  BY <1>2
<1> QED BY <1>1, <1>3, <1>4, <1>5, Quiet

-----------------------------------------------------------------------------
(* What prepares a start or a cancel. *)

LEMMA NoStatement == ASSUME NEW t, t = <<>> PROVE Len(t) = 0 /\ ~Starts(t) /\ ~Ends(t) /\ ~Reports(t)
<1>1. Len(t) = 0
  OBVIOUS
<1> QED BY <1>1 DEF Starts, Ends, Reports

\* The statements of expire_active_run.
Expires(s) == s.do \in {"expire", "expire_run", "mark"} \/ Logs(s, "EXPIRED")

LEMMA PreparesOn ==
  ASSUME NEW n \in Nat, NEW t \in Seq(StatementOver(n)), NEW more \in Seq(StatementOver(n)),
         Len(t) >= 2, Prepares(t), \A i \in 1 .. Len(more) : Expires(more[i]),
         NEW u, u = more \o Tail(t)
  PROVE  u # <<>> /\ Prepares(u) /\ u[Len(u)] = t[Len(t)]
<1> DEFINE v == Tail(t)
<1>1. /\ v \in Seq(StatementOver(n)) /\ Len(t) \in Nat /\ Len(v) = Len(t) - 1
      /\ \A i \in 1 .. Len(v) : v[i] = t[i + 1]
  BY HeadTailProperties, LenProperties, EmptySeq
<1> HIDE DEF v
<1>2. /\ Len(more) \in Nat /\ Len(u) = Len(more) + Len(v)
      /\ \A i \in 1 .. Len(more) : u[i] = more[i]
      /\ \A i \in Len(more) + 1 .. Len(u) : u[i] = v[i - Len(more)]
  <2>1. u = more \o v
    BY DEF v
  <2> QED BY <2>1, <1>1, ConcatProperties, LenProperties
<1>3. u[Len(u)] = t[Len(t)]
  <2>1. Len(u) \in Len(more) + 1 .. Len(u) /\ Len(u) - Len(more) = Len(v)
        /\ Len(v) \in 1 .. Len(v) /\ Len(v) + 1 = Len(t)
    BY <1>1, <1>2
  <2> QED BY <1>1, <1>2, <2>1
<1>4. ASSUME NEW i \in 1 .. Len(u) - 1 PROVE Expires(u[i])
  <2>1. CASE i <= Len(more)
    BY <1>2, <2>1
  <2>2. CASE i > Len(more)
    <3>1. i \in Len(more) + 1 .. Len(u) /\ i - Len(more) \in 1 .. Len(v)
          /\ i - Len(more) + 1 \in 1 .. Len(t) - 1
      BY <1>1, <1>2, <2>2
    <3>2. u[i] = t[i - Len(more) + 1]
      BY <1>1, <1>2, <3>1
    <3> QED BY <3>1, <3>2 DEF Prepares, Expires
  <2> QED BY <1>2, <2>1, <2>2
<1>5. Prepares(u)
  BY <1>3, <1>4 DEF Prepares, Expires
<1>6. u # <<>>
  <2>1. Len(u) >= 1
    BY <1>1, <1>2
  <2> QED BY <2>1
<1> QED BY <1>3, <1>5, <1>6

\* A segment that only prepares, before the step and after it.
LEMMA Prepared ==
  ASSUME TypeOK, TypeOK', RecordInv, NEW p \in Process, log' = log, exec' = exec,
         \A h \in Handle : pending'[h] \in {pending[h], NoRun},
         \A q \in Process \ {p} : seg'[q] = seg[q],
         seg[p].todo = <<>> \/ Prepares(seg[p].todo),
         \/ seg'[p].todo = <<>>
         \/ /\ Prepares(seg'[p].todo) /\ seg'[p].op \in {"send", "force", "cancel"}
            /\ seg'[p].op = "cancel" <=> seg'[p].todo[Len(seg'[p].todo)].do = "find"
  PROVE  RecordInv'
<1>1. SegmentInv(p)'
  BY DEF SegmentInv
<1>2. ~Starts(seg'[p].todo)
  BY NoStatement, FormsApart
<1>3. ~Ends(seg[p].todo) /\ ~Reports(seg[p].todo)
  BY NoStatement, FormsApart
<1> QED BY <1>1, <1>2, <1>3, SegmentOnly

LEMMA OthersStay ==
  ASSUME TypeOK, NEW p \in Process, NEW more, Continue(p, more) \/ Leave(p)
  PROVE  \A q \in Process \ {p} : seg'[q] = seg[q]
BY DEF TypeOK, Continue, Leave

LEMMA BeginIs ==
  ASSUME TypeOK, NEW p \in Process, NEW op, NEW h, NEW todo, Begin(p, op, h, todo)
  PROVE  /\ seg[p].todo = <<>> /\ seg'[p].todo = todo /\ seg'[p].op = op
         /\ \A q \in Process \ {p} : seg'[q] = seg[q]
BY DEF TypeOK, Begin, IsIdle

LEMMA SendStays ==
  ASSUME TypeOK, TypeOK', RecordInv, NEW h \in Handle, NEW force \in BOOLEAN, Send(h, force)
  PROVE  RecordInv'
<1> DEFINE p == ProcOf[h]
<1>1. p \in Process
  BY ConstantsAssumption
<1>2. log' = log /\ exec' = exec /\ pending' = pending
  BY DEF Send
<1>3. \/ Begin(p, "force", h, <<Do("expire"), Do("choose")>>)
      \/ Begin(p, "send", h, <<Do("choose")>>)
  BY DEF Send
<1>4. /\ seg[p].todo = <<>> /\ seg'[p].op \in {"send", "force"}
      /\ seg'[p].todo \in {<<Do("expire"), Do("choose")>>, <<Do("choose")>>}
      /\ \A q \in Process \ {p} : seg'[q] = seg[q]
  <2>1. CASE Begin(p, "force", h, <<Do("expire"), Do("choose")>>)
    BY <2>1, <1>1, BeginIs
  <2>2. CASE Begin(p, "send", h, <<Do("choose")>>)
    BY <2>2, <1>1, BeginIs
  <2> QED BY <1>3, <2>1, <2>2
<1> HIDE DEF p
<1>5. /\ Prepares(seg'[p].todo) /\ seg'[p].op \in {"send", "force", "cancel"}
      /\ seg'[p].op = "cancel" <=> seg'[p].todo[Len(seg'[p].todo)].do = "find"
  <2>1. CASE seg'[p].todo = <<Do("choose")>>
    BY <1>4, <2>1 DEF Prepares, Do
  <2>2. CASE seg'[p].todo = <<Do("expire"), Do("choose")>>
    <3> DEFINE u == <<Do("expire"), Do("choose")>>
    <3>1. Len(u) = 2 /\ u[1].do = "expire" /\ u[2].do = "choose"
      BY DEF Do
    <3> HIDE DEF u
    <3>2. Prepares(u) /\ u[Len(u)].do # "find"
      BY <3>1 DEF Prepares
    <3>3. seg'[p].todo = u
      BY <2>2 DEF u
    <3> QED BY <1>4, <3>2, <3>3
  <2> QED BY <1>4, <2>1, <2>2
<1> QED BY <1>1, <1>2, <1>4, <1>5, Prepared

LEMMA CancelStays ==
  ASSUME TypeOK, TypeOK', RecordInv, NEW p \in Process, NEW r, Cancel(p, r)
  PROVE  RecordInv'
<1>1. log' = log /\ exec' = exec /\ pending' = pending /\ Begin(p, "cancel", Creator, <<DoOn("find", r)>>)
  BY DEF Cancel
<1>2. /\ seg[p].todo = <<>> /\ seg'[p].op = "cancel" /\ seg'[p].todo = <<DoOn("find", r)>>
      /\ \A q \in Process \ {p} : seg'[q] = seg[q]
  BY <1>1, BeginIs
<1>3. /\ Prepares(seg'[p].todo) /\ seg'[p].op \in {"send", "force", "cancel"}
      /\ seg'[p].op = "cancel" <=> seg'[p].todo[Len(seg'[p].todo)].do = "find"
  BY <1>2 DEF Prepares, DoOn
<1> QED BY <1>1, <1>2, <1>3, Prepared

\* What process p is at, when RecordInv holds.
LEMMA FormAt ==
  ASSUME TypeOK, RecordInv, NEW p \in Process, seg[p].todo # <<>>
  PROVE  LET t == seg[p].todo
             verb == t[1].do
         IN  /\ Len(t) \in Nat /\ Len(t) >= 1 /\ Cur(p) = t[1]
             /\ Starts(t) \/ Ends(t) \/ Reports(t) \/ Cancels(t) \/ Prepares(t)
             /\ verb \in Preparing => Prepares(t) /\ Len(t) = 1
             /\ verb \in {"expire", "expire_run"} => Prepares(t) /\ Len(t) >= 2
             /\ verb = "start" => Starts(t) /\ Len(t) = 5
             /\ verb = "drive" => Starts(t) /\ Len(t) = 1
             /\ verb = "stop" => Ends(t) /\ Len(t) = 1
             /\ verb = "mark" => Len(t) >= 2 /\ ~Starts(t) /\ ~Reports(t)
<1> DEFINE t == seg[p].todo
<1>1. Len(t) \in Nat /\ Len(t) >= 1 /\ Cur(p) = t[1]
  BY AtStatement
<1>2. SegmentInv(p)
  BY DEF RecordInv
<1>3. Starts(t) \/ Ends(t) \/ Reports(t) \/ Cancels(t) \/ Prepares(t)
  BY <1>2, FormsHold
<1> HIDE DEF t
<1>4. LET verb == t[1].do
      IN  /\ verb \in Preparing => Prepares(t) /\ Len(t) = 1
          /\ verb \in {"expire", "expire_run"} => Prepares(t) /\ Len(t) >= 2
          /\ verb = "start" => Starts(t) /\ Len(t) = 5
          /\ verb = "drive" => Starts(t) /\ Len(t) = 1
          /\ verb = "stop" => Ends(t) /\ Len(t) = 1
          /\ verb = "mark" => Len(t) >= 2 /\ ~Starts(t) /\ ~Reports(t)
  BY <1>1, <1>3, FormsByVerb
<1> QED BY <1>1, <1>3, <1>4 DEF t

\* expire_active_run reads the agent and its run, and goes on.
LEMMA ExpiresStays ==
  ASSUME TypeOK, TypeOK', RecordInv, NEW p \in Process,
         seg[p].todo # <<>>, Prepares(seg[p].todo), Len(seg[p].todo) >= 2,
         NEW more \in Seq(StatementOver(Len(runs))), \A i \in 1 .. Len(more) : Expires(more[i]),
         Continue(p, more), log' = log, exec' = exec, pending' = pending
  PROVE  RecordInv'
<1> DEFINE n == Len(runs)
           t == seg[p].todo
           u == seg'[p].todo
<1>1. n \in Nat /\ n <= n
  BY DEF TypeOK
<1>2. /\ u = more \o Tail(t) /\ t \in Seq(StatementOver(n))
      /\ u # <<>> => seg'[p].op = seg[p].op
  BY <1>1, ContinueTodo
<1>3. u # <<>> /\ Prepares(u) /\ u[Len(u)] = t[Len(t)]
  BY <1>1, <1>2, PreparesOn
<1>4. seg[p].op \in {"send", "force", "cancel"} /\ (seg[p].op = "cancel" <=> t[Len(t)].do = "find")
  BY FormsHold DEF RecordInv
<1>5. \A q \in Process \ {p} : seg'[q] = seg[q]
  BY OthersStay
<1>6. /\ Prepares(u) /\ seg'[p].op \in {"send", "force", "cancel"}
      /\ seg'[p].op = "cancel" <=> u[Len(u)].do = "find"
  BY <1>2, <1>3, <1>4
<1> HIDE DEF n
<1> QED BY <1>5, <1>6, Prepared

LEMMA ExpireReadAgentStays ==
  ASSUME TypeOK, TypeOK', RecordInv, NEW p \in Process, ExpireReadAgent(p)
  PROVE  RecordInv'
<1> DEFINE more == IF agent.active = NoRun THEN <<>> ELSE <<DoOn("expire_run", agent.active)>>
<1>1. /\ seg[p].todo # <<>> /\ Cur(p).do = "expire" /\ Continue(p, more)
      /\ log' = log /\ exec' = exec /\ pending' = pending
  BY DEF ExpireReadAgent, At, Cur
<1>2. Prepares(seg[p].todo) /\ Len(seg[p].todo) >= 2
  BY <1>1, FormAt
<1>3. more \in Seq(StatementOver(Len(runs))) /\ \A i \in 1 .. Len(more) : Expires(more[i])
  <2>1. CASE agent.active = NoRun
    <3>1. more = <<>>
      BY <2>1
    <3> HIDE DEF more
    <3>2. Len(more) = 0 /\ more \in Seq(StatementOver(Len(runs)))
      BY <3>1, EmptySeq
    <3> QED BY <3>2
  <2>2. CASE agent.active # NoRun
    <3>1. agent.active \in 1 .. Len(runs) /\ Len(runs) \in Nat
      BY <2>2 DEF TypeOK, NoRun
    <3>2. DoOn("expire_run", agent.active) \in StatementOver(Len(runs))
      BY <3>1, DoOnType
    <3>3. more = <<DoOn("expire_run", agent.active)>>
      BY <2>2
    <3>4. Len(more) = 1 /\ more[1].do = "expire_run"
      BY <3>3 DEF DoOn
    <3>5. more \in Seq(StatementOver(Len(runs)))
      BY <3>1, <3>2, <3>3, SingleType
    <3> HIDE DEF more
    <3> QED BY <3>4, <3>5 DEF Expires
  <2> QED BY <2>1, <2>2
<1> HIDE DEF more
<1> QED BY <1>1, <1>2, <1>3, ExpiresStays

LEMMA ExpireReadRunStays ==
  ASSUME TypeOK, TypeOK', RecordInv, NEW p \in Process, ExpireReadRun(p)
  PROVE  RecordInv'
<1> DEFINE r == Cur(p).r
           more == IF Live(r) THEN ExpireScript(r) ELSE <<>>
<1>1. /\ seg[p].todo # <<>> /\ Cur(p).do = "expire_run" /\ Continue(p, more)
      /\ log' = log /\ exec' = exec /\ pending' = pending
  BY DEF ExpireReadRun, At, Cur
<1>2. Prepares(seg[p].todo) /\ Len(seg[p].todo) >= 2
  BY <1>1, FormAt
<1>3. more \in Seq(StatementOver(Len(runs))) /\ \A i \in 1 .. Len(more) : Expires(more[i])
  <2>1. CASE ~Live(r)
    <3>1. more = <<>>
      BY <2>1
    <3> HIDE DEF more
    <3>2. Len(more) = 0 /\ more \in Seq(StatementOver(Len(runs)))
      BY <3>1, EmptySeq
    <3> QED BY <3>2
  <2>2. CASE Live(r)
    <3>1. r \in 1 .. Len(runs) /\ Len(runs) \in Nat
      BY <1>1, AtStatement DEF StatementOver
    <3>2. more = ExpireScript(r)
      BY <2>2
    <3>3. Len(more) = 2 /\ more[1].do = "mark" /\ Logs(more[2], "EXPIRED")
      BY <3>2 DEF ExpireScript, DoWith, Logs
    <3>4. more \in Seq(StatementOver(Len(runs)))
      BY <3>1, <3>2, ScriptTypes
    <3> HIDE DEF more
    <3> QED BY <3>3, <3>4 DEF Expires
  <2> QED BY <2>1, <2>2
<1> HIDE DEF more
<1> QED BY <1>1, <1>2, <1>3, ExpiresStays

\* The busy check goes on to its next read, or the send is refused.
LEMMA ChecksStay ==
  ASSUME TypeOK, TypeOK', RecordInv, NEW p \in Process, seg[p].todo # <<>>,
         Cur(p).do \in {"choose", "get_agent", "get_active", "count"},
         log' = log, exec' = exec, \A h \in Handle : pending'[h] \in {pending[h], NoRun},
         \/ Leave(p)
         \/ \E s \in StatementOver(Len(runs)) :
              s.do \in {"get_agent", "get_active", "count", "insert_run"} /\ Continue(p, <<s>>)
  PROVE  RecordInv'
<1> DEFINE n == Len(runs)
           t == seg[p].todo
<1>1. n \in Nat /\ n <= n
  BY DEF TypeOK
<1>2. Prepares(t) /\ Len(t) = 1 /\ t[1].do \in {"choose", "get_agent", "get_active", "count"}
  BY FormAt DEF Preparing
<1>3. seg[p].op \in {"send", "force"}
  BY <1>2, FormsHold DEF RecordInv
<1>4. CASE Leave(p)
  <2>1. seg'[p].todo = <<>> /\ \A q \in Process \ {p} : seg'[q] = seg[q]
    BY <1>4 DEF Leave, TypeOK, Idle
  <2> QED BY <1>2, <2>1, Prepared
<1>5. ASSUME NEW s \in StatementOver(n), s.do \in {"get_agent", "get_active", "count", "insert_run"},
             Continue(p, <<s>>)
      PROVE  RecordInv'
  <2>1. <<s>> \in Seq(StatementOver(n))
    BY <1>1, <1>5, SingleType
  <2>2. seg'[p].todo = <<s>> /\ (seg'[p].todo # <<>> => seg'[p].op = seg[p].op)
    BY <1>1, <1>2, <1>5, <2>1, Replaced
  <2>3. \A q \in Process \ {p} : seg'[q] = seg[q]
    BY <1>5, OthersStay
  <2>4. /\ Prepares(<<s>>) /\ <<s>>[Len(<<s>>)].do # "find" /\ <<s>> # <<>>
    BY <1>5 DEF Prepares
  <2>5. /\ Prepares(seg'[p].todo) /\ seg'[p].op \in {"send", "force", "cancel"}
        /\ seg'[p].op = "cancel" <=> seg'[p].todo[Len(seg'[p].todo)].do = "find"
    BY <1>3, <2>2, <2>4
  <2> QED BY <1>2, <2>3, <2>5, Prepared
<1> QED BY <1>4, <1>5

LEMMA FollowUpReadAgentStays ==
  ASSUME TypeOK, TypeOK', RecordInv, NEW p \in Process, FollowUpReadAgent(p)
  PROVE  RecordInv'
<1>1. /\ seg[p].todo # <<>> /\ Cur(p).do = "get_agent"
      /\ log' = log /\ exec' = exec /\ pending' = pending
  BY DEF FollowUpReadAgent, At, Cur
<1>2. \/ Leave(p)
      \/ Continue(p, <<Do("count")>>)
      \/ agent.active # NoRun /\ Continue(p, <<DoOn("get_active", agent.active)>>)
  BY DEF FollowUpReadAgent
<1>3. Len(runs) \in Nat /\ (agent.active # NoRun => agent.active \in 1 .. Len(runs))
  BY DEF TypeOK, NoRun
<1>4. Do("count") \in StatementOver(Len(runs)) /\ Do("count").do = "count"
  BY <1>3, DoType DEF Do
<1>5. agent.active # NoRun => /\ DoOn("get_active", agent.active) \in StatementOver(Len(runs))
                              /\ DoOn("get_active", agent.active).do = "get_active"
  BY <1>3, DoOnType DEF DoOn
<1> QED BY <1>1, <1>2, <1>4, <1>5, ChecksStay

LEMMA FollowUpReadActiveStays ==
  ASSUME TypeOK, TypeOK', RecordInv, NEW p \in Process, FollowUpReadActive(p)
  PROVE  RecordInv'
<1>1. /\ seg[p].todo # <<>> /\ Cur(p).do = "get_active"
      /\ log' = log /\ exec' = exec /\ pending' = pending
      /\ Leave(p) \/ Continue(p, <<Do("count")>>)
  BY DEF FollowUpReadActive, At, Cur
<1>2. Do("count") \in StatementOver(Len(runs)) /\ Do("count").do = "count"
  BY DoType DEF Do, TypeOK
<1> QED BY <1>1, <1>2, ChecksStay

LEMMA FollowUpCountStays ==
  ASSUME TypeOK, TypeOK', RecordInv, NEW p \in Process, FollowUpCount(p)
  PROVE  RecordInv'
<1> DEFINE s == [Do("insert_run") EXCEPT !.n = Len(runs)]
<1>1. /\ seg[p].todo # <<>> /\ Cur(p).do = "count"
      /\ log' = log /\ exec' = exec /\ pending' = pending
      /\ Leave(p) \/ Continue(p, <<s>>)
  BY DEF FollowUpCount, At, Cur
<1>2. s \in StatementOver(Len(runs)) /\ s.do = "insert_run"
  BY InsertRunType DEF Do, TypeOK
<1> HIDE DEF s
<1> QED BY <1>1, <1>2, ChecksStay

-----------------------------------------------------------------------------
(* Scripts that go on without writing to a log. *)

\* The segment goes on to the next statement of its script.
LEMMA FormsMoveOn ==
  ASSUME TypeOK, NEW p \in Process, seg[p].todo # <<>>, Len(seg[p].todo) >= 2, Continue(p, <<>>)
  PROVE  LET t == seg[p].todo
             u == seg'[p].todo
         IN  /\ u # <<>> /\ Len(u) = Len(t) - 1 /\ Len(t) \in Nat /\ u[Len(u)] = t[Len(t)]
             /\ seg'[p].op = seg[p].op
             /\ \A q \in Process \ {p} : seg'[q] = seg[q]
             /\ Starts(t) => Starts(u) /\ u[1].r = t[1].r /\ u[1].do # "insert_event"
             /\ Ends(t) => Ends(u) /\ u[1].r = t[1].r /\ u[1].do # "insert_event"
             /\ Cancels(t) => Cancels(u) /\ u[1].r = t[1].r
             /\ Prepares(t) => Prepares(u)
<1> DEFINE t == seg[p].todo
           u == seg'[p].todo
<1>1. /\ Len(t) \in Nat /\ Len(u) = Len(t) - 1
      /\ \A i \in 1 .. Len(u) : u[i] = t[i + 1]
      /\ u # <<>> => u[Len(u)] = t[Len(t)]
      /\ u # <<>> => seg'[p].op = seg[p].op
  BY AtStatement, MovesOn DEF Final
<1>2. u # <<>>
  <2>1. Len(u) >= 1
    BY <1>1
  <2> HIDE DEF u
  <2> QED BY <2>1
<1>3. \A q \in Process \ {p} : seg'[q] = seg[q]
  BY OthersStay
<1> HIDE DEF t, u
<1>4. /\ Starts(t) => Starts(u) /\ u[1].r = t[1].r /\ u[1].do # "insert_event"
      /\ Ends(t) => Ends(u) /\ u[1].r = t[1].r /\ u[1].do # "insert_event"
      /\ Cancels(t) => Cancels(u) /\ u[1].r = t[1].r
      /\ Prepares(t) => Prepares(u)
  <2>1. Len(t) >= 2
    BY DEF t
  <2> QED BY <1>1, <2>1, FormsShrink
<1> QED BY <1>1, <1>2, <1>3, <1>4 DEF t, u

\* What has to be known of a segment that is doing something.
LEMMA SegmentIs ==
  ASSUME NEW p \in Process, NEW r, seg[p].todo # <<>>, seg[p].todo[1].r = r,
         \/ /\ seg[p].op \in {"send", "force"} /\ Starts(seg[p].todo) /\ StartsIn(seg[p].todo, log[r])
            /\ exec[r].phase = "none" /\ \A h \in Handle : pending[h] # r
         \/ seg[p].op = "cancel" /\ Cancels(seg[p].todo) /\ CancelsIn(seg[p].todo, log[r])
         \/ /\ seg[p].op \in {"turn", "fail"} /\ exec[r].phase \in Alive /\ ProcOfRun(r) = p
            /\ \/ Ends(seg[p].todo) /\ EndsIn(seg[p].todo, log[r])
               \/ Reports(seg[p].todo) /\ ReportsIn(seg[p].todo, log[r])
  PROVE  SegmentInv(p)
BY DEF SegmentInv

LEMMA MarkRunStartingStays ==
  ASSUME TypeOK, TypeOK', RecordInv, NEW p \in Process, MarkRunStarting(p)
  PROVE  RecordInv'
<1> DEFINE t == seg[p].todo
           u == seg'[p].todo
           r == t[1].r
<1>1. /\ t # <<>> /\ Cur(p).do = "start" /\ Continue(p, <<>>)
      /\ log' = log /\ exec' = exec /\ pending' = pending
  BY DEF MarkRunStarting, At, Cur
<1>2. Starts(t) /\ Len(t) = 5
  BY <1>1, FormAt
<1>3. /\ u # <<>> /\ Len(u) = 4 /\ seg'[p].op = seg[p].op /\ Starts(u) /\ u[1].r = r
      /\ u[1].do # "insert_event" /\ \A q \in Process \ {p} : seg'[q] = seg[q]
  <2>1. Len(t) >= 2
    BY <1>2
  <2>2. /\ u # <<>> /\ Len(u) = Len(t) - 1 /\ seg'[p].op = seg[p].op
        /\ Starts(t) => Starts(u) /\ u[1].r = t[1].r /\ u[1].do # "insert_event"
        /\ \A q \in Process \ {p} : seg'[q] = seg[q]
    BY <1>1, <2>1, FormsMoveOn
  <2> QED BY <1>2, <2>2
<1>4. /\ seg[p].op \in {"send", "force"} /\ StartsIn(t, log[r])
      /\ exec[r].phase = "none" /\ \A h \in Handle : pending[h] # r
  BY <1>1, <1>2, FormsHold DEF RecordInv
<1>5. StartsIn(u, log[r])
  BY <1>2, <1>3, <1>4 DEF StartsIn, Begun, Fresh
<1>6. SegmentInv(p)'
  <2>1. ASSUME NEW k, k = r PROVE SegmentInv(p)'
    <3>1. /\ seg'[p].op \in {"send", "force"} /\ Starts(seg'[p].todo) /\ StartsIn(seg'[p].todo, log'[k])
          /\ exec'[k].phase = "none" /\ \A h \in Handle : pending'[h] # k
          /\ seg'[p].todo # <<>> /\ seg'[p].todo[1].r = k
      BY <1>1, <1>3, <1>4, <1>5, <2>1
    <3> QED BY <3>1 DEF SegmentInv
  <2> QED BY <2>1
<1>7. ~Ends(t) /\ ~Reports(t)
  BY <1>2, FormsApart
<1> QED BY <1>1, <1>2, <1>3, <1>6, <1>7, SegmentOnly

\* A segment at a mark has three more statements, unless it prepares.
LEMMA MarksFourth ==
  ASSUME NEW t, Ends(t) \/ Cancels(t), t[1].do = "mark"
  PROVE  Len(t) = 4
<1>1. CASE Ends(t)
  <2>1. Len(t) \in 1 .. 5
    BY <1>1, Zenon DEF Ends
  <2>2. Len(t) # 1
    BY <1>1 DEF Ends
  <2>3. Len(t) # 5
    BY <1>1 DEF Ends, Logs
  <2>4. Len(t) # 2 /\ Len(t) # 3
    <3>1. /\ Len(t) >= 2 => Logs(t[Len(t) - 1], "done")
          /\ Len(t) >= 3 => Logs(t[Len(t) - 2], "result")
      BY <1>1, Zenon DEF Ends
    <3>2. ASSUME Len(t) = 2 PROVE FALSE
      <4>1. Logs(t[1], "done")
        BY <3>1, <3>2
      <4> QED BY <4>1 DEF Logs
    <3>3. ASSUME Len(t) = 3 PROVE FALSE
      <4>1. Logs(t[1], "result")
        BY <3>1, <3>3
      <4> QED BY <4>1 DEF Logs
    <3> QED BY <3>2, <3>3
  <2> QED BY <2>1, <2>2, <2>3, <2>4
<1>2. CASE Cancels(t)
  <2>1. Len(t) \in 1 .. 4
    BY <1>2, Zenon DEF Cancels
  <2>2. Len(t) # 1
    BY <1>2 DEF Cancels, Logs
  <2>3. /\ Len(t) >= 2 => Logs(t[Len(t) - 1], "result")
        /\ Len(t) >= 3 => Logs(t[Len(t) - 2], "CANCELLED")
    BY <1>2, Zenon DEF Cancels
  <2>4. ASSUME Len(t) = 2 PROVE FALSE
    <3>1. Logs(t[1], "result")
      BY <2>3, <2>4
    <3> QED BY <3>1 DEF Logs
  <2>5. ASSUME Len(t) = 3 PROVE FALSE
    <3>1. Logs(t[1], "CANCELLED")
      BY <2>3, <2>5
    <3> QED BY <3>1 DEF Logs
  <2> QED BY <2>1, <2>2, <2>4, <2>5
<1> QED BY <1>1, <1>2

LEMMA MarkRunTerminalStays ==
  ASSUME TypeOK, TypeOK', RecordInv, NEW p \in Process, MarkRunTerminal(p)
  PROVE  RecordInv'
<1> DEFINE t == seg[p].todo
           u == seg'[p].todo
           r == t[1].r
<1>1. /\ t # <<>> /\ t[1].do = "mark" /\ Continue(p, <<>>)
      /\ log' = log /\ exec' = exec /\ pending' = pending
  BY DEF MarkRunTerminal, At, Cur
<1>2. Len(t) >= 2 /\ ~Starts(t) /\ ~Reports(t) /\ (Ends(t) \/ Cancels(t) \/ Prepares(t))
  BY <1>1, FormAt
<1>3. /\ u # <<>> /\ Len(u) = Len(t) - 1 /\ u[Len(u)] = t[Len(t)] /\ seg'[p].op = seg[p].op
      /\ Ends(t) => Ends(u) /\ u[1].r = r /\ u[1].do # "insert_event"
      /\ Cancels(t) => Cancels(u) /\ u[1].r = r
      /\ Prepares(t) => Prepares(u)
      /\ \A q \in Process \ {p} : seg'[q] = seg[q]
  BY <1>1, <1>2, FormsMoveOn
<1>4. /\ Cancels(t) => seg[p].op = "cancel"
      /\ Ends(t) => /\ seg[p].op \in {"turn", "fail"} /\ exec[r].phase \in Alive
                    /\ ProcOfRun(r) = p /\ EndsIn(t, log[r])
      /\ Prepares(t) => /\ seg[p].op \in {"send", "force", "cancel"}
                        /\ seg[p].op = "cancel" <=> t[Len(t)].do = "find"
  BY <1>1, FormsHold DEF RecordInv
<1>5. CASE Prepares(t)
  <2>1. /\ Prepares(u) /\ seg'[p].op \in {"send", "force", "cancel"}
        /\ seg'[p].op = "cancel" <=> u[Len(u)].do = "find"
    BY <1>3, <1>4, <1>5
  <2> QED BY <1>1, <1>3, <1>5, <2>1, Prepared
<1>6. CASE Cancels(t)
  <2>1. Len(u) = 3 /\ Cancels(u)
    BY <1>1, <1>3, <1>6, MarksFourth
  <2>2. CancelsIn(u, log'[u[1].r])
    BY <2>1 DEF CancelsIn
  <2>3. SegmentInv(p)'
    BY <1>3, <1>4, <1>6, <2>1, <2>2 DEF SegmentInv
  <2>4. ~Starts(u) /\ ~Ends(t)
    BY <2>1, <1>6, FormsApart
  <2> QED BY <1>1, <1>2, <1>3, <2>3, <2>4, SegmentOnly
<1>7. CASE Ends(t)
  <2>1. Len(t) = 4 /\ Len(u) = 3 /\ Ends(u) /\ u[1].r = r /\ u[1].do # "insert_event"
    BY <1>1, <1>3, <1>7, MarksFourth
  <2>2. EndsIn(u, log[r])
    BY <1>4, <1>7, <2>1 DEF EndsIn, Fresh
  <2>3. SegmentInv(p)'
    <3>1. ASSUME NEW k, k = r PROVE SegmentInv(p)'
      <4>1. /\ seg'[p].op \in {"turn", "fail"} /\ Ends(seg'[p].todo) /\ EndsIn(seg'[p].todo, log'[k])
            /\ exec'[k].phase \in Alive /\ ProcOfRun(k)' = p
            /\ seg'[p].todo # <<>> /\ seg'[p].todo[1].r = k
        BY <1>1, <1>3, <1>4, <1>7, <2>1, <2>2, <3>1 DEF ProcOfRun
      <4> QED BY <4>1 DEF SegmentInv
    <3> QED BY <3>1
  <2>4. ~Starts(u)
    BY <2>1, FormsApart
  <2> QED BY <1>1, <1>3, <2>1, <2>3, <2>4, SegmentOnly
<1> QED BY <1>2, <1>5, <1>6, <1>7

LEMMA ReadMaxSeqStays ==
  ASSUME TypeOK, TypeOK', RecordInv, NEW p \in Process, ReadMaxSeq(p)
  PROVE  RecordInv'
<1> DEFINE t == seg[p].todo
           u == seg'[p].todo
           r == t[1].r
<1>1. /\ t # <<>> /\ t[1].do = "append" /\ Len(u) = Len(t) /\ u # <<>>
      /\ u[1].do = "insert_event" /\ u[1].r = r /\ u[1].arg = t[1].arg /\ u[1].n = Len(log[r])
      /\ \A i \in 2 .. Len(u) : u[i] = t[i]
      /\ seg'[p].op = seg[p].op
  BY Reads
<1>2. /\ log' = log /\ exec' = exec /\ pending' = pending
      /\ \A q \in Process \ {p} : seg'[q] = seg[q]
  BY DEF ReadMaxSeq, TypeOK, Continue
<1>3. /\ Len(t) \in Nat /\ Len(t) >= 1
      /\ Starts(t) \/ Ends(t) \/ Reports(t) \/ Cancels(t) \/ Prepares(t)
  BY <1>1, FormAt
<1>4. /\ Starts(t) => /\ seg[p].op \in {"send", "force"} /\ StartsIn(t, log[r])
                      /\ exec[r].phase = "none" /\ \A h \in Handle : pending[h] # r
      /\ Cancels(t) => seg[p].op = "cancel" /\ CancelsIn(t, log[r])
      /\ Ends(t) => /\ seg[p].op \in {"turn", "fail"} /\ exec[r].phase \in Alive
                    /\ ProcOfRun(r) = p /\ EndsIn(t, log[r])
      /\ Reports(t) => /\ seg[p].op \in {"turn", "fail"} /\ exec[r].phase \in Alive
                       /\ ProcOfRun(r) = p /\ ReportsIn(t, log[r])
      /\ Prepares(t) => /\ seg[p].op \in {"send", "force", "cancel"}
                        /\ seg[p].op = "cancel" <=> t[Len(t)].do = "find"
  BY <1>1, FormsHold DEF RecordInv
<1>5. /\ Starts(t) => Starts(u)
      /\ Ends(t) => Ends(u)
      /\ Reports(t) => Reports(u)
      /\ Cancels(t) => Cancels(u)
      /\ Prepares(t) => Prepares(u)
  <2> HIDE DEF t, u
  <2> QED BY <1>1, <1>3, FormsRead DEF r
<1>6. Fresh(u, log[r])
  BY <1>1 DEF Fresh
<1>7. CASE Prepares(t)
  <2>1. Len(t) \in 2 .. Len(u)
    <3>1. ASSUME Len(t) = 1 PROVE FALSE
      <4>1. t[1].do \in {"choose", "get_agent", "get_active", "count", "insert_run", "find"}
        BY <1>7, <3>1 DEF Prepares
      <4> QED BY <1>1, <4>1
    <3>2. Len(t) \in Nat /\ Len(t) >= 1 /\ Len(u) = Len(t)
      BY <1>1, <1>3
    <3> HIDE DEF t, u
    <3> QED BY <3>1, <3>2
  <2>2. u[Len(u)] = t[Len(t)]
    BY <1>1, <2>1
  <2>3. /\ Prepares(u) /\ seg'[p].op \in {"send", "force", "cancel"}
        /\ seg'[p].op = "cancel" <=> u[Len(u)].do = "find"
    BY <1>1, <1>4, <1>5, <1>7, <2>2
  <2> QED BY <1>2, <1>7, <2>3, Prepared
<1>8. CASE Starts(t)
  <2>1. StartsIn(u, log[r])
    BY <1>1, <1>4, <1>6, <1>8 DEF StartsIn, Begun
  <2>2. SegmentInv(p)'
    <3>1. ASSUME NEW k, k = r PROVE SegmentInv(p)'
      <4>1. /\ seg'[p].op \in {"send", "force"} /\ Starts(seg'[p].todo) /\ StartsIn(seg'[p].todo, log'[k])
            /\ exec'[k].phase = "none" /\ \A h \in Handle : pending'[h] # k
            /\ seg'[p].todo # <<>> /\ seg'[p].todo[1].r = k
        BY <1>1, <1>2, <1>4, <1>5, <1>8, <2>1, <3>1
      <4> QED BY <4>1 DEF SegmentInv
    <3> QED BY <3>1
  <2>3. ~Ends(t) /\ ~Reports(t)
    BY <1>8, FormsApart
  <2> QED BY <1>1, <1>2, <1>8, <2>2, <2>3, SegmentOnly
<1>9. CASE Cancels(t)
  <2>1. CancelsIn(u, log'[u[1].r])
    BY <1>1, <1>2, <1>4, <1>9 DEF CancelsIn
  <2>2. SegmentInv(p)'
    BY <1>1, <1>4, <1>5, <1>9, <2>1 DEF SegmentInv
  <2>3. ~Starts(u) /\ ~Ends(t) /\ ~Reports(t)
    BY <1>5, <1>9, FormsApart
  <2> QED BY <1>1, <1>2, <2>2, <2>3, SegmentOnly
<1>10. CASE Ends(t) \/ Reports(t)
  <2>1. /\ Ends(t) => Ends(u) /\ EndsIn(u, log[r])
        /\ Reports(t) => Reports(u) /\ ReportsIn(u, log[r])
    BY <1>1, <1>4, <1>5, <1>6 DEF EndsIn, ReportsIn
  <2>2. seg[p].op \in {"turn", "fail"} /\ exec[r].phase \in Alive /\ ProcOfRun(r) = p
    BY <1>4, <1>10
  <2>3. SegmentInv(p)'
    <3>1. ASSUME NEW k, k = r PROVE SegmentInv(p)'
      <4>1. /\ seg'[p].op \in {"turn", "fail"} /\ exec'[k].phase \in Alive /\ ProcOfRun(k)' = p
            /\ seg'[p].todo # <<>> /\ seg'[p].todo[1].r = k
        BY <1>1, <1>2, <2>2, <3>1 DEF ProcOfRun
      <4>2. \/ Ends(seg'[p].todo) /\ EndsIn(seg'[p].todo, log'[k])
            \/ Reports(seg'[p].todo) /\ ReportsIn(seg'[p].todo, log'[k])
        BY <1>2, <1>10, <2>1, <3>1
      <4> QED BY <4>1, <4>2 DEF SegmentInv
    <3> QED BY <3>1
  <2>4. ~Starts(u)
    BY <1>5, <1>10, FormsApart
  <2> QED BY <1>1, <1>2, <2>3, <2>4, SegmentOnly
<1> QED BY <1>3, <1>7, <1>8, <1>9, <1>10

LEMMA CancelFindRunStays ==
  ASSUME TypeOK, TypeOK', RecordInv, NEW p \in Process, CancelFindRun(p)
  PROVE  RecordInv'
<1> DEFINE t == seg[p].todo
           r == Cur(p).r
           more == IF Live(r) THEN CancelScript(r) ELSE <<>>
<1>1. /\ t # <<>> /\ Cur(p) = t[1] /\ Cur(p).do = "find" /\ Continue(p, more)
      /\ log' = log /\ exec' = exec /\ pending' = pending
  BY DEF CancelFindRun, At, Cur
<1>2. Prepares(t) /\ Len(t) = 1
  BY <1>1, FormAt DEF Preparing
<1>3. seg[p].op = "cancel"
  BY <1>1, <1>2, FormsHold DEF RecordInv
<1>4. \A q \in Process \ {p} : seg'[q] = seg[q]
  BY <1>1, OthersStay
<1>5. r \in 1 .. Len(runs) /\ Len(runs) \in Nat /\ Len(runs) <= Len(runs)
  <2>1. t[1] \in StatementOver(Len(runs)) /\ Len(runs) \in Nat
    BY <1>1, AtStatement
  <2> HIDE DEF t
  <2> QED BY <1>1, <2>1 DEF StatementOver
<1>6. CASE ~Live(r)
  <2>1. more = <<>>
    BY <1>6
  <2>2. Continue(p, <<>>)
    BY <1>1, <2>1
  <2>3. Len(seg'[p].todo) = 0
    BY <1>1, <1>2, <2>2, MovesOn
  <2>4. seg'[p].todo = <<>>
    <3>1. seg'[p].todo \in Seq(StatementOver(Len(runs')))
      BY DEF TypeOK, Segment
    <3> QED BY <2>3, <3>1, EmptySeq
  <2> QED BY <1>1, <1>2, <1>4, <2>4, Prepared
<1>7. CASE Live(r)
  <2>1. more = CancelScript(r)
    BY <1>7
  <2> DEFINE c == CancelScript(r)
  <2>2. c \in Seq(StatementOver(Len(runs))) /\ Continue(p, c)
    BY <1>1, <1>5, <2>1, ScriptTypes
  <2>3. Cancels(c) /\ Len(c) = 4
    BY ScriptForms
  <2>4. c # <<>>
    BY DEF CancelScript
  <2> HIDE DEF c
  <2>5. seg'[p].todo = c /\ (seg'[p].todo # <<>> => seg'[p].op = seg[p].op)
    BY <1>1, <1>2, <1>5, <2>2, Replaced
  <2>6. CancelsIn(c, log'[c[1].r])
    BY <2>3 DEF CancelsIn
  <2>7. SegmentInv(p)'
    BY <1>3, <2>3, <2>4, <2>5, <2>6 DEF SegmentInv
  <2>8. ~Starts(c) /\ ~Ends(t) /\ ~Reports(t)
    BY <1>2, <2>3, FormsApart
  <2> QED BY <1>1, <1>4, <2>5, <2>7, <2>8, SegmentOnly
<1> QED BY <1>6, <1>7

\* An executor that is at no segment begins one.
LEMMA TurnStays ==
  ASSUME TypeOK, TypeOK', RecordInv, NEW r \in DOMAIN exec, exec[r].phase \in Alive,
         NEW p \in Process, ProcOfRun(r) = p,
         NEW op \in {"turn", "fail"}, NEW h, NEW todo, Begin(p, op, h, todo),
         Ends(todo) \/ Reports(todo), Len(todo) \in {1, 5}, Reports(todo) <=> Len(todo) = 1,
         todo # <<>>, todo[1].r = r, todo[1].do = "append",
         log' = log, exec' = exec, pending' = pending
  PROVE  RecordInv'
<1>1. r \in DOMAIN log
  <2>1. Len(log) = Len(exec) /\ DOMAIN log = 1 .. Len(log) /\ DOMAIN exec = 1 .. Len(exec)
    BY LenProperties DEF TypeOK
  <2> QED BY <2>1
<1>2. /\ seg[p].todo = <<>> /\ seg'[p].todo = todo /\ seg'[p].op = op
      /\ \A q \in Process \ {p} : seg'[q] = seg[q]
  BY <1>1, BeginIs
<1>3. ~Busy(r)
  BY <1>2 DEF Busy
<1>4. Interrupted(log[r]) \/ Going(log[r])
  BY <1>1, <1>3 DEF RecordInv, RunInv
<1>5. Fresh(todo, log[r])
  BY DEF Fresh
<1>6. /\ Ends(todo) => EndsIn(todo, log[r])
      /\ Reports(todo) => ReportsIn(todo, log[r])
  <2>1. Going(log[r]) => Len(log[r]) >= 3
    BY DEF Going
  <2>2. Ends(todo) => ~Reports(todo)
    BY FormsApart
  <2>3. Ends(todo) => Len(todo) = 5
    BY <2>2
  <2>4. Ends(todo) => EndsIn(todo, log[r])
    <3> SUFFICES ASSUME Ends(todo) PROVE EndsIn(todo, log[r])
      OBVIOUS
    <3>1. Len(todo) = 5
      BY <2>3
    <3>2. 5 \notin {3, 4} /\ 5 # 2
      OBVIOUS
    <3> QED BY <1>4, <1>5, <2>1, <3>1, <3>2, Zenon DEF EndsIn
  <2>5. Reports(todo) => ReportsIn(todo, log[r])
    BY <1>4, <1>5 DEF ReportsIn
  <2> QED BY <2>4, <2>5
<1>p. ProcOfRun(r)' = p
  BY DEF ProcOfRun
<1>7. SegmentInv(p)'
  <2>1. /\ seg'[p].op \in {"turn", "fail"} /\ exec'[r].phase \in Alive
        /\ seg'[p].todo # <<>> /\ seg'[p].todo[1].r = r
    BY <1>2
  <2>2. \/ Ends(seg'[p].todo) /\ EndsIn(seg'[p].todo, log'[r])
        \/ Reports(seg'[p].todo) /\ ReportsIn(seg'[p].todo, log'[r])
    BY <1>2, <1>6
  <2> QED BY <1>p, <2>1, <2>2 DEF SegmentInv
<1>8. ~Starts(seg'[p].todo)
  BY <1>2, FormsApart
<1> QED BY <1>1, <1>2, <1>7, <1>8, SegmentOnly

\* The row of a run's executor.
LEMMA ExecRow ==
  ASSUME TypeOK, NEW r \in DOMAIN exec
  PROVE  /\ exec[r] \in [phase : Phase, h : Handle] /\ exec[r].h \in Handle
         /\ r \in 1 .. Len(exec) /\ ProcOfRun(r) \in Process
         /\ exec \in Seq([phase : Phase, h : Handle])
<1>1. exec \in Seq([phase : Phase, h : Handle])
  BY DEF TypeOK
<1>2. r \in 1 .. Len(exec)
  BY <1>1, LenProperties
<1>3. exec[r] \in [phase : Phase, h : Handle]
  BY <1>1, <1>2, ElementOfSeq
<1> QED BY <1>1, <1>2, <1>3, ConstantsAssumption DEF ProcOfRun

LEMMA TurnBeginsStays ==
  ASSUME TypeOK, TypeOK', RecordInv, NEW r \in DOMAIN exec,
         Emit(r) \/ TurnEnds(r) \/ RunFails(r)
  PROVE  RecordInv'
<1>p. PICK p \in Process : ProcOfRun(r) = p
  BY ExecRow
<1>1. CASE Emit(r)
  <2> DEFINE u == << DoWith("append", r, "progress") >>
  <2>1. Begin(p, "turn", exec[r].h, u) /\ exec[r].phase \in Alive
        /\ log' = log /\ exec' = exec /\ pending' = pending
    BY <1>1, <1>p DEF Emit, Alive
  <2>2. Reports(u) /\ Len(u) = 1 /\ u[1].r = r /\ u[1].do = "append"
    BY ScriptForms
  <2>3. u # <<>>
    OBVIOUS
  <2> HIDE DEF u
  <2> QED BY <1>p, <2>1, <2>2, <2>3, TurnStays
<1>2. ASSUME NEW status \in {"FINISHED", "ERROR"}, NEW op \in {"turn", "fail"}, exec[r].phase \in Alive,
             Begin(p, op, exec[r].h, EndScript(r, status)),
             log' = log, exec' = exec, pending' = pending
      PROVE  RecordInv'
  <2> DEFINE u == EndScript(r, status)
  <2>1. Begin(p, op, exec[r].h, u)
    BY <1>2
  <2>2. Ends(u) /\ Len(u) = 5 /\ u[1].r = r /\ u[1].do = "append"
    BY ScriptForms
  <2>3. u # <<>>
    BY DEF EndScript
  <2> HIDE DEF u
  <2>4. ~Reports(u)
    BY <2>2, FormsApart
  <2>5. Len(u) \in {1, 5} /\ (Reports(u) <=> Len(u) = 1)
    BY <2>2, <2>4
  <2> QED BY <1>p, <1>2, <2>1, <2>2, <2>3, <2>5, TurnStays
<1>3. CASE TurnEnds(r)
  <2> PICK status \in {"FINISHED", "ERROR"} : EndTurn(r, status)
    BY <1>3 DEF TurnEnds
  <2>1. Begin(p, "turn", exec[r].h, EndScript(r, status)) /\ exec[r].phase \in Alive
        /\ log' = log /\ exec' = exec /\ pending' = pending
    BY <1>p DEF EndTurn, Alive
  <2> QED BY <1>2, <2>1
<1>4. CASE RunFails(r)
  <2>1. Begin(p, "fail", exec[r].h, EndScript(r, "ERROR")) /\ exec[r].phase \in Alive
        /\ log' = log /\ exec' = exec /\ pending' = pending
    BY <1>4, <1>p DEF RunFails, Alive
  <2> QED BY <1>2, <2>1
<1> QED BY <1>1, <1>3, <1>4

-----------------------------------------------------------------------------
(* Executors that end, and segments that are left. *)

LEMMA Dropped ==
  ASSUME TypeOK, TypeOK', RecordInv, log' = log,
         \A h \in Handle : pending'[h] \in {pending[h], NoRun},
         \A r \in DOMAIN exec :
           /\ exec'[r].h = exec[r].h
           /\ \/ exec'[r].phase = exec[r].phase
              \/ exec[r].phase \in Alive /\ exec'[r].phase \in Alive \cup {"gone"},
         \A q \in Process : seg'[q] = seg[q] \/ seg'[q].todo = <<>>,
         \A r \in DOMAIN exec :
           exec'[r].phase # exec[r].phase => ~Busy(r) \/ seg'[ProcOfRun(r)].todo = <<>>,
         \A r \in DOMAIN exec :
           exec'[r].phase \in Alive /\ Busy(r) /\ seg'[ProcOfRun(r)].todo = <<>> =>
             Interrupted(log[r]) \/ Going(log[r])
  PROVE  RecordInv'
<1>1. StartedOnce'
  <2>1. \A q \in Process : Starts(seg'[q].todo) => /\ Starts(seg[q].todo)
                                                   /\ seg'[q].todo[1].r = seg[q].todo[1].r
    BY NoStatement
  <2> QED BY <2>1, OnceStays DEF RecordInv
<1>2. \A q \in Process :
        \/ seg'[q] = seg[q] /\ \A r \in DOMAIN exec :
                                 /\ ProcOfRun(r) = q /\ Busy(r) /\ exec[r].phase \in Alive
                                 => exec'[r].phase \in Alive
        \/ seg'[q].todo = <<>>
        \/ SegmentInv(q)'
  <2> SUFFICES ASSUME NEW q \in Process, seg'[q].todo # <<>>
               PROVE  seg'[q] = seg[q] /\ \A r \in DOMAIN exec :
                                 /\ ProcOfRun(r) = q /\ Busy(r) /\ exec[r].phase \in Alive
                                 => exec'[r].phase \in Alive
    OBVIOUS
  <2> QED OBVIOUS
<1>3. ASSUME NEW r \in DOMAIN exec, exec'[r].phase \in Alive, Busy(r), ~Busy(r)'
      PROVE  Interrupted(log[r]) \/ Going(log[r])
  <2>1. CASE seg'[ProcOfRun(r)].todo = <<>>
    BY <1>3, <2>1
  <2>2. CASE seg'[ProcOfRun(r)].todo # <<>>
    <3>1. PICK q \in Process : ProcOfRun(r) = q
      BY ExecRow
    <3>2. seg'[q] = seg[q] /\ ProcOfRun(r)' = q
      <4>1. ProcOf[exec'[r].h] = q
        BY <3>1 DEF ProcOfRun
      <4>2. seg'[q] = seg[q]
        BY <2>2, <3>1
      <4> QED BY <4>1, <4>2 DEF ProcOfRun
    <3>3. Busy(r)'
      BY <1>3, <3>1, <3>2 DEF Busy
    <3> QED BY <1>3, <3>3
  <2> QED BY <2>1, <2>2
<1> QED BY <1>1, <1>2, <1>3, Quiet

LEMMA ResumeStays ==
  ASSUME TypeOK, TypeOK', RecordInv, NEW h \in Handle, Resume(h) PROVE RecordInv'
<1>1. /\ log' = log /\ exec' = exec /\ seg' = seg
      /\ \A g \in Handle : pending'[g] \in {pending[g], NoRun}
  BY DEF Resume, TypeOK
<1>2. \A r \in DOMAIN exec : exec'[r].phase \in Alive /\ Busy(r) /\ seg'[ProcOfRun(r)].todo = <<>> => FALSE
  BY <1>1 DEF Busy
<1> QED BY <1>1, <1>2, Dropped

LEMMA TurnsStay ==
  ASSUME TypeOK, TypeOK', RecordInv, NEW r \in DOMAIN exec, NEW from \in Alive,
         NEW to \in Alive \cup {"gone"}, Turns(r, from, to)
  PROVE  RecordInv'
<1>1. /\ log' = log /\ pending' = pending /\ seg' = seg
      /\ exec[r].phase = from /\ seg[ProcOfRun(r)].todo = <<>>
      /\ exec' = [exec EXCEPT ![r].phase = to]
  BY DEF Turns, IsIdle
<1>2. \A x \in DOMAIN exec : /\ exec'[x].h = exec[x].h
                             /\ x # r => exec'[x] = exec[x]
                             /\ x = r => exec'[x].phase = to
  <2> SUFFICES ASSUME NEW x \in DOMAIN exec
               PROVE  /\ exec'[x].h = exec[x].h
                      /\ x # r => exec'[x] = exec[x]
                      /\ x = r => exec'[x].phase = to
    OBVIOUS
  <2>1. exec[x] \in [phase : Phase, h : Handle]
    BY ExecRow
  <2> QED BY <1>1, <2>1
<1>3. ~Busy(r)
  BY <1>1 DEF Busy
<1>4. \A x \in DOMAIN exec : Busy(x) => seg'[ProcOfRun(x)].todo # <<>>
  BY <1>1 DEF Busy
<1>5. \A x \in DOMAIN exec :
           /\ exec'[x].h = exec[x].h
           /\ \/ exec'[x].phase = exec[x].phase
              \/ exec[x].phase \in Alive /\ exec'[x].phase \in Alive \cup {"gone"}
  BY <1>1, <1>2
<1>6. \A x \in DOMAIN exec :
           exec'[x].phase # exec[x].phase => ~Busy(x) \/ seg'[ProcOfRun(x)].todo = <<>>
  BY <1>2, <1>3
<1> QED BY <1>1, <1>4, <1>5, <1>6, Dropped

LEMMA CloseStays ==
  ASSUME TypeOK, TypeOK', RecordInv, NEW h \in Handle, Close(h) PROVE RecordInv'
<1>1. /\ log' = log /\ pending' = pending /\ seg' = seg /\ seg[ProcOf[h]].todo = <<>>
  BY DEF Close, IsIdle
<1>2. \A x \in DOMAIN exec :
        /\ exec'[x].h = exec[x].h
        /\ \/ exec'[x].phase = exec[x].phase
           \/ exec[x].phase \in Alive /\ exec'[x].phase = "gone" /\ exec[x].h = h
  <2> SUFFICES ASSUME NEW x \in DOMAIN exec
               PROVE  /\ exec'[x].h = exec[x].h
                      /\ \/ exec'[x].phase = exec[x].phase
                         \/ exec[x].phase \in Alive /\ exec'[x].phase = "gone" /\ exec[x].h = h
    OBVIOUS
  <2>1. exec[x] \in [phase : Phase, h : Handle]
    BY ExecRow
  <2>2. exec'[x] = IF exec[x].phase \in Alive /\ exec[x].h = h
                   THEN [exec[x] EXCEPT !.phase = "gone"] ELSE exec[x]
    BY DEF Close
  <2> HIDE DEF Alive
  <2> QED BY <2>1, <2>2
<1>3. \A x \in DOMAIN exec : Busy(x) => seg'[ProcOfRun(x)].todo # <<>>
  BY <1>1 DEF Busy
<1>4. \A x \in DOMAIN exec :
           exec'[x].phase # exec[x].phase => ~Busy(x) \/ seg'[ProcOfRun(x)].todo = <<>>
  BY <1>1, <1>2 DEF ProcOfRun
<1> QED BY <1>1, <1>2, <1>3, <1>4, Dropped

LEMMA CrashStays ==
  ASSUME TypeOK, TypeOK', RecordInv, NEW p \in Process, Crash(p) PROVE RecordInv'
<1>1. /\ log' = log /\ pending' = pending
      /\ seg'[p].todo = <<>> /\ \A q \in Process : q # p => seg'[q] = seg[q]
  BY DEF Crash, TypeOK, Idle
<1>2. \A x \in DOMAIN exec :
        /\ exec'[x].h = exec[x].h
        /\ \/ exec'[x].phase = exec[x].phase
           \/ exec[x].phase \in Alive /\ exec'[x].phase = "gone" /\ ProcOfRun(x) = p
        /\ ProcOfRun(x) = p => exec'[x].phase \notin Alive
  <2> SUFFICES ASSUME NEW x \in DOMAIN exec
               PROVE  /\ exec'[x].h = exec[x].h
                      /\ \/ exec'[x].phase = exec[x].phase
                         \/ exec[x].phase \in Alive /\ exec'[x].phase = "gone" /\ ProcOfRun(x) = p
                      /\ ProcOfRun(x) = p => exec'[x].phase \notin Alive
    OBVIOUS
  <2>1. exec[x] \in [phase : Phase, h : Handle]
    BY ExecRow
  <2>2. exec'[x] = IF exec[x].phase \in Alive /\ ProcOfRun(x) = p
                   THEN [exec[x] EXCEPT !.phase = "gone"] ELSE exec[x]
    BY DEF Crash, ProcOfRun
  <2> QED BY <2>1, <2>2 DEF Alive
<1>3. \A x \in DOMAIN exec : ProcOfRun(x) \in Process
  BY ExecRow
<1>4. ASSUME NEW x \in DOMAIN exec, exec'[x].phase \in Alive, Busy(x), seg'[ProcOfRun(x)].todo = <<>>
      PROVE  FALSE
  <2>1. ProcOfRun(x) # p /\ ProcOfRun(x) \in Process
    BY <1>2, <1>3, <1>4
  <2>2. seg[ProcOfRun(x)].todo = <<>>
    BY <1>1, <1>4, <2>1
  <2> QED BY <1>4, <2>2 DEF Busy
<1>5. \A x \in DOMAIN exec :
           exec'[x].phase # exec[x].phase => ~Busy(x) \/ seg'[ProcOfRun(x)].todo = <<>>
  BY <1>1, <1>2
<1> QED BY <1>1, <1>2, <1>4, <1>5, Dropped

\* The executor of a run that is written to by its own segment.
LEMMA BusyForm ==
  ASSUME TypeOK, RecordInv, NEW p \in Process, seg[p].todo # <<>>, seg[p].op \in {"turn", "fail"}
  PROVE  LET t == seg[p].todo
             r == t[1].r
         IN  /\ r \in DOMAIN exec /\ exec[r].phase \in Alive /\ ProcOfRun(r) = p
             /\ \/ Ends(t) /\ EndsIn(t, log[r])
                \/ Reports(t) /\ ReportsIn(t, log[r])
<1> DEFINE t == seg[p].todo
           r == t[1].r
<1>1. /\ Starts(t) \/ Ends(t) \/ Reports(t) \/ Cancels(t) \/ Prepares(t)
      /\ Starts(t) => seg[p].op \in {"send", "force"}
      /\ Cancels(t) => seg[p].op = "cancel"
      /\ Ends(t) => exec[r].phase \in Alive /\ ProcOfRun(r) = p /\ EndsIn(t, log[r])
      /\ Reports(t) => exec[r].phase \in Alive /\ ProcOfRun(r) = p /\ ReportsIn(t, log[r])
      /\ Prepares(t) => seg[p].op \in {"send", "force", "cancel"}
  BY FormsHold DEF RecordInv
<1>2. Ends(t) \/ Reports(t)
  BY <1>1
<1>3. r \in DOMAIN exec
  BY <1>2, InRuns
<1> QED BY <1>1, <1>2, <1>3

LEMMA InsertEventConflictStays ==
  ASSUME TypeOK, TypeOK', RecordInv, NEW p \in Process, InsertEventConflict(p) PROVE RecordInv'
<1> DEFINE t == seg[p].todo
           r == t[1].r
<1>1. /\ t # <<>> /\ t[1].do = "insert_event" /\ Len(log[r]) # t[1].n
      /\ log' = log /\ pending' = pending
      /\ seg'[p].todo = <<>> /\ \A q \in Process : q # p => seg'[q] = seg[q]
  BY DEF InsertEventConflict, At, Cur, Leave, TypeOK, Idle
<1>b. ASSUME NEW x \in DOMAIN exec, Busy(x), seg'[ProcOfRun(x)].todo = <<>>
      PROVE  x = r /\ ProcOfRun(x) = p /\ seg[p].op \in {"turn", "fail"}
  <2>1. ProcOfRun(x) \in Process
    BY ExecRow
  <2>2. ProcOfRun(x) = p
    BY <1>1, <1>b, <2>1 DEF Busy
  <2> QED BY <1>b, <2>2 DEF Busy
<1>2. CASE seg[p].op \in {"turn", "fail"}
  <2>1. /\ r \in DOMAIN exec /\ exec[r].phase \in Alive /\ ProcOfRun(r) = p
        /\ EndsIn(t, log[r]) \/ ReportsIn(t, log[r])
    BY <1>1, <1>2, BusyForm
  <2>2. Interrupted(log[r])
    BY <1>1, <2>1 DEF EndsIn, ReportsIn, Fresh
  <2>3. PICK to \in {"failing", "gone"} : exec' = [exec EXCEPT ![r].phase = to]
    <3>1. exec' = [exec EXCEPT ![r].phase = IF seg[p].op = "turn" THEN "failing" ELSE "gone"]
      BY <1>2 DEF InsertEventConflict, Cur
    <3>2. CASE seg[p].op = "turn"
      BY <3>1, <3>2
    <3>3. CASE seg[p].op # "turn"
      BY <3>1, <3>3
    <3> QED BY <3>2, <3>3
  <2>4. \A x \in DOMAIN exec : /\ exec'[x].h = exec[x].h
                               /\ x # r => exec'[x] = exec[x]
                               /\ x = r => exec'[x].phase = to
    <3> SUFFICES ASSUME NEW x \in DOMAIN exec
                 PROVE  /\ exec'[x].h = exec[x].h
                        /\ x # r => exec'[x] = exec[x]
                        /\ x = r => exec'[x].phase = to
      OBVIOUS
    <3>1. exec[x] \in [phase : Phase, h : Handle]
      BY ExecRow
    <3> HIDE DEF r
    <3> QED BY <2>3, <3>1
  <2> HIDE DEF r
  <2>5. \A x \in DOMAIN exec :
           /\ exec'[x].h = exec[x].h
           /\ \/ exec'[x].phase = exec[x].phase
              \/ exec[x].phase \in Alive /\ exec'[x].phase \in Alive \cup {"gone"}
    BY <2>1, <2>4 DEF Alive
  <2>6. \A x \in DOMAIN exec :
           exec'[x].phase # exec[x].phase => ~Busy(x) \/ seg'[ProcOfRun(x)].todo = <<>>
    BY <1>1, <2>1, <2>4
  <2>7. \A x \in DOMAIN exec :
           exec'[x].phase \in Alive /\ Busy(x) /\ seg'[ProcOfRun(x)].todo = <<>> =>
             Interrupted(log[x]) \/ Going(log[x])
    BY <1>b, <2>2
  <2> QED BY <1>1, <2>5, <2>6, <2>7, Dropped
<1>3. CASE seg[p].op \notin {"turn", "fail"}
  <2>1. exec' = exec
    BY <1>3 DEF InsertEventConflict
  <2>2. \A x \in DOMAIN exec :
           exec'[x].phase \in Alive /\ Busy(x) /\ seg'[ProcOfRun(x)].todo = <<>> =>
             Interrupted(log[x]) \/ Going(log[x])
    BY <1>b, <1>3
  <2> HIDE DEF r
  <2> QED BY <1>1, <2>1, <2>2, Dropped
<1> QED BY <1>2, <1>3

LEMMA ExecutorReturnsStays ==
  ASSUME TypeOK, TypeOK', RecordInv, NEW p \in Process, ExecutorReturns(p) PROVE RecordInv'
<1> DEFINE t == seg[p].todo
           r == t[1].r
<1>1. /\ t # <<>> /\ t[1].do = "stop" /\ Continue(p, <<>>)
      /\ log' = log /\ pending' = pending /\ exec' = [exec EXCEPT ![r].phase = "gone"]
  BY DEF ExecutorReturns, At, Cur
<1>2. Ends(t) /\ Len(t) = 1
  BY <1>1, FormAt
<1>3. /\ seg[p].op \in {"turn", "fail"} /\ r \in DOMAIN exec /\ exec[r].phase \in Alive /\ ProcOfRun(r) = p
  <2>1. seg[p].op \in {"turn", "fail"}
    BY <1>1, <1>2, FormsHold DEF RecordInv
  <2> QED BY <1>1, <2>1, BusyForm
<1>4. seg'[p].todo = <<>> /\ \A q \in Process : q # p => seg'[q] = seg[q]
  <2>1. Len(seg'[p].todo) = 0
    <3>1. Len(seg'[p].todo) = Len(t) - 1
      BY <1>1, MovesOn
    <3> QED BY <1>2, <3>1
  <2>2. seg'[p].todo \in Seq(StatementOver(Len(runs')))
    BY DEF TypeOK, Segment
  <2> QED BY <1>1, <2>1, <2>2, EmptySeq, OthersStay
<1>5. \A x \in DOMAIN exec : /\ exec'[x].h = exec[x].h
                             /\ x # r => exec'[x] = exec[x]
                             /\ x = r => exec'[x].phase = "gone"
  <2> SUFFICES ASSUME NEW x \in DOMAIN exec
               PROVE  /\ exec'[x].h = exec[x].h
                      /\ x # r => exec'[x] = exec[x]
                      /\ x = r => exec'[x].phase = "gone"
    OBVIOUS
  <2>1. exec[x] \in [phase : Phase, h : Handle]
    BY ExecRow
  <2> HIDE DEF r
  <2> QED BY <1>1, <2>1
<1>6. ASSUME NEW x \in DOMAIN exec, exec'[x].phase \in Alive, Busy(x), seg'[ProcOfRun(x)].todo = <<>>
      PROVE  FALSE
  <2>1. ProcOfRun(x) \in Process
    BY ExecRow
  <2>2. ProcOfRun(x) = p
    BY <1>4, <1>6, <2>1 DEF Busy
  <2>3. x = r
    BY <1>6, <2>2 DEF Busy
  <2> QED BY <1>5, <1>6, <2>3 DEF Alive
<1> HIDE DEF r
<1>7. \A x \in DOMAIN exec :
           /\ exec'[x].h = exec[x].h
           /\ \/ exec'[x].phase = exec[x].phase
              \/ exec[x].phase \in Alive /\ exec'[x].phase \in Alive \cup {"gone"}
  BY <1>3, <1>5
<1>8. \A x \in DOMAIN exec :
           exec'[x].phase # exec[x].phase => ~Busy(x) \/ seg'[ProcOfRun(x)].todo = <<>>
  BY <1>3, <1>4, <1>5
<1> QED BY <1>1, <1>4, <1>6, <1>7, <1>8, Dropped

-----------------------------------------------------------------------------
(* A run is chosen, inserted or handed to an executor. *)

LEMMA SegmentStays ==
  ASSUME NEW q \in Process, SegmentInv(q), seg'[q] = seg[q],
         NEW r, r = seg[q].todo[1].r, r # NoRun,
         \A h \in Handle : pending'[h] \in {pending[h], NoRun},
         ~Prepares(seg[q].todo) /\ seg[q].todo # <<>> => log'[r] = log[r],
         Starts(seg[q].todo) \/ Ends(seg[q].todo) \/ Reports(seg[q].todo) => exec'[r] = exec[r]
  PROVE  SegmentInv(q)'
<1>1. CASE seg[q].todo = <<>>
  BY <1>1 DEF SegmentInv
<1>2. CASE seg[q].todo # <<>>
  <2>1. /\ \/ Starts(seg[q].todo) \/ Ends(seg[q].todo) \/ Reports(seg[q].todo)
           \/ Cancels(seg[q].todo) \/ Prepares(seg[q].todo)
        /\ Starts(seg[q].todo) => /\ seg[q].op \in {"send", "force"} /\ StartsIn(seg[q].todo, log[r])
                                  /\ exec[r].phase = "none" /\ \A h \in Handle : pending[h] # r
        /\ Cancels(seg[q].todo) => seg[q].op = "cancel" /\ CancelsIn(seg[q].todo, log[r])
        /\ Ends(seg[q].todo) => /\ seg[q].op \in {"turn", "fail"} /\ exec[r].phase \in Alive
                                /\ ProcOfRun(r) = q /\ EndsIn(seg[q].todo, log[r])
        /\ Reports(seg[q].todo) => /\ seg[q].op \in {"turn", "fail"} /\ exec[r].phase \in Alive
                                   /\ ProcOfRun(r) = q /\ ReportsIn(seg[q].todo, log[r])
        /\ Prepares(seg[q].todo) =>
             /\ seg[q].op \in {"send", "force", "cancel"}
             /\ seg[q].op = "cancel" <=> seg[q].todo[Len(seg[q].todo)].do = "find"
    BY <1>2, FormsHold
  <2>2. CASE Prepares(seg[q].todo)
    BY <2>1, <2>2 DEF SegmentInv
  <2>3. CASE Cancels(seg[q].todo)
    <3>1. log'[r] = log[r]
      BY <1>2, <2>3, FormsApart
    <3> QED BY <2>1, <2>3, <3>1 DEF SegmentInv
  <2>4. CASE Starts(seg[q].todo)
    <3>1. log'[r] = log[r] /\ exec'[r] = exec[r]
      BY <1>2, <2>4, FormsApart
    <3>2. \A h \in Handle : pending'[h] # r
      BY <2>1, <2>4
    <3> QED BY <2>1, <2>4, <3>1, <3>2 DEF SegmentInv
  <2>5. CASE Ends(seg[q].todo) \/ Reports(seg[q].todo)
    <3>1. log'[r] = log[r] /\ exec'[r] = exec[r]
      BY <1>2, <2>5, FormsApart
    <3>2. seg[q].op \in {"turn", "fail"} /\ exec'[r].phase \in Alive /\ ProcOfRun(r)' = q
      BY <2>1, <2>5, <3>1 DEF ProcOfRun
    <3> QED BY <2>1, <2>5, <3>1, <3>2 DEF SegmentInv
  <2> QED BY <2>1, <2>2, <2>3, <2>4, <2>5
<1> QED BY <1>1, <1>2

LEMMA RunStays ==
  ASSUME NEW r, RunInv(r), r # NoRun, log'[r] = log[r], exec'[r] = exec[r],
         \A h \in Handle : pending'[h] \in {pending[h], NoRun},
         exec[r].phase \in Alive /\ Busy(r) => Busy(r)'
  PROVE  RunInv(r)'
<1>1. (Interrupted(log[r]) \/ InOrder(log[r]))'
  BY DEF RunInv
<1>2. (exec[r].phase # "none" => Recorded(log[r], 3))'
  BY DEF RunInv
<1>3. (exec[r].phase \in Alive /\ ~Busy(r) => Interrupted(log[r]) \/ Going(log[r]))'
  BY DEF RunInv
<1>4. ASSUME NEW h \in Handle, pending'[h] = r
      PROVE  /\ h = Creator /\ exec'[r].phase = "none" /\ Recorded(log'[r], 0)
             /\ Interrupted(log'[r]) \/ Len(log'[r]) = 0
  <2>1. pending[h] = r
    BY <1>4
  <2> QED BY <2>1 DEF RunInv
<1> QED BY <1>1, <1>2, <1>3, <1>4 DEF RunInv

\* A segment of a send is not that of an executor.
LEMMA SendIsNotBusy ==
  ASSUME TypeOK, NEW p \in Process, seg[p].op \notin {"turn", "fail"},
         NEW r \in DOMAIN exec, exec'[r] = exec[r], Busy(r),
         \A q \in Process \ {p} : seg'[q] = seg[q]
  PROVE  Busy(r)'
<1>1. PICK q \in Process : ProcOfRun(r) = q
  BY ExecRow
<1>2. q # p
  BY <1>1 DEF Busy
<1>3. seg'[q] = seg[q] /\ ProcOfRun(r)' = q
  BY <1>1, <1>2 DEF ProcOfRun
<1> QED BY <1>1, <1>3 DEF Busy

LEMMA ChooseRunStays ==
  ASSUME TypeOK, TypeOK', RecordInv, NEW p \in Process, ChooseRun(p) PROVE RecordInv'
<1> DEFINE n == Len(runs)
           t == seg[p].todo
           h == seg[p].h
<1>1. /\ t # <<>> /\ Cur(p).do = "choose" /\ Cur(p) = t[1]
      /\ log' = log /\ exec' = exec /\ pending' = [pending EXCEPT ![h] = NoRun]
  BY DEF ChooseRun, At, Cur
<1>2. /\ h \in Handle /\ n \in Nat /\ n <= n
      /\ pending[h] \in 0 .. n
      /\ \A g \in Handle : /\ pending'[g] \in {pending[g], NoRun}
                           /\ g = h => pending'[g] = NoRun
  BY <1>1 DEF TypeOK, Segment
<1>3. CASE Continue(p, <<Do("get_agent")>>)
  <2>1. Do("get_agent") \in StatementOver(n) /\ Do("get_agent").do = "get_agent"
    BY <1>2, DoType DEF Do
  <2> HIDE DEF h
  <2> QED BY <1>1, <1>2, <1>3, <2>1, ChecksStay
<1>4. ASSUME NEW w, w = pending[h], w # NoRun, Continue(p, StartScript(w)) PROVE RecordInv'
  <2> DEFINE c == StartScript(w)
  <2>1. w \in 1 .. n /\ w \in DOMAIN log /\ w \in DOMAIN exec
    <3>1. w \in 1 .. n
      BY <1>2, <1>4 DEF NoRun
    <3>2. DOMAIN log = 1 .. n /\ DOMAIN exec = 1 .. n
      BY DEF TypeOK
    <3> QED BY <3>1, <3>2
  <2>2. /\ h = Creator /\ exec[w].phase = "none" /\ Recorded(log[w], 0)
        /\ Interrupted(log[w]) \/ Len(log[w]) = 0
        /\ \A g \in Handle : pending[g] = w => g = Creator
    BY <1>2, <1>4, <2>1 DEF RecordInv, RunInv
  <2>3. Prepares(t) /\ Len(t) = 1
    BY <1>1, FormAt DEF Preparing
  <2>4. seg[p].op \in {"send", "force"}
    BY <1>1, <2>3, FormsHold DEF RecordInv
  <2>5. c \in Seq(StatementOver(n)) /\ Continue(p, c)
    BY <1>2, <1>4, <2>1, ScriptTypes
  <2>6. Starts(c) /\ Len(c) = 5 /\ c[1].r = w /\ c[1].do = "start"
    BY ScriptForms
  <2>7. c # <<>>
    BY DEF StartScript
  <2> HIDE DEF c
  <2>8. seg'[p].todo = c /\ (seg'[p].todo # <<>> => seg'[p].op = seg[p].op)
    BY <1>1, <1>2, <2>3, <2>5, Replaced
  <2>9. \A q \in Process \ {p} : seg'[q] = seg[q]
    BY <2>5, OthersStay
  <2>10. \A g \in Handle : pending'[g] # w
    BY <1>2, <2>1, <2>2 DEF NoRun
  <2>11. StartsIn(c, log[w])
    BY <2>2, <2>6 DEF StartsIn, Begun, Fresh
  <2> HIDE DEF h, t, n
  <2>12. SegmentInv(p)'
    <3>1. /\ seg'[p].op \in {"send", "force"} /\ Starts(seg'[p].todo) /\ StartsIn(seg'[p].todo, log'[w])
          /\ exec'[w].phase = "none" /\ \A g \in Handle : pending'[g] # w
          /\ seg'[p].todo # <<>> /\ seg'[p].todo[1].r = w
      BY <1>1, <2>2, <2>4, <2>6, <2>7, <2>8, <2>10, <2>11
    <3> QED BY <3>1 DEF SegmentInv
  <2>13. ASSUME NEW q \in Process, q # p, Starts(seg'[q].todo)
         PROVE  Starts(seg[q].todo) /\ seg'[q].todo = seg[q].todo /\ seg'[q].todo[1].r # w
    <3>1. seg'[q] = seg[q]
      BY <2>9, <2>13
    <3>2. SegmentInv(q) /\ seg[q].todo # <<>> /\ Starts(seg[q].todo)
      BY <2>13, <3>1, NoStatement DEF RecordInv
    <3>3. \A g \in Handle : pending[g] # seg[q].todo[1].r
      BY <3>2, FormsHold
    <3> QED BY <1>2, <1>4, <3>1, <3>2, <3>3
  <2>14. StartedOnce'
    <3> SUFFICES ASSUME NEW x \in Process, NEW y \in Process,
                        Starts(seg'[x].todo), Starts(seg'[y].todo),
                        seg'[x].todo[1].r = seg'[y].todo[1].r
                 PROVE  x = y
      BY DEF StartedOnce
    <3>1. seg'[p].todo[1].r = w
      BY <2>6, <2>8
    <3>2. CASE x # p /\ y # p
      BY <2>13, <3>2 DEF RecordInv, StartedOnce
    <3>3. CASE x = p /\ y # p
      BY <2>13, <3>1, <3>3
    <3>4. CASE x # p /\ y = p
      BY <2>13, <3>1, <3>4
    <3> QED BY <3>2, <3>3, <3>4
  <2>15. \A q \in Process :
           \/ seg'[q] = seg[q] /\ \A r \in DOMAIN exec :
                                    /\ ProcOfRun(r) = q /\ Busy(r) /\ exec[r].phase \in Alive
                                    => exec'[r].phase \in Alive
           \/ seg'[q].todo = <<>>
           \/ SegmentInv(q)'
    <3> SUFFICES ASSUME NEW q \in Process, q # p
                 PROVE  seg'[q] = seg[q] /\ \A r \in DOMAIN exec :
                                    /\ ProcOfRun(r) = q /\ Busy(r) /\ exec[r].phase \in Alive
                                    => exec'[r].phase \in Alive
      BY <2>12
    <3> QED BY <1>1, <2>9
  <2>16. \A r \in DOMAIN exec :
           exec'[r].phase \in Alive /\ Busy(r) /\ ~Busy(r)' => Interrupted(log[r]) \/ Going(log[r])
    <3>1. seg[p].op \notin {"turn", "fail"}
      BY <2>4
    <3>2. \A r \in DOMAIN exec : exec'[r] = exec[r]
      BY <1>1
    <3> QED BY <2>9, <3>1, <3>2, SendIsNotBusy
  <2>17. \A r \in DOMAIN exec :
           /\ exec'[r].h = exec[r].h
           /\ \/ exec'[r].phase = exec[r].phase
              \/ exec[r].phase \in Alive /\ exec'[r].phase \in Alive \cup {"gone"}
    BY <1>1
  <2> QED BY <1>1, <1>2, <2>14, <2>15, <2>16, <2>17, Quiet
<1>5. \/ Continue(p, <<Do("get_agent")>>)
      \/ pending[h] # NoRun /\ Continue(p, StartScript(pending[h]))
  BY DEF ChooseRun
<1> HIDE DEF h
<1> QED BY <1>3, <1>4, <1>5

LEMMA DriveStays ==
  ASSUME TypeOK, TypeOK', RecordInv, NEW p \in Process, Drive(p) PROVE RecordInv'
<1> DEFINE t == seg[p].todo
<1>1. /\ t # <<>> /\ t[1].do = "drive" /\ Continue(p, <<>>)
      /\ log' = log /\ pending' = pending
      /\ exec' = [exec EXCEPT ![t[1].r] = [phase |-> "starting", h |-> seg[p].h]]
  BY DEF Drive, At, Cur
<1>2. Starts(t) /\ Len(t) = 1
  BY <1>1, FormAt
<1>3. PICK r : r = t[1].r
  OBVIOUS
<1>4. /\ r \in DOMAIN exec /\ r \in DOMAIN log /\ log[r] \in Seq(Event)
      /\ DOMAIN log = 1 .. Len(runs) /\ DOMAIN exec = 1 .. Len(runs)
  <2>1. r \in DOMAIN exec /\ r \in DOMAIN log /\ log[r] \in Seq(Event)
    BY <1>1, <1>2, <1>3, InRuns
  <2> QED BY <2>1, LenProperties DEF TypeOK
<1>5. /\ seg[p].op \in {"send", "force"} /\ StartsIn(t, log[r])
      /\ exec[r].phase = "none" /\ \A h \in Handle : pending[h] # r
  BY <1>1, <1>2, <1>3, FormsHold DEF RecordInv
<1>6. Recorded(log[r], 3) /\ (Interrupted(log[r]) \/ Len(log[r]) = 3)
  <2>1. Begun(t) = 3
    BY <1>2 DEF Begun
  <2> QED BY <1>5, <2>1 DEF StartsIn
<1>7. seg'[p].todo = <<>> /\ \A q \in Process \ {p} : seg'[q] = seg[q]
  <2>1. Len(seg'[p].todo) = 0
    <3>1. Len(seg'[p].todo) = Len(t) - 1
      BY <1>1, MovesOn
    <3> QED BY <1>2, <3>1
  <2>2. seg'[p].todo \in Seq(StatementOver(Len(runs')))
    BY DEF TypeOK, Segment
  <2> QED BY <1>1, <2>1, <2>2, EmptySeq, OthersStay
<1>8. \A x \in DOMAIN exec : x # r => exec'[x] = exec[x]
  BY <1>1, <1>3
<1>9. exec'[r].phase = "starting"
  BY <1>1, <1>3, <1>4
<1>10. StartedOnce'
  <2>1. \A q \in Process : Starts(seg'[q].todo) => /\ Starts(seg[q].todo)
                                                   /\ seg'[q].todo[1].r = seg[q].todo[1].r
    BY <1>7, NoStatement
  <2> QED BY <2>1, OnceStays DEF RecordInv
<1> HIDE DEF t
<1>11. ASSUME NEW q \in Process PROVE SegmentInv(q)'
  <2>1. CASE seg'[q].todo = <<>>
    BY <2>1 DEF SegmentInv
  <2>2. CASE seg'[q].todo # <<>>
    <3>1. q # p /\ seg'[q] = seg[q] /\ seg[q].todo # <<>> /\ SegmentInv(q)
      BY <1>7, <2>2 DEF RecordInv
    <3>2. PICK x : x = seg[q].todo[1].r
      OBVIOUS
    <3>3. ASSUME Starts(seg[q].todo) \/ Ends(seg[q].todo) \/ Reports(seg[q].todo) PROVE exec'[x] = exec[x]
      <4>1. x \in DOMAIN exec
        BY <3>1, <3>2, <3>3, InRuns
      <4>2. x # r
        <5>1. CASE Starts(seg[q].todo)
          BY <1>2, <1>3, <3>1, <3>2, <5>1 DEF t, RecordInv, StartedOnce
        <5>2. CASE Ends(seg[q].todo) \/ Reports(seg[q].todo)
          <6>1. exec[x].phase \in Alive
            BY <3>1, <3>2, <5>2, FormsHold
          <6> QED BY <1>5, <6>1 DEF Alive
        <5> QED BY <3>3, <5>1, <5>2
      <4> QED BY <1>8, <4>1, <4>2
    <3>4. CASE Prepares(seg[q].todo) \/ Cancels(seg[q].todo)
      <4>1. /\ Prepares(seg[q].todo) => /\ seg[q].op \in {"send", "force", "cancel"}
                                        /\ seg[q].op = "cancel" <=> seg[q].todo[Len(seg[q].todo)].do = "find"
            /\ Cancels(seg[q].todo) => seg[q].op = "cancel" /\ CancelsIn(seg[q].todo, log[x])
        BY <3>1, <3>2, FormsHold
      <4>2. CASE Prepares(seg[q].todo)
        BY <3>1, <4>1, <4>2 DEF SegmentInv
      <4>3. CASE Cancels(seg[q].todo)
        BY <1>1, <3>1, <3>2, <4>1, <4>3 DEF SegmentInv
      <4> QED BY <3>4, <4>2, <4>3
    <3>5. CASE Starts(seg[q].todo) \/ Ends(seg[q].todo) \/ Reports(seg[q].todo)
      <4>1. x # NoRun
        BY <1>4, <3>1, <3>2, <3>5, InRuns DEF NoRun
      <4> QED BY <1>1, <3>1, <3>2, <3>3, <4>1, SegmentStays
    <3>6. \/ Starts(seg[q].todo) \/ Ends(seg[q].todo) \/ Reports(seg[q].todo)
          \/ Cancels(seg[q].todo) \/ Prepares(seg[q].todo)
      BY <3>1, FormsHold
    <3> QED BY <3>4, <3>5, <3>6
  <2> QED BY <2>1, <2>2
<1>12. RunInv(r)'
  <2>1. Interrupted(log[r]) \/ InOrder(log[r])
    BY <1>4 DEF RecordInv, RunInv
  <2>2. Interrupted(log[r]) \/ Going(log[r])
    <3> SUFFICES ASSUME InOrder(log[r]), Len(log[r]) = 3 PROVE Going(log[r])
      BY <1>6, <2>1
    <3>1. 3 \in DOMAIN log[r]
      BY <1>4, LenProperties
    <3>2. log[r][3] = "RUNNING"
      BY <3>1 DEF InOrder
    <3> QED BY <3>2 DEF Going
  <2> QED BY <1>1, <1>5, <1>6, <1>9, <2>1, <2>2 DEF RunInv
<1>13. ASSUME NEW x \in DOMAIN log, x # r PROVE RunInv(x)'
  <2>1. exec'[x] = exec[x] /\ x \in DOMAIN exec /\ RunInv(x) /\ x # NoRun
    BY <1>4, <1>8, <1>13 DEF RecordInv, NoRun
  <2>2. Busy(x) => Busy(x)'
    <3>1. seg[p].op \notin {"turn", "fail"}
      BY <1>5
    <3> QED BY <1>7, <2>1, <3>1, SendIsNotBusy
  <2> QED BY <1>1, <2>1, <2>2, RunStays
<1>14. \A x \in DOMAIN log' : RunInv(x)'
  BY <1>1, <1>12, <1>13
<1> QED BY <1>10, <1>11, <1>14 DEF RecordInv

LEMMA FollowUpInsertStays ==
  ASSUME TypeOK, TypeOK', RecordInv, NEW p \in Process, FollowUpInsert(p) PROVE RecordInv'
<1> DEFINE n == Len(runs)
           t == seg[p].todo
           r == n + 1
           c == StartScript(r)
<1>1. /\ t # <<>> /\ Cur(p).do = "insert_run" /\ Cur(p) = t[1]
      /\ log' = Append(log, <<>>)
      /\ exec' = Append(exec, [phase |-> "none", h |-> Creator])
      /\ pending' = pending /\ Continue(p, c)
  BY DEF FollowUpInsert, At, Cur
<1>2. Prepares(t) /\ Len(t) = 1
  BY <1>1, FormAt DEF Preparing
<1>3. seg[p].op \in {"send", "force"}
  BY <1>1, <1>2, FormsHold DEF RecordInv
<1>4. /\ n \in Nat /\ r \in 1 .. r /\ n <= r /\ r \in Nat /\ r # NoRun
      /\ DOMAIN log = 1 .. n /\ DOMAIN exec = 1 .. n /\ Len(log) = n /\ Len(exec) = n
      /\ \A h \in Handle : pending[h] \in 0 .. n
  BY LenProperties DEF TypeOK, NoRun
<1>5. /\ DOMAIN log' = 1 .. r /\ log'[r] = <<>> /\ exec'[r].phase = "none"
      /\ \A x \in 1 .. n : log'[x] = log[x] /\ exec'[x] = exec[x]
  <2>1. log \in Seq(Seq(Event)) /\ exec \in Seq([phase : Phase, h : Handle])
    BY DEF TypeOK
  <2> HIDE DEF n
  <2>2. DOMAIN log' = 1 .. r /\ log'[r] = <<>> /\ \A x \in 1 .. n : log'[x] = log[x]
    BY <1>1, <1>4, <2>1
  <2>3. exec'[r] = [phase |-> "none", h |-> Creator] /\ \A x \in 1 .. n : exec'[x] = exec[x]
    BY <1>1, <1>4, <2>1
  <2> QED BY <2>2, <2>3
<1>6. c \in Seq(StatementOver(r))
  BY <1>4, ScriptTypes
<1>7. Starts(c) /\ Len(c) = 5 /\ c[1].r = r /\ c[1].do = "start"
  BY ScriptForms
<1>8. c # <<>>
  BY DEF StartScript
<1> HIDE DEF c
<1>9. seg'[p].todo = c /\ (seg'[p].todo # <<>> => seg'[p].op = seg[p].op)
  BY <1>1, <1>2, <1>4, <1>6, Replaced
<1>10. \A q \in Process \ {p} : seg'[q] = seg[q]
  BY <1>1, OthersStay
<1>11. PICK k : k = r
  OBVIOUS
<1> HIDE DEF n, t, r
<1>12. SegmentInv(p)'
  <2>1. Recorded(<<>>, 0) /\ Len(<<>>) = 0
    BY DEF Recorded
  <2>2. StartsIn(c, log'[k])
    BY <1>5, <1>7, <1>11, <2>1 DEF StartsIn, Begun, Fresh
  <2>3. \A h \in Handle : pending'[h] # k
    BY <1>1, <1>4, <1>11 DEF r
  <2>4. /\ seg'[p].op \in {"send", "force"} /\ Starts(seg'[p].todo) /\ StartsIn(seg'[p].todo, log'[k])
        /\ exec'[k].phase = "none"
        /\ seg'[p].todo # <<>> /\ seg'[p].todo[1].r = k
    BY <1>3, <1>5, <1>7, <1>8, <1>9, <1>11, <2>2
  <2> QED BY <2>3, <2>4 DEF SegmentInv
<1>13. ASSUME NEW q \in Process, q # p PROVE SegmentInv(q)'
  <2>1. seg'[q] = seg[q] /\ SegmentInv(q)
    BY <1>10, <1>13 DEF RecordInv
  <2>2. PICK x : x = seg[q].todo[1].r
    OBVIOUS
  <2>3. CASE seg[q].todo = <<>>
    BY <2>1, <2>3 DEF SegmentInv
  <2>4. CASE seg[q].todo # <<>> /\ Prepares(seg[q].todo)
    <3>1. /\ seg[q].op \in {"send", "force", "cancel"}
          /\ seg[q].op = "cancel" <=> seg[q].todo[Len(seg[q].todo)].do = "find"
      BY <2>1, <2>4, FormsHold
    <3> QED BY <2>1, <2>4, <3>1 DEF SegmentInv
  <2>5. CASE seg[q].todo # <<>> /\ ~Prepares(seg[q].todo)
    <3>1. \/ Starts(seg[q].todo) \/ Ends(seg[q].todo)
          \/ Reports(seg[q].todo) \/ Cancels(seg[q].todo)
      BY <2>1, <2>5, FormsHold
    <3>2. x \in DOMAIN exec
      BY <2>2, <2>5, <3>1, InRuns
    <3>3. x # NoRun /\ log'[x] = log[x] /\ exec'[x] = exec[x]
      BY <1>4, <1>5, <3>2 DEF NoRun
    <3> QED BY <1>1, <2>1, <2>2, <3>3, SegmentStays
  <2> QED BY <2>3, <2>4, <2>5
<1>14. StartedOnce'
  <2>1. ASSUME NEW q \in Process, q # p, Starts(seg'[q].todo)
        PROVE  Starts(seg[q].todo) /\ seg'[q].todo = seg[q].todo /\ seg'[q].todo[1].r # r
    <3>1. seg'[q] = seg[q] /\ seg[q].todo # <<>>
      BY <1>10, <2>1, NoStatement
    <3>2. seg[q].todo[1].r \in DOMAIN exec
      BY <2>1, <3>1, InRuns
    <3> QED BY <1>4, <2>1, <3>1, <3>2 DEF r
  <2> SUFFICES ASSUME NEW x \in Process, NEW y \in Process,
                      Starts(seg'[x].todo), Starts(seg'[y].todo),
                      seg'[x].todo[1].r = seg'[y].todo[1].r
               PROVE  x = y
    BY DEF StartedOnce
  <2>2. seg'[p].todo[1].r = r
    BY <1>7, <1>9
  <2>3. CASE x # p /\ y # p
    BY <2>1, <2>3 DEF RecordInv, StartedOnce
  <2>4. CASE x = p /\ y # p
    BY <2>1, <2>2, <2>4
  <2>5. CASE x # p /\ y = p
    BY <2>1, <2>2, <2>5
  <2> QED BY <2>3, <2>4, <2>5
<1>15. RunInv(k)'
  <2>1. InOrder(<<>>)
    BY DEF InOrder
  <2>2. \A h \in Handle : pending'[h] # k
    BY <1>1, <1>4, <1>11 DEF r
  <2>3. log'[k] = <<>> /\ exec'[k].phase = "none"
    BY <1>5, <1>11
  <2> QED BY <2>1, <2>2, <2>3 DEF RunInv, Alive
<1>16. ASSUME NEW x \in 1 .. n PROVE RunInv(x)'
  <2>1. /\ log'[x] = log[x] /\ exec'[x] = exec[x] /\ x \in DOMAIN exec /\ RunInv(x) /\ x # NoRun
    BY <1>4, <1>5 DEF RecordInv, NoRun
  <2>2. Busy(x) => Busy(x)'
    <3>1. seg[p].op \notin {"turn", "fail"}
      BY <1>3
    <3> QED BY <1>10, <2>1, <3>1, SendIsNotBusy
  <2> QED BY <1>1, <2>1, <2>2, RunStays
<1>17. \A x \in DOMAIN log' : RunInv(x)'
  <2>1. \A x \in DOMAIN log' : x \in 1 .. n \/ x = k
    BY <1>4, <1>5, <1>11 DEF r
  <2> QED BY <1>15, <1>16, <2>1
<1> QED BY <1>12, <1>13, <1>14, <1>17 DEF RecordInv

-----------------------------------------------------------------------------
(* One more event in a log: what is written, and by whom. *)

\* The statements of a script that write, by how many are left.
LEMMA StartsWrite ==
  ASSUME NEW t, Starts(t), t[1].do = "insert_event"
  PROVE  Len(t) \in {2, 3, 4} /\ t[1].arg = Started[5 - Len(t)]
<1>1. Len(t) \in 1 .. 5
  BY Zenon DEF Starts
<1>2. Len(t) # 1
  BY DEF Starts
<1>3. Len(t) # 5
  BY DEF Starts
<1>4. /\ Len(t) >= 2 => Logs(t[Len(t) - 1], "RUNNING")
      /\ Len(t) >= 3 => Logs(t[Len(t) - 2], "user")
      /\ Len(t) >= 4 => Logs(t[Len(t) - 3], "request")
  BY Zenon DEF Starts
<1>5. ASSUME Len(t) = 2 PROVE t[1].arg = Started[5 - Len(t)]
  <2>1. Logs(t[1], "RUNNING")
    BY <1>4, <1>5
  <2> QED BY <1>5, <2>1, StartedIs DEF Logs
<1>6. ASSUME Len(t) = 3 PROVE t[1].arg = Started[5 - Len(t)]
  <2>1. Logs(t[1], "user")
    BY <1>4, <1>6
  <2> QED BY <1>6, <2>1, StartedIs DEF Logs
<1>7. ASSUME Len(t) = 4 PROVE t[1].arg = Started[5 - Len(t)]
  <2>1. Logs(t[1], "request")
    BY <1>4, <1>7
  <2> QED BY <1>7, <2>1, StartedIs DEF Logs
<1>8. Len(t) \in {2, 3, 4}
  BY <1>1, <1>2, <1>3
<1> QED BY <1>5, <1>6, <1>7, <1>8

LEMMA EndsWrite ==
  ASSUME NEW t, Ends(t), t[1].do = "insert_event"
  PROVE  \/ Len(t) = 2 /\ t[1].arg = "done"
         \/ Len(t) = 3 /\ t[1].arg = "result"
         \/ Len(t) = 5 /\ t[1].arg \in {"FINISHED", "ERROR"}
<1>1. Len(t) \in 1 .. 5
  BY Zenon DEF Ends
<1>2. Len(t) # 1
  BY DEF Ends
<1>3. ASSUME Len(t) = 4 PROVE FALSE
  <2>1. t[Len(t) - 3].do = "mark"
    BY <1>3 DEF Ends
  <2> QED BY <1>3, <2>1
<1>4. /\ Len(t) >= 2 => Logs(t[Len(t) - 1], "done")
      /\ Len(t) >= 3 => Logs(t[Len(t) - 2], "result")
      /\ Len(t) = 5 => Logs(t[1], "FINISHED") \/ Logs(t[1], "ERROR")
  BY Zenon DEF Ends
<1>5. ASSUME Len(t) = 2 PROVE t[1].arg = "done"
  <2>1. Logs(t[1], "done")
    BY <1>4, <1>5
  <2> QED BY <2>1 DEF Logs
<1>6. ASSUME Len(t) = 3 PROVE t[1].arg = "result"
  <2>1. Logs(t[1], "result")
    BY <1>4, <1>6
  <2> QED BY <2>1 DEF Logs
<1>7. ASSUME Len(t) = 5 PROVE t[1].arg \in {"FINISHED", "ERROR"}
  BY <1>4, <1>7 DEF Logs
<1>8. Len(t) \in {2, 3, 5}
  BY <1>1, <1>2, <1>3
<1> QED BY <1>5, <1>6, <1>7, <1>8

LEMMA CancelsWrite ==
  ASSUME NEW t, Cancels(t), t[1].do = "insert_event"
  PROVE  \/ Len(t) \in {1, 2} /\ t[1].arg \in {"done", "result"}
         \/ Len(t) = 3 /\ t[1].arg = "CANCELLED"
<1>1. Len(t) \in 1 .. 4
  BY Zenon DEF Cancels
<1>2. Len(t) # 4
  BY DEF Cancels
<1>3. /\ Len(t) >= 2 => Logs(t[Len(t) - 1], "result")
      /\ Len(t) >= 3 => Logs(t[Len(t) - 2], "CANCELLED")
      /\ Logs(t[Len(t)], "done")
  BY Zenon DEF Cancels
<1>4. ASSUME Len(t) = 1 PROVE t[1].arg = "done"
  BY <1>3, <1>4 DEF Logs
<1>5. ASSUME Len(t) = 2 PROVE t[1].arg = "result"
  <2>1. Logs(t[1], "result")
    BY <1>3, <1>5
  <2> QED BY <2>1 DEF Logs
<1>6. ASSUME Len(t) = 3 PROVE t[1].arg = "CANCELLED"
  <2>1. Logs(t[1], "CANCELLED")
    BY <1>3, <1>6
  <2> QED BY <2>1 DEF Logs
<1>7. Len(t) \in {1, 2, 3}
  BY <1>1, <1>2
<1> QED BY <1>4, <1>5, <1>6, <1>7

LEMMA FirstIndex == ASSUME NEW n \in Nat, n >= 1, n # 1 PROVE 1 \in 1 .. n - 1
OBVIOUS

LEMMA CountDown ==
  ASSUME NEW n \in {2, 3, 4} PROVE 5 - n = (4 - n) + 1 /\ 4 - n \in 0 .. 2 /\ 5 - n \in 1 .. 3
OBVIOUS

\* The next event of a start.
LEMMA StartsAppend ==
  ASSUME NEW t, Starts(t), t[1].do = "insert_event", NEW l \in Seq(Event), StartsIn(t, l), Fresh(t, l),
         Interrupted(l) \/ InOrder(l), NEW u, Len(u) = Len(t) - 1, u[1].do # "insert_event"
  PROVE  LET m == Append(l, t[1].arg)
         IN  StartsIn(u, m) /\ (Interrupted(m) \/ InOrder(m))
<1> DEFINE k == 4 - Len(t)
           e == t[1].arg
           m == Append(l, e)
<1>1. /\ Len(t) \in {2, 3, 4} /\ e = Started[k + 1] /\ k \in 0 .. 2
      /\ Begun(t) = k /\ Begun(u) = k + 1 /\ e \in Event /\ Len(l) \in Nat
  <2>1. Len(t) \in {2, 3, 4} /\ e = Started[5 - Len(t)]
    BY StartsWrite
  <2>0. Len(t) \in {2, 3, 4}
    BY StartsWrite
  <2>2. 5 - Len(t) = k + 1 /\ k \in 0 .. 2 /\ 5 - Len(t) \in 1 .. 3
    BY <2>0, CountDown
  <2>3. Begun(t) = k /\ Begun(u) = k + 1
    BY <2>1 DEF Begun
  <2>4. e \in Event
    BY <2>1, <2>2, StartedIs DEF Event
  <2> QED BY <2>1, <2>2, <2>3, <2>4, LenProperties
<1>2. /\ Recorded(l, k)
      /\ Interrupted(l) \/ Len(l) = k
  BY <1>1 DEF StartsIn
<1> HIDE DEF k, e
<1>3. Recorded(m, k + 1)
  BY <1>1, <1>2, RecordedGrows
<1>4. Interrupted(l) => Interrupted(m)
  BY <1>1, StaysInterrupted
<1>5. Len(m) = Len(l) + 1
  BY <1>1, Grown
<1>6. ASSUME ~Interrupted(l) PROVE InOrder(m)
  <2>1. Len(l) <= 2 /\ e = Started[Len(l) + 1] /\ InOrder(l)
    BY <1>1, <1>2, <1>6
  <2> QED BY <1>1, <2>1, StaysInOrder
<1>7. Fresh(u, m)
  BY DEF Fresh
<1> HIDE DEF m
<1>8. StartsIn(u, m)
  BY <1>1, <1>2, <1>3, <1>4, <1>5, <1>7 DEF StartsIn
<1> QED BY <1>4, <1>6, <1>8 DEF m, e

\* The next event of an end.
LEMMA EndsAppend ==
  ASSUME NEW t, Ends(t), t[1].do = "insert_event", NEW l \in Seq(Event), EndsIn(t, l),
         Interrupted(l) \/ InOrder(l), NEW u, Len(u) = Len(t) - 1, u[1].do # "insert_event"
  PROVE  LET m == Append(l, t[1].arg)
         IN  EndsIn(u, m) /\ (Interrupted(m) \/ InOrder(m))
<1> DEFINE e == t[1].arg
           m == Append(l, e)
<1>1. \/ Len(t) = 2 /\ e = "done"
      \/ Len(t) = 3 /\ e = "result"
      \/ Len(t) = 5 /\ e \in {"FINISHED", "ERROR"}
  BY EndsWrite
<1>2. e \in Event
  BY <1>1 DEF Event, Terminal
<1> HIDE DEF e
<1>3. Interrupted(l) => Interrupted(m)
  BY <1>2, StaysInterrupted
<1>4. Len(l) \in Nat /\ Len(m) = Len(l) + 1 /\ m[Len(l) + 1] = e
  BY <1>2, Grown
<1>5. ASSUME ~Interrupted(l) PROVE InOrder(m) /\ EndsIn(u, m)
  <2>1. /\ InOrder(l) /\ Len(l) >= 3
        /\ Len(t) = 5 => Going(l)
        /\ Len(t) \in {3, 4} => l[Len(l)] \in Terminal
        /\ Len(t) = 2 => l[Len(l)] = "result"
    BY <1>5 DEF EndsIn
  <2>2. \/ Going(l) /\ e \in {"progress", "FINISHED", "ERROR"}
        \/ Len(l) >= 3 /\ l[Len(l)] \in Terminal /\ e = "result"
        \/ Len(l) >= 3 /\ l[Len(l)] = "result" /\ e = "done"
    <3>1. CASE Len(t) = 2
      BY <1>1, <2>1, <3>1
    <3>2. CASE Len(t) = 3
      BY <1>1, <2>1, <3>2
    <3>3. CASE Len(t) = 5
      BY <1>1, <2>1, <3>3
    <3> QED BY <1>1, <3>1, <3>2, <3>3
  <2>3. InOrder(m)
    BY <1>2, <2>1, <2>2, StaysInOrder
  <2> HIDE DEF m
  <2>4. Fresh(u, m) /\ Len(m) >= 3 /\ m[Len(m)] = e
    BY <1>4, <2>1 DEF Fresh
  <2>5. CASE Len(t) = 2
    <3>1. Len(u) = 1
      BY <2>5
    <3>2. 1 # 5 /\ 1 \notin {3, 4} /\ 1 # 2
      OBVIOUS
    <3> QED BY <2>3, <2>4, <3>1, <3>2, Zenon DEF EndsIn
  <2>6. CASE Len(t) = 3
    <3>1. Len(u) = 2 /\ e = "result"
      BY <1>1, <2>6
    <3>2. 2 # 5 /\ 2 \notin {3, 4}
      OBVIOUS
    <3> QED BY <2>3, <2>4, <3>1, <3>2, Zenon DEF EndsIn
  <2>7. CASE Len(t) = 5
    <3>1. Len(u) = 4 /\ e \in Terminal
      BY <1>1, <2>7 DEF Terminal
    <3>2. 4 # 5 /\ 4 # 2
      OBVIOUS
    <3> QED BY <2>3, <2>4, <3>1, <3>2, Zenon DEF EndsIn
  <2> QED BY <1>1, <2>5, <2>6, <2>7
<1> HIDE DEF m
<1>6. Interrupted(m) => EndsIn(u, m)
  BY DEF EndsIn
<1> QED BY <1>3, <1>5, <1>6 DEF m, e

\* One more report.
LEMMA ReportsAppend ==
  ASSUME NEW t, Reports(t), NEW l \in Seq(Event), ReportsIn(t, l),
         Interrupted(l) \/ InOrder(l)
  PROVE  LET m == Append(l, t[1].arg)
         IN  t[1].arg = "progress" /\ (Interrupted(m) \/ (InOrder(m) /\ Going(m)))
<1> DEFINE e == t[1].arg
           m == Append(l, e)
<1>1. e = "progress" /\ e \in Event
  BY DEF Reports, Logs, Event
<1> HIDE DEF e
<1>2. Interrupted(l) => Interrupted(m)
  BY <1>1, StaysInterrupted
<1>3. Len(l) \in Nat /\ Len(m) = Len(l) + 1 /\ m[Len(l) + 1] = e
  BY <1>1, Grown
<1>4. ASSUME ~Interrupted(l) PROVE InOrder(m) /\ Going(m)
  <2>1. InOrder(l) /\ Going(l)
    BY <1>4 DEF ReportsIn
  <2>2. InOrder(m)
    BY <1>1, <2>1, StaysInOrder
  <2> HIDE DEF m
  <2>3. Going(m)
    BY <1>1, <1>3, <2>1 DEF Going
  <2> QED BY <2>2, <2>3
<1> QED BY <1>1, <1>2, <1>4 DEF m, e

\* An event of a cancel or of an expiry.
LEMMA InterruptsAppend ==
  ASSUME NEW t, t[1].do = "insert_event", NEW l \in Seq(Event), Len(t) \in Nat, Len(t) >= 1,
         Prepares(t) \/ (Cancels(t) /\ CancelsIn(t, l))
  PROVE  /\ t[1].arg \in Event \ {"request", "user", "RUNNING"}
         /\ Interrupted(Append(l, t[1].arg))
<1> DEFINE e == t[1].arg
<1>1. CASE Prepares(t)
  <2>1. Len(t) # 1
    <3>1. Len(t) = 1 => t[1].do \in Preparing
      BY <1>1 DEF Prepares, Preparing
    <3> QED BY <3>1 DEF Preparing
  <2>3. e = "EXPIRED"
    <3>1. 1 \in 1 .. Len(t) - 1
      BY <2>1, FirstIndex
    <3> QED BY <1>1, <3>1 DEF Prepares, Logs
  <2> HIDE DEF e
  <2>4. e \in Event \ {"request", "user", "RUNNING"} /\ e \in {"EXPIRED", "CANCELLED"}
    BY <2>3 DEF Event, Terminal
  <2> QED BY <2>4, StaysInterrupted DEF e
<1>2. CASE Cancels(t) /\ CancelsIn(t, l)
  <2>1. \/ Len(t) \in {1, 2} /\ e \in {"done", "result"}
        \/ Len(t) = 3 /\ e = "CANCELLED"
    BY <1>2, CancelsWrite
  <2> HIDE DEF e
  <2>2. e \in Event \ {"request", "user", "RUNNING"}
    BY <2>1 DEF Event, Terminal
  <2>3. Interrupted(l) \/ e \in {"EXPIRED", "CANCELLED"}
    <3>1. CASE Len(t) \in {1, 2}
      <4>1. Len(t) <= 2
        BY <3>1
      <4> QED BY <1>2, <4>1 DEF CancelsIn
    <3>2. CASE Len(t) = 3 /\ e = "CANCELLED"
      BY <3>2
    <3> QED BY <2>1, <3>1, <3>2
  <2> QED BY <2>2, <2>3, StaysInterrupted DEF e
<1> QED BY <1>1, <1>2

\* Who writes to the log of another process's run interrupts it.
LEMMA OthersAtInsert ==
  ASSUME TypeOK, RecordInv, NEW p \in Process, NEW q \in Process, q # p, seg'[q] = seg[q],
         exec' = exec, pending' = pending, seg[p].todo # <<>>, seg[q].todo # <<>>,
         NEW r, r = seg[p].todo[1].r, r = seg[q].todo[1].r,
         NEW e \in Event, log[r] \in Seq(Event), log'[r] = Append(log[r], e),
         e \notin {"request", "user", "RUNNING"} \/ Starts(seg[p].todo),
         \/ Interrupted(Append(log[r], e))
         \/ Starts(seg[p].todo) \/ Ends(seg[p].todo) \/ Reports(seg[p].todo)
  PROVE  SegmentInv(q)'
<1> DEFINE l == log[r]
           m == Append(log[r], e)
<1>1. SegmentInv(p) /\ SegmentInv(q)
  BY DEF RecordInv
<1>2. /\ \/ Starts(seg[q].todo) \/ Ends(seg[q].todo) \/ Reports(seg[q].todo)
         \/ Cancels(seg[q].todo) \/ Prepares(seg[q].todo)
      /\ Starts(seg[q].todo) => /\ seg[q].op \in {"send", "force"} /\ StartsIn(seg[q].todo, l)
                                /\ exec[r].phase = "none" /\ \A h \in Handle : pending[h] # r
      /\ Cancels(seg[q].todo) => seg[q].op = "cancel" /\ CancelsIn(seg[q].todo, l)
      /\ Ends(seg[q].todo) => /\ seg[q].op \in {"turn", "fail"} /\ exec[r].phase \in Alive
                              /\ ProcOfRun(r) = q
      /\ Reports(seg[q].todo) => /\ seg[q].op \in {"turn", "fail"} /\ exec[r].phase \in Alive
                                 /\ ProcOfRun(r) = q
      /\ Prepares(seg[q].todo) =>
           /\ seg[q].op \in {"send", "force", "cancel"}
           /\ seg[q].op = "cancel" <=> seg[q].todo[Len(seg[q].todo)].do = "find"
  BY <1>1, FormsHold
<1>3. /\ Starts(seg[p].todo) => exec[r].phase = "none"
      /\ Ends(seg[p].todo) \/ Reports(seg[p].todo) => exec[r].phase \in Alive /\ ProcOfRun(r) = p
  BY <1>1, FormsHold
<1>4. Interrupted(l) => Interrupted(m)
  BY StaysInterrupted
<1> HIDE DEF l, m
<1>5. log'[r] = m
  BY DEF m
<1>6. CASE Prepares(seg[q].todo)
  BY <1>2, <1>6 DEF SegmentInv
<1>7. CASE Cancels(seg[q].todo)
  <2>1. CancelsIn(seg[q].todo, m)
    BY <1>2, <1>4, <1>7 DEF CancelsIn
  <2> QED BY <1>2, <1>5, <1>7, <2>1 DEF SegmentInv
<1>8. CASE Starts(seg[q].todo)
  <2>1. ~Starts(seg[p].todo) /\ ~Ends(seg[p].todo) /\ ~Reports(seg[p].todo)
    BY <1>2, <1>3, <1>8 DEF RecordInv, StartedOnce, Alive
  <2>2. Interrupted(m) /\ e \in Event \ {"request", "user", "RUNNING"}
    BY <2>1 DEF m
  <2>3. Begun(seg[q].todo) \in 0 .. 3
    <3>1. Len(seg[q].todo) \in 1 .. 5
      BY <1>8, Zenon DEF Starts
    <3> QED BY <3>1 DEF Begun
  <2>4. Recorded(l, Begun(seg[q].todo))
    BY <1>2, <1>8 DEF StartsIn
  <2>5. Recorded(m, Begun(seg[q].todo))
    BY <2>2, <2>3, <2>4, RecordedStays DEF l, m
  <2>6. StartsIn(seg[q].todo, m)
    BY <2>2, <2>5 DEF StartsIn
  <2> QED BY <1>2, <1>5, <1>8, <2>6 DEF SegmentInv
<1>9. CASE Ends(seg[q].todo) \/ Reports(seg[q].todo)
  <2>1. seg[q].op \in {"turn", "fail"} /\ exec[r].phase \in Alive /\ ProcOfRun(r) = q
    BY <1>2, <1>9
  <2>2. ~Starts(seg[p].todo) /\ ~Ends(seg[p].todo) /\ ~Reports(seg[p].todo)
    BY <1>3, <2>1 DEF Alive
  <2>3. Interrupted(m)
    BY <2>2 DEF m
  <2>4. EndsIn(seg[q].todo, m) /\ ReportsIn(seg[q].todo, m)
    BY <2>3 DEF EndsIn, ReportsIn
  <2>5. ProcOfRun(r)' = q
    BY <2>1 DEF ProcOfRun
  <2> QED BY <1>5, <1>9, <2>1, <2>4, <2>5 DEF SegmentInv
<1> QED BY <1>2, <1>6, <1>7, <1>8, <1>9

\* What an INSERT leaves behind in the log of its run, and how its segment goes on.
LEMMA AtInsert ==
  ASSUME TypeOK, RecordInv, NEW p \in Process, InsertEvent(p)
  PROVE  LET t == seg[p].todo
             u == seg'[p].todo
             r == t[1].r
             m == Append(log[r], t[1].arg)
         IN  /\ t # <<>> /\ r \in DOMAIN log /\ r \in DOMAIN exec /\ log[r] \in Seq(Event)
             /\ t[1].arg \in Event /\ t[1].do = "insert_event"
             /\ log' = [log EXCEPT ![r] = m]
             /\ exec' = exec /\ pending' = pending /\ Continue(p, <<>>)
             /\ \A q \in Process \ {p} : seg'[q] = seg[q]
             /\ Fresh(t, log[r]) /\ Len(t) \in Nat /\ Len(t) >= 1
             /\ Interrupted(log[r]) \/ InOrder(log[r])
<1> DEFINE t == seg[p].todo
           r == t[1].r
<1>1. /\ t # <<>> /\ t[1].do = "insert_event" /\ Cur(p) = t[1]
      /\ Len(log[r]) = t[1].n /\ log' = [log EXCEPT ![r] = Append(log[r], t[1].arg)]
      /\ exec' = exec /\ pending' = pending /\ Continue(p, <<>>)
  BY DEF InsertEvent, At, Cur
<1>2. t[1] \in StatementOver(Len(runs)) /\ Len(t) \in Nat /\ Len(t) >= 1
  BY <1>1, AtStatement
<1>3. r \in 1 .. Len(runs) /\ t[1].arg \in Event
  BY <1>1, <1>2 DEF StatementOver
<1>4. r \in DOMAIN log /\ r \in DOMAIN exec /\ log[r] \in Seq(Event)
  <2>1. /\ log \in Seq(Seq(Event)) /\ exec \in Seq([phase : Phase, h : Handle])
        /\ Len(log) = Len(runs) /\ Len(exec) = Len(runs)
    BY DEF TypeOK
  <2>2. DOMAIN log = 1 .. Len(runs) /\ DOMAIN exec = 1 .. Len(runs)
    BY <2>1, LenProperties
  <2>3. r \in 1 .. Len(log)
    BY <1>3, <2>1
  <2> QED BY <1>3, <2>1, <2>2, <2>3, ElementOfSeq
<1>5. Interrupted(log[r]) \/ InOrder(log[r])
  BY <1>4 DEF RecordInv, RunInv
<1>6. Fresh(t, log[r])
  BY <1>1 DEF Fresh
<1>7. \A q \in Process \ {p} : seg'[q] = seg[q]
  BY <1>1, OthersStay
<1> QED BY <1>1, <1>2, <1>3, <1>4, <1>5, <1>6, <1>7

LEMMA SomeLeft == /\ \A n \in {2, 3, 4} : n >= 2
                  /\ \A n \in {2, 3, 5} : n >= 2
                  /\ \A n \in Nat : n >= 1 => n = 1 \/ n >= 2
OBVIOUS

\* The segment and the log after an INSERT.
LEMMA InsertedIs ==
  ASSUME TypeOK, TypeOK', RecordInv, NEW p \in Process, InsertEvent(p)
  PROVE  \E r, e, m :
           /\ r = seg[p].todo[1].r
           /\ e = seg[p].todo[1].arg
           /\ m = Append(log[r], e)
           /\ log'[r] = m
           /\ e \in Event /\ (e \notin {"request", "user", "RUNNING"} \/ Starts(seg[p].todo))
           /\ Interrupted(m) \/ InOrder(m)
           /\ Interrupted(m) \/ Starts(seg[p].todo) \/ Ends(seg[p].todo) \/ Reports(seg[p].todo)
           /\ Reports(seg[p].todo) => Interrupted(m) \/ Going(m)
           /\ SegmentInv(p)'
           /\ Starts(seg'[p].todo) => Starts(seg[p].todo) /\ seg'[p].todo[1].r = r
           /\ Ends(seg[p].todo) => /\ seg'[p].todo # <<>> /\ seg'[p].op = seg[p].op
                                   /\ seg'[p].todo[1].r = r
<1>a. PICK r : r = seg[p].todo[1].r
  OBVIOUS
<1>b. PICK e : e = seg[p].todo[1].arg
  OBVIOUS
<1>c. PICK m : m = Append(log[r], e)
  OBVIOUS
<1> USE <1>a, <1>b, <1>c
<1> SUFFICES
         /\ log'[r] = m
         /\ e \in Event /\ (e \notin {"request", "user", "RUNNING"} \/ Starts(seg[p].todo))
         /\ Interrupted(m) \/ InOrder(m)
         /\ Interrupted(m) \/ Starts(seg[p].todo) \/ Ends(seg[p].todo) \/ Reports(seg[p].todo)
         /\ Reports(seg[p].todo) => Interrupted(m) \/ Going(m)
         /\ SegmentInv(p)'
         /\ Starts(seg'[p].todo) => Starts(seg[p].todo) /\ seg'[p].todo[1].r = r
         /\ Ends(seg[p].todo) => /\ seg'[p].todo # <<>> /\ seg'[p].op = seg[p].op
                                 /\ seg'[p].todo[1].r = r
  OBVIOUS
<1> DEFINE t == seg[p].todo
           u == seg'[p].todo
           l == log[r]
<1>1. /\ t # <<>> /\ r \in DOMAIN log /\ r \in DOMAIN exec /\ l \in Seq(Event)
      /\ e \in Event /\ t[1].do = "insert_event" /\ log' = [log EXCEPT ![r] = m]
      /\ exec' = exec /\ pending' = pending /\ Continue(p, <<>>)
      /\ Fresh(t, l) /\ Len(t) \in Nat /\ Len(t) >= 1
      /\ Interrupted(l) \/ InOrder(l)
  BY AtInsert
<1>2. log'[r] = m
  BY <1>1
<1>3. /\ Starts(t) \/ Ends(t) \/ Reports(t) \/ Cancels(t) \/ Prepares(t)
      /\ Starts(t) => /\ seg[p].op \in {"send", "force"} /\ StartsIn(t, l)
                      /\ exec[r].phase = "none" /\ \A h \in Handle : pending[h] # r
      /\ Cancels(t) => seg[p].op = "cancel" /\ CancelsIn(t, l)
      /\ Ends(t) => /\ seg[p].op \in {"turn", "fail"} /\ exec[r].phase \in Alive
                    /\ ProcOfRun(r) = p /\ EndsIn(t, l)
      /\ Reports(t) => ReportsIn(t, l)
      /\ Prepares(t) => /\ seg[p].op \in {"send", "force", "cancel"}
                        /\ seg[p].op = "cancel" <=> t[Len(t)].do = "find"
  BY <1>1, FormsHold DEF RecordInv
<1>4. ASSUME Len(t) >= 2
      PROVE  /\ u # <<>> /\ Len(u) = Len(t) - 1 /\ u[Len(u)] = t[Len(t)]
             /\ seg'[p].op = seg[p].op
             /\ Starts(t) => Starts(u) /\ u[1].r = r /\ u[1].do # "insert_event"
             /\ Ends(t) => Ends(u) /\ u[1].r = r /\ u[1].do # "insert_event"
             /\ Cancels(t) => Cancels(u) /\ u[1].r = r
             /\ Prepares(t) => Prepares(u)
  BY <1>1, <1>4, FormsMoveOn
<1>5. Len(t) = 1 => u = <<>>
  <2> SUFFICES ASSUME Len(t) = 1 PROVE u = <<>>
    OBVIOUS
  <2>1. Len(u) = Len(t) - 1
    BY <1>1, MovesOn
  <2>2. u \in Seq(StatementOver(Len(runs')))
    BY DEF TypeOK, Segment
  <2>3. Len(u) = 0
    BY <2>1
  <2> HIDE DEF u
  <2> QED BY <2>2, <2>3, EmptySeq
<1>e. e = t[1].arg /\ m = Append(l, t[1].arg)
  OBVIOUS
<1> HIDE DEF t, u, l
<1>6. CASE Starts(t)
  <2>1. Len(t) \in {2, 3, 4}
    BY <1>1, <1>6, StartsWrite
  <2>2. /\ u # <<>> /\ Len(u) = Len(t) - 1 /\ seg'[p].op = seg[p].op
        /\ Starts(u) /\ u[1].r = r /\ u[1].do # "insert_event"
    <3>1. Len(t) >= 2
      BY <2>1, SomeLeft
    <3> QED BY <1>4, <1>6, <3>1
  <2>3. StartsIn(u, m) /\ (Interrupted(m) \/ InOrder(m))
    BY <1>1, <1>3, <1>e, <1>6, <2>2, StartsAppend
  <2>4. SegmentInv(p)'
    <3>1. /\ seg'[p].op \in {"send", "force"} /\ Starts(seg'[p].todo) /\ StartsIn(seg'[p].todo, log'[r])
          /\ exec'[r].phase = "none" /\ \A h \in Handle : pending'[h] # r
          /\ seg'[p].todo # <<>> /\ seg'[p].todo[1].r = r
      BY <1>1, <1>2, <1>3, <1>6, <2>2, <2>3 DEF u
    <3> QED BY <3>1 DEF SegmentInv
  <2>5. ~Ends(t) /\ ~Reports(t)
    BY <1>6, FormsApart
  <2> QED BY <1>1, <1>2, <1>6, <2>2, <2>3, <2>4, <2>5 DEF t, u
<1>7. CASE Ends(t)
  <2>1. Len(t) \in {2, 3, 5} /\ e \in {"done", "result", "FINISHED", "ERROR"}
    BY <1>1, <1>e, <1>7, EndsWrite
  <2>2. /\ u # <<>> /\ Len(u) = Len(t) - 1 /\ seg'[p].op = seg[p].op
        /\ Ends(u) /\ u[1].r = r /\ u[1].do # "insert_event"
    <3>1. Len(t) >= 2
      BY <2>1, SomeLeft
    <3> QED BY <1>4, <1>7, <3>1
  <2>3. EndsIn(u, m) /\ (Interrupted(m) \/ InOrder(m))
    BY <1>1, <1>3, <1>e, <1>7, <2>2, EndsAppend
  <2>4. SegmentInv(p)'
    <3>1. /\ seg'[p].op \in {"turn", "fail"} /\ Ends(seg'[p].todo) /\ EndsIn(seg'[p].todo, log'[r])
          /\ exec'[r].phase \in Alive /\ ProcOfRun(r)' = p
          /\ seg'[p].todo # <<>> /\ seg'[p].todo[1].r = r
      BY <1>1, <1>2, <1>3, <1>7, <2>2, <2>3 DEF u, ProcOfRun
    <3> QED BY <3>1 DEF SegmentInv
  <2>5. ~Starts(u) /\ ~Reports(t)
    BY <1>7, <2>2, FormsApart
  <2> QED BY <1>1, <1>2, <1>7, <2>1, <2>2, <2>3, <2>4, <2>5 DEF t, u
<1>8. CASE Reports(t)
  <2>1. e = "progress" /\ (Interrupted(m) \/ (InOrder(m) /\ Going(m)))
    BY <1>1, <1>3, <1>e, <1>8, ReportsAppend
  <2>2. u = <<>>
    BY <1>5, <1>8 DEF Reports
  <2>3. SegmentInv(p)'
    BY <2>2 DEF SegmentInv, u
  <2>4. ~Starts(u) /\ ~Ends(t)
    BY <1>8, <2>2, FormsApart, NoStatement
  <2> QED BY <1>1, <1>2, <1>8, <2>1, <2>3, <2>4 DEF t, u
<1>9. CASE Prepares(t) \/ Cancels(t)
  <2>1. e \in Event \ {"request", "user", "RUNNING"} /\ Interrupted(m)
    BY <1>1, <1>3, <1>e, <1>9, InterruptsAppend
  <2>2. SegmentInv(p)' /\ ~Starts(u)
    <3>1. CASE Len(t) = 1
      <4>1. seg'[p].todo = <<>>
        BY <1>5, <3>1 DEF u
      <4> QED BY <4>1, NoStatement DEF SegmentInv, u
    <3>2. CASE Len(t) >= 2 /\ Prepares(t)
      <4>1. /\ u # <<>> /\ Prepares(u) /\ seg'[p].op \in {"send", "force", "cancel"}
            /\ seg'[p].op = "cancel" <=> u[Len(u)].do = "find"
        BY <1>3, <1>4, <3>2
      <4> QED BY <4>1, FormsApart DEF SegmentInv, u
    <3>3. CASE Len(t) >= 2 /\ Cancels(t)
      <4>1. Cancels(u) /\ u[1].r = r /\ u # <<>> /\ seg'[p].op = "cancel"
        BY <1>3, <1>4, <3>3
      <4>2. CancelsIn(u, m)
        BY <2>1 DEF CancelsIn
      <4>3. SegmentInv(p)'
        BY <1>2, <4>1, <4>2 DEF SegmentInv, u
      <4> QED BY <4>1, <4>3, FormsApart
    <3>4. Len(t) = 1 \/ Len(t) >= 2
      BY <1>1, SomeLeft
    <3> QED BY <1>9, <3>1, <3>2, <3>3, <3>4
  <2>3. ~Ends(t) /\ ~Reports(t)
    BY <1>9, FormsApart
  <2> QED BY <1>1, <1>2, <2>1, <2>2, <2>3 DEF t, u
<1> QED BY <1>3, <1>6, <1>7, <1>8, <1>9

LEMMA InsertEventStays ==
  ASSUME TypeOK, TypeOK', RecordInv, NEW p \in Process, InsertEvent(p) PROVE RecordInv'
<1> DEFINE t == seg[p].todo
           u == seg'[p].todo
<1>p. PICK r, e, m :
        /\ r = seg[p].todo[1].r
        /\ e = seg[p].todo[1].arg
        /\ m = Append(log[r], e)
        /\ log'[r] = m
        /\ e \in Event /\ (e \notin {"request", "user", "RUNNING"} \/ Starts(seg[p].todo))
        /\ Interrupted(m) \/ InOrder(m)
        /\ Interrupted(m) \/ Starts(seg[p].todo) \/ Ends(seg[p].todo) \/ Reports(seg[p].todo)
        /\ Reports(seg[p].todo) => Interrupted(m) \/ Going(m)
        /\ SegmentInv(p)'
        /\ Starts(seg'[p].todo) => Starts(seg[p].todo) /\ seg'[p].todo[1].r = r
        /\ Ends(seg[p].todo) => /\ seg'[p].todo # <<>> /\ seg'[p].op = seg[p].op
                                /\ seg'[p].todo[1].r = r
  BY InsertedIs
<1>r. r = t[1].r
  BY <1>p
<1>e. e = t[1].arg
  BY <1>p
<1>m. m = Append(log[r], e)
  BY <1>p
<1>1. /\ t # <<>> /\ r \in DOMAIN log /\ r \in DOMAIN exec /\ log[r] \in Seq(Event)
      /\ log' = [log EXCEPT ![r] = m]
      /\ exec' = exec /\ pending' = pending /\ Continue(p, <<>>)
      /\ \A q \in Process \ {p} : seg'[q] = seg[q]
      /\ Len(t) \in Nat /\ Len(t) >= 1
  BY <1>r, <1>e, <1>m, AtInsert
<1>2. /\ log'[r] = m
      /\ e \in Event /\ (e \notin {"request", "user", "RUNNING"} \/ Starts(t))
      /\ Interrupted(m) \/ InOrder(m)
      /\ Interrupted(m) \/ Starts(t) \/ Ends(t) \/ Reports(t)
      /\ Reports(t) => Interrupted(m) \/ Going(m)
      /\ SegmentInv(p)'
      /\ Starts(u) => Starts(t) /\ u[1].r = r
      /\ Ends(t) => u # <<>> /\ seg'[p].op = seg[p].op /\ u[1].r = r
  BY <1>p
<1>3. /\ Starts(t) => /\ seg[p].op \in {"send", "force"} /\ exec[r].phase = "none"
                      /\ \A h \in Handle : pending[h] # r
      /\ Ends(t) \/ Reports(t) => /\ seg[p].op \in {"turn", "fail"} /\ exec[r].phase \in Alive
                                  /\ ProcOfRun(r) = p
      /\ Starts(t) \/ Ends(t) \/ Reports(t) \/ Cancels(t) \/ Prepares(t)
      /\ Prepares(t) => seg[p].op \notin {"turn", "fail"}
      /\ Cancels(t) => seg[p].op \notin {"turn", "fail"}
  BY <1>1, <1>r, FormsHold DEF RecordInv
<1>4. /\ DOMAIN log = 1 .. Len(runs) /\ DOMAIN exec = 1 .. Len(runs) /\ DOMAIN log' = DOMAIN log
      /\ \A x \in DOMAIN log : x # r => log'[x] = log[x]
  BY <1>1, LenProperties DEF TypeOK
<1> HIDE DEF t, u
<1>5. StartedOnce'
  <2>1. \A q \in Process : Starts(seg'[q].todo) => /\ Starts(seg[q].todo)
                                                   /\ seg'[q].todo[1].r = seg[q].todo[1].r
    BY <1>1, <1>2, <1>r DEF t, u
  <2> QED BY <2>1, OnceStays DEF RecordInv
<1>6. ASSUME NEW q \in Process, q # p PROVE SegmentInv(q)'
  <2>1. seg'[q] = seg[q] /\ SegmentInv(q)
    BY <1>1, <1>6 DEF RecordInv
  <2>2. PICK x : x = seg[q].todo[1].r
    OBVIOUS
  <2>3. CASE seg[q].todo = <<>>
    BY <2>1, <2>3 DEF SegmentInv
  <2>4. CASE seg[q].todo # <<>> /\ Prepares(seg[q].todo)
    <3>1. /\ seg[q].op \in {"send", "force", "cancel"}
          /\ seg[q].op = "cancel" <=> seg[q].todo[Len(seg[q].todo)].do = "find"
      BY <2>1, <2>4, FormsHold
    <3> QED BY <2>1, <2>4, <3>1 DEF SegmentInv
  <2>5. CASE seg[q].todo # <<>> /\ ~Prepares(seg[q].todo)
    <3>1. \/ Starts(seg[q].todo) \/ Ends(seg[q].todo)
          \/ Reports(seg[q].todo) \/ Cancels(seg[q].todo)
      BY <2>1, <2>5, FormsHold
    <3>2. x \in DOMAIN exec
      BY <2>2, <2>5, <3>1, InRuns
    <3>3. CASE x # r
      <4>1. x # NoRun /\ log'[x] = log[x] /\ exec'[x] = exec[x]
        BY <1>1, <1>4, <3>2, <3>3 DEF NoRun
      <4> QED BY <1>1, <2>1, <2>2, <4>1, SegmentStays
    <3>4. CASE x = r
      <4>1. /\ log'[r] = Append(log[r], e)
            /\ Interrupted(Append(log[r], e)) \/ Starts(t) \/ Ends(t) \/ Reports(t)
        BY <1>2, <1>m
      <4> QED BY <1>1, <1>2, <1>6, <1>r, <2>1, <2>2, <2>5, <3>4, <4>1, OthersAtInsert DEF t
    <3> QED BY <3>3, <3>4
  <2> QED BY <2>3, <2>4, <2>5
<1>7. ASSUME NEW x \in DOMAIN exec, Busy(x), exec[x].phase \in Alive, ~(x = r /\ Reports(t))
      PROVE  Busy(x)'
  <2>1. PICK q \in Process : ProcOfRun(x) = q
    BY ExecRow
  <2>2. ProcOfRun(x)' = q
    BY <1>1, <2>1 DEF ProcOfRun
  <2>3. CASE q # p
    BY <1>1, <1>7, <2>1, <2>2, <2>3 DEF Busy
  <2>4. CASE q = p
    <3>1. seg[p].op \in {"turn", "fail"} /\ x = r
      BY <1>7, <1>r, <2>1, <2>4 DEF Busy, t
    <3>2. Ends(t)
      BY <1>3, <1>7, <3>1
    <3> QED BY <1>2, <2>2, <2>4, <3>1, <3>2 DEF Busy, u
  <2> QED BY <2>3, <2>4
<1>8. RunInv(r)'
  <2>1. RunInv(r)
    BY <1>1 DEF RecordInv
  <2>2. e \in Event /\ (e \notin {"request", "user", "RUNNING"} \/ exec[r].phase = "none")
    BY <1>2, <1>3
  <2>3. ASSUME exec[r].phase # "none" PROVE Recorded(m, 3)
    <3>1. Recorded(log[r], 3) /\ e \in Event \ {"request", "user", "RUNNING"}
      BY <2>1, <2>2, <2>3 DEF RunInv
    <3> QED BY <1>1, <1>m, <3>1, RecordedStays
  <2>4. ASSUME exec[r].phase \in Alive, ~Busy(r)' PROVE Interrupted(m) \/ Going(m)
    <3>1. CASE Reports(t)
      BY <1>2, <3>1
    <3>2. CASE ~Reports(t) /\ Busy(r)
      BY <1>1, <1>7, <2>4, <3>2
    <3>3. CASE ~Reports(t) /\ ~Busy(r)
      <4>1. ~Starts(t)
        BY <1>3, <2>4 DEF Alive
      <4>2. ~Ends(t)
        BY <1>1, <1>3, <1>r, <3>3 DEF Busy, t
      <4> QED BY <1>2, <3>3, <4>1, <4>2
    <3> QED BY <3>1, <3>2, <3>3
  <2>5. ASSUME NEW h \in Handle, pending[h] = r
        PROVE  h = Creator /\ exec[r].phase = "none" /\ Recorded(m, 0) /\ Interrupted(m)
    <3>1. h = Creator /\ exec[r].phase = "none" /\ Recorded(log[r], 0)
      BY <2>1, <2>5 DEF RunInv
    <3>2. ~Starts(t) /\ ~Ends(t) /\ ~Reports(t)
      BY <1>3, <2>5, <3>1 DEF Alive
    <3>3. Interrupted(m) /\ e \in Event \ {"request", "user", "RUNNING"}
      BY <1>2, <3>2
    <3>4. Recorded(m, 0)
      BY <1>1, <1>m, <3>1, <3>3, RecordedStays
    <3> QED BY <3>1, <3>3, <3>4
  <2> QED BY <1>1, <1>2, <2>3, <2>4, <2>5 DEF RunInv
<1>9. ASSUME NEW x \in DOMAIN log, x # r PROVE RunInv(x)'
  <2>1. /\ log'[x] = log[x] /\ exec'[x] = exec[x] /\ x \in DOMAIN exec /\ RunInv(x) /\ x # NoRun
    BY <1>1, <1>4, <1>9 DEF RecordInv, NoRun
  <2>2. exec[x].phase \in Alive /\ Busy(x) => Busy(x)'
    BY <1>7, <1>9, <2>1
  <2> QED BY <1>1, <2>1, <2>2, RunStays
<1>10. \A x \in DOMAIN log' : RunInv(x)'
  BY <1>4, <1>8, <1>9
<1> QED BY <1>2, <1>5, <1>6, <1>10 DEF RecordInv

-----------------------------------------------------------------------------
(* The invariant. *)

LEMMA InitRecord == Init => RecordInv
<1> SUFFICES ASSUME Init PROVE RecordInv
  OBVIOUS
<1>1. \A p \in Process : seg[p].todo = <<>>
  BY DEF Init, Idle
<1>2. \A p \in Process : SegmentInv(p)
  BY <1>1 DEF SegmentInv
<1>3. StartedOnce
  BY <1>1, NoStatement DEF StartedOnce
<1>4. DOMAIN log = {1} /\ log[1] = <<>> /\ exec[1].phase = "none"
  BY DEF Init
<1>5. InOrder(<<>>) /\ Recorded(<<>>, 0) /\ Len(<<>>) = 0
  BY DEF InOrder, Recorded
<1>6. \A h \in Handle : pending[h] = 1 => h = Creator
  BY DEF Init, NoRun
<1>7. RunInv(1)
  BY <1>4, <1>5, <1>6 DEF RunInv, Alive
<1> QED BY <1>2, <1>3, <1>4, <1>7 DEF RecordInv

LEMMA DriveFailsStays ==
  ASSUME TypeOK, TypeOK', RecordInv, NEW p \in Process, DriveFails(p) PROVE RecordInv'
<1> DEFINE t == seg[p].todo
<1>1. /\ t # <<>> /\ t[1].do = "drive"
      /\ log' = log /\ pending' = pending /\ exec' = exec
      /\ seg'[p].todo = <<>> /\ \A q \in Process : q # p => seg'[q] = seg[q]
  BY DEF DriveFails, Leave, Idle, At, Cur, TypeOK
<1>2. Starts(t) /\ Len(t) = 1
  BY <1>1, FormAt
<1>3. seg[p].op \in {"send", "force"}
  BY <1>1, <1>2, FormsHold DEF RecordInv
<1>4. \A r \in DOMAIN exec : ProcOfRun(r) \in Process
  BY ExecRow
<1>5. ASSUME NEW r \in DOMAIN exec, Busy(r), seg'[ProcOfRun(r)].todo = <<>> PROVE FALSE
  <2>1. ProcOfRun(r) # p
    BY <1>3, <1>5 DEF Busy
  <2>2. seg[ProcOfRun(r)].todo = <<>>
    BY <1>1, <1>4, <1>5, <2>1
  <2> QED BY <1>5, <2>2 DEF Busy
<1> HIDE DEF t
<1> QED BY <1>1, <1>5, Dropped

LEMMA NextRecord == TypeOK /\ TypeOK' /\ RecordInv /\ [Next]_vars => RecordInv'
<1> SUFFICES ASSUME TypeOK, TypeOK', RecordInv, [Next]_vars PROVE RecordInv'
  OBVIOUS
<1>1. CASE UNCHANGED vars
  <2>1. log' = log /\ pending' = pending /\ exec' = exec /\ seg' = seg
    BY <1>1 DEF vars
  <2>2. \A r \in DOMAIN exec : Busy(r) => seg'[ProcOfRun(r)].todo # <<>>
    BY <2>1 DEF Busy
  <2> QED BY <2>1, <2>2, Dropped
<1>2. ASSUME NEW p \in Process, Step(p) PROVE RecordInv'
  BY <1>2, ExpireReadAgentStays, ExpireReadRunStays, ChooseRunStays, FollowUpReadAgentStays,
     FollowUpReadActiveStays, FollowUpCountStays, FollowUpInsertStays, MarkRunStartingStays,
     MarkRunTerminalStays, ReadMaxSeqStays, InsertEventStays, InsertEventConflictStays,
     CancelFindRunStays, DriveStays, DriveFailsStays, ExecutorReturnsStays DEF Step
<1>3. ASSUME NEW p \in Process, NEW status, SetAgentStatus(p, status) PROVE RecordInv'
  <2>1. log' = log /\ pending' = pending /\ exec' = exec /\ seg' = seg
    BY <1>3 DEF SetAgentStatus
  <2>2. \A r \in DOMAIN exec : Busy(r) => seg'[ProcOfRun(r)].todo # <<>>
    BY <2>1 DEF Busy
  <2> QED BY <2>1, <2>2, Dropped
<1>4. CASE Client
  BY <1>3, <1>4, ResumeStays, CloseStays, SendStays, CrashStays, CancelStays DEF Client
<1>5. ASSUME NEW r \in DOMAIN exec, Executor(r) PROVE RecordInv'
  <2>1. ASSUME NEW from \in {"starting", "running"}, NEW to \in {"running", "failing", "gone"},
               Turns(r, from, to)
        PROVE  RecordInv'
    <3>1. from \in Alive /\ to \in Alive \cup {"gone"}
      BY DEF Alive
    <3> QED BY <2>1, <3>1, TurnsStay
  <2>2. CASE Startup(r) \/ StreamFails(r) \/ StreamAborted(r)
    BY <2>1, <2>2 DEF Startup, StartupDone, StartupFails, StreamFails, StreamAborted
  <2>3. CASE Emit(r) \/ TurnEnds(r) \/ RunFails(r)
    BY <2>3, TurnBeginsStays
  <2> QED BY <1>5, <2>2, <2>3 DEF Executor, TurnStops
<1> QED BY <1>1, <1>2, <1>4, <1>5 DEF Next

\* What is known of the logs and of the segments that write to them is an
\* invariant, for any number of processes and whatever their clients do.
THEOREM RecordInvCorrect == Spec => [](TypeOK /\ RecordInv)
<1>1. TypeOK /\ RecordInv /\ [Next]_vars => (TypeOK /\ RecordInv)'
  BY NextType, NextRecord
<1>2. Init => TypeOK /\ RecordInv
  BY InitType, InitRecord
<1> QED BY <1>1, <1>2, PTL DEF Spec

\* Whatever processes interleave at their statements, are killed, cancel a run or
\* force a send: a run is handed to an executor only when its log has the request,
\* the message and RUNNING, once each and in this order.
THEOREM DrivenRunsAreRecordedCorrect == Spec => []DrivenRunsAreRecorded
<1>1. TypeOK /\ RecordInv => DrivenRunsAreRecorded
  <2> SUFFICES ASSUME TypeOK, RecordInv, NEW r \in DOMAIN exec, exec[r].phase # "none"
               PROVE  Recorded(log[r], 3)
    BY DEF DrivenRunsAreRecorded
  <2>1. r \in DOMAIN log
    BY LenProperties DEF TypeOK
  <2> QED BY <2>1 DEF RecordInv, RunInv
<1> QED BY <1>1, RecordInvCorrect, PTL

\* And the log of a run that was neither cancelled nor expired is what one
\* executor records, in order: no run is started twice, and nothing follows its end.
THEOREM OneVerdictCorrect == Spec => []OneVerdict
<1>1. RecordInv => OneVerdict
  BY DEF RecordInv, RunInv, OneVerdict
<1> QED BY <1>1, RecordInvCorrect, PTL

=============================================================================
