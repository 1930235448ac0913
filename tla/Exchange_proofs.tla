--------------------------- MODULE Exchange_proofs ---------------------------
(***************************************************************************)
(* Theorems about what a run exchanges with the world around it, for any   *)
(* number of calls, logins, links, messages, requests and runs: the MCP    *)
(* servers, the connection to the service, its subagents and its tools.    *)
(* The components are those of MCExchange, each with constants of any      *)
(* value.                                                                  *)
(***************************************************************************)
EXTENDS MCExchange, SequenceTheorems, FiniteSetTheorems, TLAPS

-----------------------------------------------------------------------------
(* MCP servers: the operators that links and workers are changed with.     *)

Ask == [id : Nat \ {0}, who : Worker]
LinkState == [state : {"none", "open", "closing", "closed"}, last : Nat,
              pending : SUBSET Ask, owed : SUBSET Ask, ready : BOOLEAN]
WorkerAt == Connecting \cup Login \cup {"idle", "calling", "done", "raised", "cancelled"}
Future == {"none", "result", "error", "unauthorized", "closed", "timeout"}
WorkerState == [at : WorkerAt, link : Link \cup {NoLink}, fut : Future,
                of : Worker \cup {"server"}, limit : BOOLEAN]

\* No two requests of a link have one number, and none has a number to come.
Numbered(ls) ==
  /\ ls \in [Link -> LinkState]
  /\ \A l \in Link : \A p, q \in ls[l].pending \cup ls[l].owed :
       p.id <= ls[l].last /\ (p.id = q.id => p = q)

\* An answer that a worker holds is its own, or the server's request.
Own(ws) ==
  /\ ws \in [Worker -> WorkerState]
  /\ \A w \in Worker : ws[w].fut \in {"result", "error", "unauthorized"} =>
       ws[w].of \in {w, "server"}

\* The links of one are as ready, and as open, as those of the other.
Alike(ls, before) ==
  \A l \in Link : ls[l].state = before[l].state /\ ls[l].ready = before[l].ready

LEMMA AskedSound ==
  ASSUME NEW ls, Numbered(ls), NEW l, NEW w \in Worker
  PROVE  Numbered(Asked(ls, l, w)) /\ Alike(Asked(ls, l, w), ls)
<1> DEFINE q == [id |-> ls[l].last + 1, who |-> w]
           e == [ls[l] EXCEPT !.last = q.id, !.pending = @ \cup {q}, !.owed = @ \cup {q}]
           new == Asked(ls, l, w)
<1>1. ls \in [Link -> LinkState]
  BY DEF Numbered
<1>2. new = [ls EXCEPT ![l] = e]
  BY DEF Asked
<1>3. CASE l \notin Link
  <2>1. new = ls
    BY <1>1, <1>2, <1>3
  <2> QED BY <2>1 DEF Alike
<1>4. CASE l \in Link
  <2>1. ls[l] \in LinkState
    BY <1>1, <1>4
  <2>2. q \in Ask /\ q.id = ls[l].last + 1 /\ ls[l].last \in Nat
    BY <2>1 DEF LinkState, Ask
  <2> HIDE DEF q
  <2>3. /\ e \in LinkState /\ e.state = ls[l].state /\ e.ready = ls[l].ready
        /\ e.last = q.id /\ e.pending = ls[l].pending \cup {q} /\ e.owed = ls[l].owed \cup {q}
    BY <2>1, <2>2 DEF LinkState, Ask
  <2> HIDE DEF e, new
  <2>4. /\ new \in [Link -> LinkState] /\ new[l] = e
        /\ \A k \in Link : k # l => new[k] = ls[k]
    BY <1>1, <1>2, <1>4, <2>3
  <2>5. ASSUME NEW a \in e.pending \cup e.owed, NEW b \in e.pending \cup e.owed
        PROVE  a.id <= e.last /\ (a.id = b.id => a = b)
    <3>1. \A c \in ls[l].pending \cup ls[l].owed : c \in Ask
      BY <2>1 DEF LinkState
    <3>2. \A c, d \in ls[l].pending \cup ls[l].owed : c.id <= ls[l].last /\ (c.id = d.id => c = d)
      BY <1>4 DEF Numbered
    <3>3. \A c \in Ask : c.id \in Nat
      BY DEF Ask
    <3> QED BY <2>2, <2>3, <2>5, <3>1, <3>2, <3>3
  <2>6. Alike(new, ls)
    BY <2>3, <2>4 DEF Alike
  <2>7. Numbered(new)
    BY <1>4, <2>4, <2>5 DEF Numbered
  <2> QED BY <2>6, <2>7 DEF new
<1> QED BY <1>3, <1>4

\* Requests are taken away, and nothing else changes but the state of the link.
LEMMA FewerSound ==
  ASSUME NEW ls, Numbered(ls), NEW new \in [Link -> LinkState],
         \A l \in Link : /\ new[l].pending \subseteq ls[l].pending
                         /\ new[l].owed \subseteq ls[l].owed
                         /\ new[l].last = ls[l].last
  PROVE  Numbered(new)
<1> SUFFICES ASSUME NEW l \in Link, NEW p \in new[l].pending \cup new[l].owed,
                    NEW q \in new[l].pending \cup new[l].owed
             PROVE  p.id <= new[l].last /\ (p.id = q.id => p = q)
  BY DEF Numbered
<1>1. p \in ls[l].pending \cup ls[l].owed /\ q \in ls[l].pending \cup ls[l].owed
  OBVIOUS
<1>2. p.id <= ls[l].last /\ (p.id = q.id => p = q)
  BY <1>1 DEF Numbered
<1> QED BY <1>2

LEMMA PoppedSound ==
  ASSUME NEW ls, Numbered(ls), NEW w
  PROVE  Numbered(Popped(ls, w)) /\ Alike(Popped(ls, w), ls)
<1>1. ls \in [Link -> LinkState]
  BY DEF Numbered
<1> DEFINE e(l) == [ls[l] EXCEPT !.pending = {q \in @ : q.who # w}]
<1>2. ASSUME NEW l \in Link
      PROVE  /\ e(l) \in LinkState /\ e(l).state = ls[l].state /\ e(l).ready = ls[l].ready
             /\ e(l).last = ls[l].last /\ e(l).owed = ls[l].owed
             /\ e(l).pending \subseteq ls[l].pending
  <2>1. ls[l] \in LinkState
    BY <1>1
  <2> QED BY <2>1 DEF LinkState
<1>3. Popped(ls, w) = [l \in Link |-> e(l)]
  BY DEF Popped
<1> HIDE DEF e
<1>4. \A l \in Link : Popped(ls, w)[l] = e(l)
  BY <1>3
<1>5. Popped(ls, w) \in [Link -> LinkState]
  BY <1>2, <1>3
<1>6. Numbered(Popped(ls, w))
  BY <1>2, <1>4, <1>5, FewerSound
<1> QED BY <1>2, <1>4, <1>6 DEF Alike

\* aclose of a link, and the states that opening and closing leave.
LEMMA StateSound ==
  ASSUME NEW ls, Numbered(ls), NEW l, NEW s \in {"none", "open", "closing", "closed"},
         NEW new, new = [ls EXCEPT ![l].state = s]
  PROVE  /\ Numbered(new)
         /\ \A k \in Link : /\ new[k].ready = ls[k].ready
                            /\ new[k].state = IF k = l THEN s ELSE ls[k].state
<1> DEFINE e(k) == IF k = l THEN [ls[k] EXCEPT !.state = s] ELSE ls[k]
<1>1. ls \in [Link -> LinkState]
  BY DEF Numbered
<1>2. ASSUME NEW k \in Link
      PROVE  /\ e(k) \in LinkState /\ e(k).ready = ls[k].ready
             /\ e(k).state = IF k = l THEN s ELSE ls[k].state
             /\ e(k).last = ls[k].last /\ e(k).owed = ls[k].owed /\ e(k).pending = ls[k].pending
  <2>1. ls[k] \in LinkState
    BY <1>1
  <2> QED BY <2>1 DEF LinkState
<1>3. new = [k \in Link |-> e(k)]
  BY <1>1
<1> HIDE DEF e
<1>4. \A k \in Link : new[k] = e(k)
  BY <1>3
<1>5. new \in [Link -> LinkState]
  BY <1>2, <1>3
<1>6. Numbered(new)
  BY <1>2, <1>4, <1>5, FewerSound
<1> QED BY <1>2, <1>4, <1>6

Readied(ls, l) == [ls EXCEPT ![l].ready = TRUE]

LEMMA ReadySound ==
  ASSUME NEW ls, Numbered(ls), NEW l
  PROVE  LET new == Readied(ls, l) IN
         /\ Numbered(new)
         /\ \A k \in Link : new[k].state = ls[k].state /\ new[k].ready = (k = l \/ ls[k].ready)
<1> DEFINE new == Readied(ls, l)
           e(k) == IF k = l THEN [ls[k] EXCEPT !.ready = TRUE] ELSE ls[k]
<1>1. ls \in [Link -> LinkState]
  BY DEF Numbered
<1>2. ASSUME NEW k \in Link
      PROVE  /\ e(k) \in LinkState /\ e(k).state = ls[k].state
             /\ e(k).ready = (k = l \/ ls[k].ready)
             /\ e(k).last = ls[k].last /\ e(k).owed = ls[k].owed /\ e(k).pending = ls[k].pending
  <2>1. ls[k] \in LinkState
    BY <1>1
  <2> QED BY <2>1 DEF LinkState
<1>3. new = [k \in Link |-> e(k)]
  BY <1>1 DEF Readied
<1> HIDE DEF new, e
<1>4. \A k \in Link : new[k] = e(k)
  BY <1>3
<1>5. new \in [Link -> LinkState]
  BY <1>2, <1>3
<1>6. Numbered(new)
  BY <1>2, <1>4, <1>5, FewerSound
<1> QED BY <1>2, <1>4, <1>6 DEF new

LEMMA ClosesSound ==
  ASSUME NEW ls, Numbered(ls), NEW l
  PROVE  /\ Numbered(Closes(ls, l))
         /\ \A k \in Link : /\ Closes(ls, l)[k].ready = ls[k].ready
                            /\ Closes(ls, l)[k].state = "open" => ls[k].state = "open" /\ k # l
<1>1. CASE l = NoLink
  <2>1. \A k \in Link : k # NoLink
    BY DEF Link, NoLink
  <2> QED BY <1>1, <2>1 DEF Closes
<1>2. CASE l # NoLink
  <2> DEFINE new == [ls EXCEPT ![l].state = "closing"]
  <2>1. /\ Numbered(new)
        /\ \A k \in Link : /\ new[k].ready = ls[k].ready
                           /\ new[k].state = IF k = l THEN "closing" ELSE ls[k].state
    BY StateSound
  <2>2. Closes(ls, l) = new
    BY <1>2 DEF Closes
  <2> HIDE DEF new
  <2> QED BY <2>1, <2>2
<1> QED BY <1>1, <1>2

LEMMA GoesSound ==
  ASSUME Own(worker), NEW w \in Worker, NEW at \in WorkerAt
  PROVE  /\ Own(Goes(w, at))
         /\ Goes(w, at)[w].at = at
         /\ Goes(w, at)[w].link = IF at \in {"done", "raised", "cancelled"} THEN NoLink
                                  ELSE worker[w].link
         /\ \A v \in Worker : v # w => Goes(w, at)[v] = worker[v]
<1> DEFINE new == Goes(w, at)
           to == IF at \in {"done", "raised", "cancelled"} THEN NoLink ELSE worker[w].link
           e == [at |-> at, fut |-> "none", of |-> w, limit |-> FALSE, link |-> to]
<1>1. worker \in [Worker -> WorkerState] /\ worker[w] \in WorkerState
  BY DEF Own
<1>2. to \in Link \cup {NoLink}
  BY <1>1 DEF WorkerState
<1>3. e \in WorkerState
  BY <1>2 DEF WorkerState, Future
<1>4. new = [worker EXCEPT ![w] = e]
  BY DEF Goes
<1> HIDE DEF e
<1>5. new \in [Worker -> WorkerState] /\ new[w] = e /\ \A v \in Worker : v # w => new[v] = worker[v]
  BY <1>1, <1>3, <1>4
<1>6. e.at = at /\ e.link = to /\ e.fut = "none"
  BY DEF e
<1>7. Own(new)
  BY <1>5, <1>6 DEF Own
<1> QED BY <1>5, <1>6, <1>7

\* A worker is bound to another link.
Bound(ws, w, l) == [ws EXCEPT ![w].link = l]

LEMMA BoundSound ==
  ASSUME NEW ws, Own(ws), NEW w \in Worker, NEW l \in Link \cup {NoLink}
  PROVE  LET new == Bound(ws, w, l) IN
         /\ Own(new) /\ new[w].at = ws[w].at /\ new[w].link = l
         /\ \A v \in Worker : v # w => new[v] = ws[v]
<1> DEFINE new == Bound(ws, w, l)
           e == [ws[w] EXCEPT !.link = l]
<1>1. ws \in [Worker -> WorkerState] /\ ws[w] \in WorkerState
  BY DEF Own
<1>2. e \in WorkerState /\ e.at = ws[w].at /\ e.fut = ws[w].fut /\ e.of = ws[w].of /\ e.link = l
  BY <1>1 DEF WorkerState
<1>3. new = [ws EXCEPT ![w] = e]
  BY DEF Bound
<1> HIDE DEF new, e
<1>4. new \in [Worker -> WorkerState] /\ new[w] = e /\ \A v \in Worker : v # w => new[v] = ws[v]
  BY <1>1, <1>2, <1>3
<1>5. Own(new)
  BY <1>2, <1>4 DEF Own
<1> QED BY <1>2, <1>4, <1>5 DEF new

\* A request gets an outcome.
LEMMA ResolveSound ==
  ASSUME NEW ws, Own(ws), NEW w \in Worker, NEW fut \in Future, NEW of \in Worker \cup {"server"},
         fut \in {"result", "error", "unauthorized"} => of \in {w, "server"}
  PROVE  LET new == Resolve(ws, w, fut, of) IN
         /\ Own(new) /\ new[w].at = ws[w].at /\ new[w].link = ws[w].link
         /\ \A v \in Worker : v # w => new[v] = ws[v]
<1> DEFINE new == Resolve(ws, w, fut, of)
           e == IF ws[w].fut = "none" THEN [ws[w] EXCEPT !.fut = fut, !.of = of] ELSE ws[w]
<1>1. ws \in [Worker -> WorkerState] /\ ws[w] \in WorkerState
  BY DEF Own
<1>2. /\ e \in WorkerState /\ e.at = ws[w].at /\ e.link = ws[w].link
      /\ e.fut \in {"result", "error", "unauthorized"} => e.of \in {w, "server"}
  BY <1>1 DEF WorkerState, Own
<1>3. new = [ws EXCEPT ![w] = e]
  BY DEF Resolve
<1> HIDE DEF new, e
<1>4. new \in [Worker -> WorkerState] /\ new[w] = e /\ \A v \in Worker : v # w => new[v] = ws[v]
  BY <1>1, <1>2, <1>3
<1>5. Own(new)
  BY <1>2, <1>4 DEF Own
<1> QED BY <1>2, <1>4, <1>5 DEF new

-----------------------------------------------------------------------------
(* MCP servers: answers are their requesters' own.                         *)

SessionState == [status : {"loading", "connected", "needsAuth", "error"},
                 link : Link \cup {NoLink}, tools : BOOLEAN, taken : Link \cup {NoLink}]
McpShape ==
  /\ kind \in {"stdio", "http"} /\ manager \in {"open", "closing", "closed"}
  /\ session \in SessionState /\ store \subseteq {"client", "access", "refresh"}
  /\ opened \in 0 .. MaxLinks /\ lateLinks \subseteq Link /\ overlap \in BOOLEAN

McpInv == McpShape /\ Numbered(links) /\ Own(worker)

Others(w) == \A v \in Worker : v # w => worker'[v] = worker[v]

\* No link is opened, and none is less ready.
NoneOpened ==
  \A l \in Link : /\ links'[l].ready = links[l].ready
                  /\ links'[l].state = "open" => links[l].state = "open"

LEMMA ThenFacts ==
  ASSUME McpInv, NEW w \in Worker, NEW at \in {"list", "resources"}, Then(w, at)
  PROVE  /\ Numbered(links') /\ Own(worker') /\ NoneOpened /\ Others(w)
         /\ worker'[w].at = at /\ worker'[w].link = worker[w].link
<1> DEFINE ls == Popped(links, w)
<1>1. Numbered(ls) /\ Alike(ls, links)
  BY PoppedSound DEF McpInv
<1>2. links' = Asked(ls, worker[w].link, w)
  BY DEF Then
<1> HIDE DEF ls
<1>3. Numbered(links') /\ Alike(links', ls)
  BY <1>1, <1>2, AskedSound
<1>4. NoneOpened
  BY <1>1, <1>3 DEF Alike, NoneOpened
<1>5. worker' = Goes(w, at) /\ at \in WorkerAt /\ at \notin {"done", "raised", "cancelled"}
  BY DEF Then, WorkerAt, Connecting
<1> QED BY <1>3, <1>4, <1>5, GoesSound DEF Others, McpInv

LEMMA OpensFacts ==
  ASSUME McpInv, NEW w \in Worker, NEW at \in {"initialize", "again"}, Opens(w, at)
  PROVE  /\ Numbered(links') /\ Own(worker') /\ Others(w) /\ McpShape'
         /\ worker'[w].at = at /\ worker'[w].link = opened'
         /\ opened' \in Link /\ session'.link = opened' /\ session'.status = session.status
         /\ manager' = manager /\ overlap' = overlap
         /\ lateLinks' = IF manager = "open" THEN lateLinks ELSE lateLinks \cup {opened'}
         /\ \A l \in Link : links'[l].state = "open" => links[l].state = "open" \/ l = opened'
<1>1. opened' = opened + 1 /\ opened' \in Link /\ opened' \in 0 .. MaxLinks
  BY McpAssumption DEF Opens, McpInv, McpShape, Link
<1> DEFINE n == opened'
           ls == [links EXCEPT ![n].state = "open"]
<1>2. links' = Asked(ls, n, w)
  BY DEF Opens
<1>3. /\ Numbered(ls)
      /\ \A k \in Link : ls[k].state = IF k = n THEN "open" ELSE links[k].state
  <2> HIDE DEF n
  <2> QED BY StateSound DEF McpInv
<1> HIDE DEF ls
<1>4. Numbered(links') /\ Alike(links', ls)
  BY <1>2, <1>3, AskedSound
<1>5. \A l \in Link : links'[l].state = "open" => links[l].state = "open" \/ l = n
  BY <1>3, <1>4 DEF Alike
<1>6. worker' = [Goes(w, at) EXCEPT ![w].link = n] /\ at \in WorkerAt
  BY DEF Opens, WorkerAt, Connecting
<1>7. /\ Own(Goes(w, at)) /\ Goes(w, at)[w].at = at
      /\ \A v \in Worker : v # w => Goes(w, at)[v] = worker[v]
  BY <1>6, GoesSound DEF McpInv
<1>8. Own(worker') /\ worker'[w].at = at /\ worker'[w].link = n /\ Others(w)
  <2> DEFINE ws == Goes(w, at)
  <2>1. Own(ws) /\ ws[w].at = at /\ worker' = Bound(ws, w, n) /\ n \in Link \cup {NoLink}
    BY <1>1, <1>6, <1>7 DEF Bound
  <2>2. \A v \in Worker : v # w => ws[v] = worker[v]
    BY <1>7
  <2> HIDE DEF n, ws
  <2>3. /\ Own(worker') /\ worker'[w].at = ws[w].at /\ worker'[w].link = n
        /\ \A v \in Worker : v # w => worker'[v] = ws[v]
    BY <2>1, BoundSound
  <2> QED BY <2>1, <2>2, <2>3 DEF Others
<1>9. session' \in SessionState /\ session'.link = n /\ session'.status = session.status
  <2>1. session' = [session EXCEPT !.link = n] /\ session \in SessionState
    BY DEF Opens, McpInv, McpShape
  <2> HIDE DEF n
  <2> QED BY <1>1, <2>1 DEF SessionState, n
<1>10. /\ manager' = manager /\ overlap' = overlap /\ kind' = kind /\ store' = store
       /\ lateLinks' = IF manager = "open" THEN lateLinks ELSE lateLinks \cup {opened'}
  BY DEF Opens
<1>11. McpShape'
  BY <1>1, <1>9, <1>10 DEF McpShape, McpInv
<1> QED BY <1>1, <1>4, <1>5, <1>8, <1>9, <1>10, <1>11

\* The session's link is taken away and closed.
LEMMA ReleasesFacts ==
  ASSUME McpInv, NEW w \in Worker, NEW at \in {"closing", "reclosing"}, Releases(w, at)
  PROVE  /\ Numbered(links') /\ Own(worker') /\ Others(w) /\ worker'[w].at = at /\ NoneOpened
         /\ session' \in SessionState /\ session'.link = NoLink /\ session'.status = session.status
         /\ UNCHANGED <<kind, manager, opened, lateLinks>>
         /\ \A l \in Link : links'[l].state = "open" => l # session.link
<1> DEFINE ls == Popped(links, w)
<1>1. Numbered(ls) /\ Alike(ls, links)
  BY PoppedSound DEF McpInv
<1>2. links' = Closes(ls, session.link)
  BY DEF Releases
<1> HIDE DEF ls
<1>3. /\ Numbered(links')
      /\ \A k \in Link : /\ links'[k].ready = ls[k].ready
                         /\ links'[k].state = "open" => ls[k].state = "open" /\ k # session.link
  BY <1>1, <1>2, ClosesSound
<1>4. NoneOpened
  BY <1>1, <1>3 DEF Alike, NoneOpened
<1>5. worker' = [Goes(w, at) EXCEPT ![w].link = session.link] /\ at \in WorkerAt
  BY DEF Releases, WorkerAt, Connecting
<1>6. session \in SessionState /\ session.link \in Link \cup {NoLink}
  BY DEF McpInv, McpShape, SessionState
<1>7. /\ Own(Goes(w, at)) /\ Goes(w, at)[w].at = at
      /\ \A v \in Worker : v # w => Goes(w, at)[v] = worker[v]
  BY <1>5, GoesSound DEF McpInv
<1>8. Own(worker') /\ worker'[w].at = at /\ Others(w)
  <2> DEFINE ws == Goes(w, at)
             l == session.link
  <2>1. Own(ws) /\ ws[w].at = at /\ worker' = Bound(ws, w, l) /\ l \in Link \cup {NoLink}
    BY <1>5, <1>6, <1>7 DEF Bound
  <2>2. \A v \in Worker : v # w => ws[v] = worker[v]
    BY <1>7
  <2> HIDE DEF l, ws
  <2>3. /\ Own(worker') /\ worker'[w].at = ws[w].at
        /\ \A v \in Worker : v # w => worker'[v] = ws[v]
    BY <2>1, BoundSound
  <2> QED BY <2>1, <2>2, <2>3 DEF Others
<1>9. session' \in SessionState /\ session'.link = NoLink /\ session'.status = session.status
  BY <1>6 DEF Releases, SessionState
<1> QED BY <1>3, <1>4, <1>8, <1>9 DEF Releases

\* Connecting fails: start closes the link, authenticate raises.
LEMMA FailsFacts ==
  ASSUME McpInv, NEW w \in Worker, NEW status \in {"error", "needsAuth"}, Fails(w, status)
  PROVE  /\ Numbered(links') /\ Own(worker') /\ Others(w) /\ NoneOpened
         /\ worker'[w].at \in {"failing", "raised"}
         /\ session' \in SessionState
         /\ session'.status \in {session.status, status}
         /\ session'.link = NoLink \/ session'.link = session.link
         /\ \A l \in Link : links'[l].state = "open" /\ l = session.link => session'.link = l
<1> DEFINE ls == Popped(links, w)
<1>1. Numbered(ls) /\ Alike(ls, links)
  BY PoppedSound DEF McpInv
<1>2. session \in SessionState /\ session.link \in Link \cup {NoLink}
  BY DEF McpInv, McpShape, SessionState
<1>3. CASE w = Starter
  <2>1. links' = Closes(ls, session.link)
    BY <1>3 DEF Fails
  <2> HIDE DEF ls
  <2>2. /\ Numbered(links')
        /\ \A k \in Link : /\ links'[k].ready = ls[k].ready
                           /\ links'[k].state = "open" => ls[k].state = "open" /\ k # session.link
    BY <1>1, <2>1, ClosesSound
  <2>3. NoneOpened
    BY <1>1, <2>2 DEF Alike, NoneOpened
  <2>4. worker' = [Goes(w, "failing") EXCEPT ![w].link = session.link] /\ "failing" \in WorkerAt
    BY <1>3 DEF Fails, WorkerAt, Connecting
  <2>5. /\ Own(Goes(w, "failing")) /\ Goes(w, "failing")[w].at = "failing"
        /\ \A v \in Worker : v # w => Goes(w, "failing")[v] = worker[v]
    BY <2>4, GoesSound DEF McpInv
  <2>6. Own(worker') /\ worker'[w].at = "failing" /\ Others(w)
    <3> DEFINE ws == Goes(w, "failing")
               l == session.link
    <3>1. /\ Own(ws) /\ ws[w].at = "failing" /\ worker' = Bound(ws, w, l)
          /\ l \in Link \cup {NoLink}
      BY <1>2, <2>4, <2>5 DEF Bound
    <3>2. \A v \in Worker : v # w => ws[v] = worker[v]
      BY <2>5
    <3> HIDE DEF l, ws
    <3>3. /\ Own(worker') /\ worker'[w].at = ws[w].at
          /\ \A v \in Worker : v # w => worker'[v] = ws[v]
      BY <3>1, BoundSound
    <3> QED BY <3>1, <3>2, <3>3 DEF Others
  <2>7. session' \in SessionState /\ session'.link = NoLink /\ session'.status = status
    BY <1>2, <1>3 DEF Fails, SessionState
  <2> QED BY <2>2, <2>3, <2>6, <2>7
<1>4. CASE w # Starter
  <2>1. links' = ls /\ worker' = Goes(w, "raised") /\ session' = session
    BY <1>4 DEF Fails
  <2>2. NoneOpened
    BY <1>1, <2>1 DEF Alike, NoneOpened
  <2>3. Own(worker') /\ worker'[w].at = "raised" /\ Others(w)
    BY <2>1, GoesSound DEF McpInv, WorkerAt, Others
  <2> QED BY <1>1, <1>2, <2>1, <2>2, <2>3
<1> QED BY <1>3, <1>4

-----------------------------------------------------------------------------
(* MCP servers: at most one task connects, unless a login comes across it. *)

Busy(w) == worker[w].at \in Connecting
OnLink == {"initialize", "refresh", "again", "list", "resources"}
Between == {"opening", "closing", "reclosing"}

\* Logins begin when start() is over, and calls are not logins.
Began ==
  /\ \A c \in Tool : worker[c].at \in {"idle", "calling", "done"}
  /\ \A a \in Auth : worker[a].at # "idle" => worker[Starter].at = "done"

\* What holds as long as logins do not overlap: one task at most connects, and
\* none when the server is connected; the session's link is the one that this task
\* has opened, or none yet; every other open link was opened too late.
OpenKept == \A l \in Link : links[l].state = "open" => l \in lateLinks \/ l = session.link
LateKept == manager # "open" => session.link \in lateLinks \cup {NoLink}
Kept ==
  /\ \A v, w \in Worker : Busy(v) /\ Busy(w) => v = w
  /\ session.status = "connected" => /\ \A w \in Worker : ~Busy(w)
                                     /\ session.link # NoLink => links[session.link].ready
  /\ \A w \in Worker : /\ worker[w].at \in OnLink => session.link \in {worker[w].link, NoLink}
                       /\ worker[w].at \in Between => session.link = NoLink
  /\ OpenKept /\ LateKept

\* When no task but w connects.
LEMMA KeptAlone ==
  ASSUME NEW w \in Worker, \A v \in Worker : v # w => ~Busy(v), Others(w),
         session'.status = "connected" =>
           ~Busy(w)' /\ (session'.link # NoLink => links'[session'.link].ready),
         worker'[w].at \in OnLink => session'.link \in {worker'[w].link, NoLink},
         worker'[w].at \in Between => session'.link = NoLink,
         OpenKept', LateKept'
  PROVE  Kept'
<1>1. \A v \in Worker : v # w => ~(worker'[v].at \in Connecting)
  BY DEF Others, Busy
<1>2. OnLink \cup Between \subseteq Connecting
  BY DEF OnLink, Between, Connecting
<1> QED BY <1>1, <1>2 DEF Kept, Busy

\* When a task that does not connect moves, and the session stays.
LEMMA KeptElsewhere ==
  ASSUME Kept, NEW w \in Worker, Others(w), worker'[w].at \notin Connecting, NoneOpened,
         UNCHANGED <<session, manager, lateLinks>>, session.link \in Link \cup {NoLink}
  PROVE  Kept'
<1>1. OnLink \cup Between \subseteq Connecting
  BY DEF OnLink, Between, Connecting
<1>2. OpenKept' /\ LateKept'
  BY DEF Kept, OpenKept, LateKept, NoneOpened
<1>3. \A v \in Worker : Busy(v)' => v # w /\ worker'[v] = worker[v]
  BY DEF Busy, Others
<1>4. \A u, v \in Worker : Busy(u)' /\ Busy(v)' => u = v
  BY <1>3 DEF Kept, Busy
<1>5. session.status = "connected" => /\ \A v \in Worker : ~Busy(v)'
                                      /\ session.link # NoLink => links'[session.link].ready
  BY <1>3 DEF Kept, Busy, NoneOpened
<1>6. \A v \in Worker : /\ worker'[v].at \in OnLink => session.link \in {worker'[v].link, NoLink}
                        /\ worker'[v].at \in Between => session.link = NoLink
  BY <1>1, <1>3 DEF Kept, Busy
<1> QED BY <1>2, <1>4, <1>5, <1>6 DEF Kept, Busy

\* When nothing but the requests of workers and links changes.
LEMMA KeptQuiet ==
  ASSUME Kept, \A w \in Worker : worker'[w].at = worker[w].at /\ worker'[w].link = worker[w].link,
         NoneOpened, UNCHANGED <<session, manager, lateLinks>>, session.link \in Link \cup {NoLink}
  PROVE  Kept'
BY DEF Kept, OpenKept, LateKept, Busy, NoneOpened

LEMMA BeganStep ==
  ASSUME Began, NEW w \in {Starter} \cup Auth, Others(w), worker[w].at # "done",
         w \in Auth /\ worker[w].at = "idle" => worker[Starter].at = "done"
  PROVE  Began'
<1>1. w \notin Tool /\ Starter \notin Auth \cup Tool
  BY McpAssumption DEF Starter
<1>2. \A v \in Worker : v # w => worker'[v] = worker[v]
  BY DEF Others
<1>3. Tool \subseteq Worker /\ Auth \subseteq Worker /\ Starter \in Worker
  BY DEF Worker
<1>4. CASE w = Starter
  BY <1>1, <1>2, <1>3, <1>4 DEF Began
<1>5. CASE w \in Auth
  BY <1>1, <1>2, <1>3, <1>5 DEF Began
<1> QED BY <1>4, <1>5

LEMMA InitMcp == Init => McpInv /\ Began /\ Kept
<1> SUFFICES ASSUME Init PROVE McpInv /\ Began /\ Kept
  OBVIOUS
<1>1. /\ session = [status |-> "loading", link |-> NoLink, tools |-> FALSE, taken |-> NoLink]
      /\ \A l \in Link : links[l] = [state |-> "none", last |-> 0, pending |-> {},
                                     owed |-> {}, ready |-> FALSE]
      /\ links \in [Link -> LinkState]
  BY DEF Init, LinkState
<1>2. \A w \in Worker : worker[w] = [at |-> IF w = Starter THEN "opening" ELSE "idle",
                                     link |-> NoLink, fut |-> "none", of |-> w,
                                     limit |-> FALSE]
  BY DEF Init
<1>3. McpShape
  <2>1. session \in SessionState
    BY <1>1 DEF SessionState
  <2>2. opened \in 0 .. MaxLinks
    BY McpAssumption DEF Init
  <2>3. store \subseteq {"client", "access", "refresh"}
    BY DEF Init
  <2> QED BY <2>1, <2>2, <2>3 DEF Init, McpShape
<1>4. Numbered(links)
  BY <1>1 DEF Numbered
<1>5. worker \in [Worker -> WorkerState]
  BY DEF Init, WorkerState, WorkerAt, Connecting, Future
<1>6. Own(worker)
  BY <1>2, <1>5 DEF Own
<1>a. ASSUME NEW w \in Worker PROVE worker[w].at = IF w = Starter THEN "opening" ELSE "idle"
  <2> DEFINE at == IF w = Starter THEN "opening" ELSE "idle"
  <2>1. worker[w] = [at |-> at, link |-> NoLink, fut |-> "none", of |-> w, limit |-> FALSE]
    BY <1>2
  <2> HIDE DEF at
  <2>2. worker[w].at = at
    BY <2>1
  <2> QED BY <2>2 DEF at
<1>7. Began
  <2>1. Starter \notin Auth \cup Tool
    BY McpAssumption DEF Starter
  <2> QED BY <1>a, <2>1 DEF Began, Worker
<1>8. \A w \in Worker : Busy(w) => w = Starter
  BY <1>a DEF Busy, Connecting
<1>9. Kept
  BY <1>1, <1>2, <1>8, <1>3 DEF Kept, OpenKept, LateKept, OnLink, Between, McpShape, Init
<1> QED BY <1>3, <1>4, <1>6, <1>7, <1>9 DEF McpInv

LEMMA ConnectStep ==
  ASSUME McpInv, NEW w \in {Starter} \cup Auth,
         Connects(w) \/ Refreshed(w) \/ NotRefreshed(w)
  PROVE  /\ McpInv' /\ Others(w) /\ Busy(w) /\ overlap' = overlap
         /\ Kept => Kept'
<1>0. /\ w \in Worker /\ session \in SessionState /\ session.link \in Link \cup {NoLink}
      /\ \A l \in Link : l # NoLink
  BY DEF Worker, McpInv, McpShape, SessionState, Link, NoLink
<1>1. Busy(w)
  BY DEF Connects, FirstOpen, SecondOpen, Released, OpenFails, Initialized, Got, Refreshes,
         Refreshed, NotRefreshed, Unauthorized, Unconnected, Listed, IsConnected, FailureClosed,
         Busy, Connecting
<1>2. Kept => session.status # "connected" /\ \A v \in Worker : v # w => ~Busy(v)
  BY <1>0, <1>1 DEF Kept
<1>3. ASSUME NEW at \in {"initialize", "again"}, Opens(w, at), worker[w].at \in Between
      PROVE  McpInv' /\ Others(w) /\ overlap' = overlap /\ (Kept => Kept')
  <2>1. /\ Numbered(links') /\ Own(worker') /\ Others(w) /\ McpShape'
        /\ worker'[w].at = at /\ worker'[w].link = opened'
        /\ opened' \in Link /\ session'.link = opened' /\ session'.status = session.status
        /\ manager' = manager /\ overlap' = overlap
        /\ lateLinks' = IF manager = "open" THEN lateLinks ELSE lateLinks \cup {opened'}
        /\ \A l \in Link : links'[l].state = "open" => links[l].state = "open" \/ l = opened'
    BY <1>0, <1>3, OpensFacts
  <2>2. ASSUME Kept PROVE Kept'
    <3>1. session.link = NoLink
      BY <1>0, <1>3, <2>2 DEF Kept
    <3>2. OpenKept'
      BY <1>0, <2>1, <2>2, <3>1 DEF Kept, OpenKept
    <3>3. LateKept'
      BY <2>1 DEF LateKept
    <3> QED BY <1>0, <1>2, <2>1, <2>2, <3>2, <3>3, KeptAlone DEF Between
  <2> QED BY <2>1, <2>2 DEF McpInv
<1>4. ASSUME NEW at \in {"list", "resources"}, Then(w, at), worker[w].at \in OnLink,
             session' = session \/ session' = [session EXCEPT !.tools = TRUE]
      PROVE  McpInv' /\ Others(w) /\ overlap' = overlap /\ (Kept => Kept')
  <2>1. /\ Numbered(links') /\ Own(worker') /\ NoneOpened /\ Others(w)
        /\ worker'[w].at = at /\ worker'[w].link = worker[w].link
    BY <1>0, <1>4, ThenFacts
  <2>2. /\ UNCHANGED <<kind, manager, store, opened, lateLinks, overlap>>
        /\ session' \in SessionState /\ session'.link = session.link
        /\ session'.status = session.status
    BY <1>0, <1>4 DEF Then, SessionState
  <2>3. ASSUME Kept PROVE Kept'
    <3>1. session.link \in {worker[w].link, NoLink}
      BY <1>0, <1>4, <2>3 DEF Kept
    <3>2. OpenKept' /\ LateKept'
      BY <2>1, <2>2, <2>3 DEF Kept, OpenKept, LateKept, NoneOpened
    <3> QED BY <1>0, <1>2, <2>1, <2>2, <2>3, <3>1, <3>2, KeptAlone DEF Between
  <2> QED BY <2>1, <2>2, <2>3 DEF McpInv, McpShape
<1>5. ASSUME NEW status \in {"error", "needsAuth"}, Fails(w, status),
             UNCHANGED <<kind, manager, store, opened, lateLinks, overlap>>
      PROVE  McpInv' /\ Others(w) /\ overlap' = overlap /\ (Kept => Kept')
  <2>1. /\ Numbered(links') /\ Own(worker') /\ Others(w) /\ NoneOpened
        /\ worker'[w].at \in {"failing", "raised"}
        /\ session' \in SessionState
        /\ session'.status \in {session.status, status}
        /\ session'.link = NoLink \/ session'.link = session.link
        /\ \A l \in Link : links'[l].state = "open" /\ l = session.link => session'.link = l
    BY <1>0, <1>5, FailsFacts
  <2>2. ASSUME Kept PROVE Kept'
    <3>1. OpenKept'
      BY <1>5, <2>1, <2>2 DEF Kept, OpenKept, NoneOpened
    <3>2. LateKept'
      BY <1>5, <2>1, <2>2 DEF Kept, LateKept
    <3> QED BY <1>0, <1>2, <2>1, <2>2, <3>1, <3>2, KeptAlone DEF Between, OnLink
  <2> QED BY <1>5, <2>1, <2>2 DEF McpInv, McpShape
<1>6. CASE FirstOpen(w)
  BY <1>1, <1>3, <1>6 DEF FirstOpen, Released, Between
<1>7. CASE SecondOpen(w)
  BY <1>1, <1>3, <1>7 DEF SecondOpen, Released, Between
<1>8. CASE OpenFails(w) \/ NotRefreshed(w) \/ Unauthorized(w) \/ Unconnected(w)
  BY <1>1, <1>5, <1>8 DEF OpenFails, NotRefreshed, Unauthorized, Unconnected
<1>9. CASE Initialized(w)
  BY <1>1, <1>4, <1>9 DEF Initialized, Got, OnLink
<1>10. CASE Listed(w)
  BY <1>1, <1>4, <1>10 DEF Listed, Got, OnLink
<1>11. CASE Refreshes(w)
  <2>1. /\ worker' = Goes(w, "refresh") /\ links' = Popped(links, w) /\ worker[w].at \in OnLink
        /\ UNCHANGED <<kind, manager, session, store, opened, lateLinks, overlap>>
    BY <1>11 DEF Refreshes, Got, OnLink
  <2>2. "refresh" \in WorkerAt
    BY DEF WorkerAt, Connecting
  <2>3. /\ Own(worker') /\ worker'[w].at = "refresh" /\ worker'[w].link = worker[w].link
        /\ Others(w)
    BY <1>0, <2>1, <2>2, GoesSound DEF McpInv, Others
  <2>4. Numbered(links') /\ NoneOpened
    BY <2>1, PoppedSound DEF McpInv, Alike, NoneOpened
  <2>5. ASSUME Kept PROVE Kept'
    <3>1. session.link \in {worker[w].link, NoLink}
      BY <1>0, <2>1, <2>5 DEF Kept
    <3>2. OpenKept' /\ LateKept'
      BY <2>1, <2>4, <2>5 DEF Kept, OpenKept, LateKept, NoneOpened
    <3> QED BY <1>0, <1>2, <2>1, <2>3, <2>5, <3>1, <3>2, KeptAlone DEF Between
  <2> QED BY <1>1, <2>1, <2>3, <2>4, <2>5 DEF McpInv, McpShape
<1>12. CASE Refreshed(w)
  <2>1. /\ Releases(w, "reclosing") /\ overlap' = overlap
        /\ store' = store \cup {"access", "refresh"}
    BY <1>12 DEF Refreshed
  <2>2. /\ Numbered(links') /\ Own(worker') /\ Others(w) /\ worker'[w].at = "reclosing" /\ NoneOpened
        /\ session' \in SessionState /\ session'.link = NoLink /\ session'.status = session.status
        /\ UNCHANGED <<kind, manager, opened, lateLinks>>
        /\ \A l \in Link : links'[l].state = "open" => l # session.link
    BY <1>0, <2>1, ReleasesFacts
  <2>3. ASSUME Kept PROVE Kept'
    <3>1. OpenKept' /\ LateKept'
      BY <2>2, <2>3 DEF Kept, OpenKept, LateKept, NoneOpened
    <3> QED BY <1>0, <1>2, <2>2, <2>3, <3>1, KeptAlone DEF OnLink
  <2> QED BY <1>1, <2>1, <2>2, <2>3 DEF McpInv, McpShape
<1>13. CASE IsConnected(w)
  <2> DEFINE ls == Popped(links, w)
             k == worker[w].link
  <2>1. /\ worker[w].at = "resources" /\ worker' = Goes(w, "done")
        /\ session' = [session EXCEPT !.status = "connected"]
        /\ links' = [ls EXCEPT ![k].ready = TRUE]
        /\ UNCHANGED <<kind, manager, store, opened, lateLinks, overlap>>
    BY <1>13 DEF IsConnected, Got
  <2>2. "done" \in WorkerAt
    BY DEF WorkerAt
  <2>3. Own(worker') /\ worker'[w].at = "done" /\ Others(w)
    BY <1>0, <2>1, <2>2, GoesSound DEF McpInv, Others
  <2>4. Numbered(ls) /\ Alike(ls, links)
    BY PoppedSound DEF McpInv
  <2> HIDE DEF ls, k
  <2>5. /\ Numbered(links')
        /\ \A l \in Link : /\ links'[l].state = ls[l].state
                           /\ links'[l].ready = (l = k \/ ls[l].ready)
    <3>1. links' = Readied(ls, k)
      BY <2>1 DEF Readied
    <3> QED BY <2>4, <3>1, ReadySound
  <2>6. session' \in SessionState /\ session'.link = session.link
    BY <1>0, <2>1 DEF SessionState
  <2>7. ASSUME Kept PROVE Kept'
    <3>1. session.link \in {k, NoLink}
      BY <1>0, <2>1, <2>7 DEF Kept, OnLink, k
    <3>2. OpenKept' /\ LateKept'
      BY <2>1, <2>4, <2>5, <2>6, <2>7 DEF Kept, OpenKept, LateKept, Alike
    <3>3. ~Busy(w)'
      BY <2>3 DEF Busy, Connecting
    <3>4. session'.link # NoLink => links'[session'.link].ready
      BY <1>0, <2>5, <2>6, <3>1
    <3> QED BY <1>0, <1>2, <2>3, <2>7, <3>2, <3>3, <3>4, KeptAlone DEF Between, OnLink
  <2> QED BY <1>1, <2>1, <2>3, <2>5, <2>6, <2>7 DEF McpInv, McpShape
<1>14. CASE FailureClosed(w)
  <2>1. /\ worker' = Goes(w, "done") /\ links' = links
        /\ UNCHANGED <<kind, manager, session, store, opened, lateLinks, overlap>>
    BY <1>14 DEF FailureClosed
  <2>2. "done" \in WorkerAt /\ "done" \notin Connecting
    BY DEF WorkerAt, Connecting
  <2>3. Own(worker') /\ worker'[w].at = "done" /\ Others(w)
    BY <1>0, <2>1, <2>2, GoesSound DEF McpInv, Others
  <2>4. Kept => Kept'
    BY <1>0, <2>1, <2>2, <2>3, KeptElsewhere DEF NoneOpened
  <2> QED BY <1>1, <2>1, <2>3, <2>4 DEF McpInv, McpShape
<1> QED BY <1>1, <1>6, <1>7, <1>8, <1>9, <1>10, <1>11, <1>12, <1>13, <1>14 DEF Connects

-----------------------------------------------------------------------------
(* MCP servers: the other steps. *)

McpSafe == McpInv /\ Began /\ (~overlap => Kept)

\* A request gets its outcome, or a link its end.
LEMMA RequestStep ==
  ASSUME McpInv, Numbered(links'), Own(worker'), NoneOpened,
         \A w \in Worker : worker'[w].at = worker[w].at /\ worker'[w].link = worker[w].link,
         UNCHANGED <<kind, manager, session, store, opened, lateLinks, overlap>>
  PROVE  McpSafe => McpSafe'
<1>1. McpInv'
  BY DEF McpInv, McpShape
<1>2. Began => Began'
  <2>1. Tool \subseteq Worker /\ Auth \subseteq Worker /\ Starter \in Worker
    BY DEF Worker
  <2> QED BY <2>1 DEF Began
<1>3. session.link \in Link \cup {NoLink}
  BY DEF McpInv, McpShape, SessionState
<1>4. Kept => Kept'
  BY <1>3, KeptQuiet
<1> QED BY <1>1, <1>2, <1>4 DEF McpSafe

\* A worker other than those that connect moves, and no link is opened.
LEMMA ElsewhereStep ==
  ASSUME McpSafe, NEW w \in Worker, Numbered(links'), Own(worker'), NoneOpened, Others(w),
         worker'[w].at \notin Connecting, Began',
         UNCHANGED <<kind, manager, session, opened, lateLinks, overlap>>,
         store' \subseteq {"client", "access", "refresh"}
  PROVE  McpSafe'
<1>1. McpInv'
  BY DEF McpSafe, McpInv, McpShape
<1>2. session.link \in Link \cup {NoLink}
  BY DEF McpSafe, McpInv, McpShape, SessionState
<1>3. Kept => Kept'
  BY <1>2, KeptElsewhere
<1> QED BY <1>1, <1>3 DEF McpSafe

LEMMA AnswerStep ==
  ASSUME McpSafe, NEW l \in Link, NEW q \in links[l].owed,
         NEW fut \in {"result", "error", "unauthorized"}, Answer(l, q, fut)
  PROVE  McpSafe'
<1>1. Numbered(links) /\ Own(worker) /\ links[l] \in LinkState /\ q \in Ask
  BY DEF McpSafe, McpInv, Numbered, LinkState
<1>2. Numbered(links') /\ NoneOpened
  <2> DEFINE e(k) == IF k = l THEN [links[k] EXCEPT !.owed = @ \ {q}] ELSE links[k]
  <2>1. links \in [Link -> LinkState]
    BY <1>1 DEF Numbered
  <2>2. ASSUME NEW k \in Link
        PROVE  /\ e(k) \in LinkState /\ e(k).state = links[k].state /\ e(k).ready = links[k].ready
               /\ e(k).last = links[k].last /\ e(k).owed \subseteq links[k].owed
               /\ e(k).pending = links[k].pending
    <3>1. links[k] \in LinkState
      BY <2>1
    <3> QED BY <3>1 DEF LinkState
  <2>3. links' = [k \in Link |-> e(k)]
    BY <2>1 DEF Answer
  <2> HIDE DEF e
  <2>4. \A k \in Link : links'[k] = e(k)
    BY <2>3
  <2>5. links' \in [Link -> LinkState]
    BY <2>2, <2>3
  <2>6. Numbered(links')
    BY <1>1, <2>2, <2>4, <2>5, FewerSound
  <2> QED BY <2>2, <2>4, <2>6 DEF NoneOpened
<1>3. /\ Own(worker')
      /\ \A w \in Worker : worker'[w].at = worker[w].at /\ worker'[w].link = worker[w].link
  <2>1. CASE \E p \in links[l].pending : p.id = q.id
    <3> DEFINE p == CHOOSE p \in links[l].pending : p.id = q.id
    <3>1. p \in links[l].pending /\ p.id = q.id
      BY <2>1
    <3>2. p = q
      BY <1>1, <3>1 DEF Numbered
    <3>3. worker' = Resolve(worker, p.who, fut, q.who)
      BY <2>1 DEF Answer
    <3> HIDE DEF p
    <3>4. worker' = Resolve(worker, q.who, fut, q.who)
      BY <3>2, <3>3
    <3>5. q.who \in Worker /\ fut \in Future
      BY <1>1 DEF Ask, Future
    <3> QED BY <1>1, <3>4, <3>5, ResolveSound
  <2>2. CASE ~\E p \in links[l].pending : p.id = q.id
    BY <1>1, <2>2 DEF Answer
  <2> QED BY <2>1, <2>2
<1> QED BY <1>2, <1>3, RequestStep DEF Answer, McpSafe

LEMMA OutcomeStep ==
  ASSUME McpSafe,
         \/ \E l \in Link : \E q \in links[l].pending : ServerAsks(l, q)
         \/ \E w \in Worker : Timeout(w)
  PROVE  McpSafe'
<1>1. Own(worker) /\ Numbered(links)
  BY DEF McpSafe, McpInv
<1>2. PICK w \in Worker, fut \in Future, of \in Worker \cup {"server"} :
        /\ worker' = Resolve(worker, w, fut, of)
        /\ fut \in {"result", "error", "unauthorized"} => of = "server"
        /\ UNCHANGED <<kind, manager, session, links, store, opened, lateLinks, overlap>>
  <2>1. ASSUME NEW l \in Link, NEW q \in links[l].pending, ServerAsks(l, q)
        PROVE  \E w \in Worker, fut \in Future, of \in Worker \cup {"server"} :
                 /\ worker' = Resolve(worker, w, fut, of)
                 /\ fut \in {"result", "error", "unauthorized"} => of = "server"
                 /\ UNCHANGED <<kind, manager, session, links, store, opened, lateLinks, overlap>>
    <3>1. q.who \in Worker
      BY <1>1 DEF Numbered, LinkState, Ask
    <3>2. (IF q.who \in Tool THEN "result" ELSE "error") \in Future
      BY DEF Future
    <3> QED BY <2>1, <3>1, <3>2 DEF ServerAsks
  <2>2. ASSUME NEW w \in Worker, Timeout(w)
        PROVE  \E v \in Worker, fut \in Future, of \in Worker \cup {"server"} :
                 /\ worker' = Resolve(worker, v, fut, of)
                 /\ fut \in {"result", "error", "unauthorized"} => of = "server"
                 /\ UNCHANGED <<kind, manager, session, links, store, opened, lateLinks, overlap>>
    <3>1. "timeout" \in Future
      BY DEF Future
    <3> QED BY <2>2, <3>1 DEF Timeout
  <2> QED BY <2>1, <2>2
<1>3. /\ Own(worker')
      /\ \A v \in Worker : worker'[v].at = worker[v].at /\ worker'[v].link = worker[v].link
  <2> DEFINE new == Resolve(worker, w, fut, of)
  <2>1. fut \in {"result", "error", "unauthorized"} => of \in {w, "server"}
    BY <1>2
  <2>2. /\ Own(new) /\ new[w].at = worker[w].at /\ new[w].link = worker[w].link
        /\ \A v \in Worker : v # w => new[v] = worker[v]
    BY <1>1, <2>1, ResolveSound
  <2>3. worker' = new
    BY <1>2
  <2> HIDE DEF new
  <2> QED BY <2>2, <2>3
<1>4. NoneOpened
  BY <1>2 DEF NoneOpened
<1> QED BY <1>1, <1>2, <1>3, <1>4, RequestStep DEF McpSafe

LEMMA ClosedStep ==
  ASSUME McpSafe, NEW l \in Link, LinkClosed(l) PROVE McpSafe'
<1>1. Own(worker) /\ Numbered(links) /\ links \in [Link -> LinkState]
  BY DEF McpSafe, McpInv, Numbered
<1>2. Numbered(links') /\ NoneOpened
  <2> DEFINE e(k) == IF k = l THEN [links[k] EXCEPT !.state = "closed", !.pending = {}, !.owed = {}]
                     ELSE links[k]
  <2>1. ASSUME NEW k \in Link
        PROVE  /\ e(k) \in LinkState /\ e(k).ready = links[k].ready
               /\ e(k).state = "open" => links[k].state = "open"
               /\ e(k).last = links[k].last /\ e(k).owed \subseteq links[k].owed
               /\ e(k).pending \subseteq links[k].pending
    <3>1. links[k] \in LinkState
      BY <1>1
    <3> QED BY <3>1 DEF LinkState
  <2>2. links' = [k \in Link |-> e(k)]
    BY <1>1 DEF LinkClosed
  <2> HIDE DEF e
  <2>3. \A k \in Link : links'[k] = e(k)
    BY <2>2
  <2>4. links' \in [Link -> LinkState]
    BY <2>1, <2>2
  <2>5. Numbered(links')
    BY <1>1, <2>1, <2>3, <2>4, FewerSound
  <2> QED BY <2>1, <2>3, <2>5 DEF NoneOpened
<1>3. /\ Own(worker')
      /\ \A w \in Worker : worker'[w].at = worker[w].at /\ worker'[w].link = worker[w].link
  <2>1. "closed" \in Future
    BY DEF Future
  <2>2. ASSUME NEW w \in Worker
        PROVE  /\ Resolve(worker, w, "closed", w)[w] \in WorkerState
               /\ Resolve(worker, w, "closed", w)[w].at = worker[w].at
               /\ Resolve(worker, w, "closed", w)[w].link = worker[w].link
               /\ Resolve(worker, w, "closed", w)[w].fut \in {"result", "error", "unauthorized"}
                    => Resolve(worker, w, "closed", w)[w].of \in {w, "server"}
    <3> DEFINE new == Resolve(worker, w, "closed", w)
    <3>1. Own(new) /\ new[w].at = worker[w].at /\ new[w].link = worker[w].link
      BY <1>1, <2>1, ResolveSound
    <3> HIDE DEF new
    <3>2. new[w] \in WorkerState
      BY <3>1 DEF Own
    <3> QED BY <3>1, <3>2 DEF Own, new
  <2> DEFINE e(w) == IF \E q \in links[l].pending : q.who = w
                     THEN Resolve(worker, w, "closed", w)[w] ELSE worker[w]
  <2>3. worker' = [w \in Worker |-> e(w)]
    BY DEF LinkClosed
  <2>4. ASSUME NEW w \in Worker
        PROVE  /\ e(w) \in WorkerState /\ e(w).at = worker[w].at /\ e(w).link = worker[w].link
               /\ e(w).fut \in {"result", "error", "unauthorized"} => e(w).of \in {w, "server"}
    <3>1. worker[w] \in WorkerState
      BY <1>1 DEF Own
    <3> QED BY <1>1, <2>2, <3>1 DEF Own
  <2> HIDE DEF e
  <2>5. \A w \in Worker : worker'[w] = e(w)
    BY <2>3
  <2>6. worker' \in [Worker -> WorkerState]
    BY <2>3, <2>4
  <2> QED BY <2>4, <2>5, <2>6 DEF Own
<1> QED BY <1>2, <1>3, RequestStep DEF LinkClosed, McpSafe

LEMMA ManagerStep ==
  ASSUME McpSafe, CancelStart \/ CloseAll \/ AllClosed PROVE McpSafe'
<1>0. /\ Own(worker) /\ Numbered(links) /\ session \in SessionState
      /\ session.link \in Link \cup {NoLink} /\ Starter \in Worker
      /\ store \subseteq {"client", "access", "refresh"}
  BY DEF McpSafe, McpInv, McpShape, SessionState, Worker
<1>1. CASE CancelStart
  <2>1. /\ worker' = Goes(Starter, "cancelled") /\ links' = Popped(links, Starter)
        /\ worker[Starter].at \in Connecting
        /\ UNCHANGED <<kind, manager, session, store, opened, lateLinks, overlap>>
    BY <1>1 DEF CancelStart
  <2>2. "cancelled" \in WorkerAt /\ "cancelled" \notin Connecting /\ "done" \notin Connecting
    BY DEF WorkerAt, Connecting
  <2>3. Own(worker') /\ worker'[Starter].at = "cancelled" /\ Others(Starter)
    BY <1>0, <2>1, <2>2, GoesSound DEF Others
  <2>4. Numbered(links') /\ NoneOpened
    BY <1>0, <2>1, PoppedSound DEF Alike, NoneOpened
  <2>5. Began'
    <3>1. Starter \notin Auth
      BY McpAssumption DEF Starter
    <3> QED BY <2>1, <2>2, <2>3, <3>1, BeganStep DEF McpSafe
  <2> QED BY <1>0, <2>1, <2>2, <2>3, <2>4, <2>5, ElsewhereStep
<1>2. CASE CloseAll
  <2>1. /\ manager' = "closing" /\ links' = Closes(links, session.link)
        /\ session' = [session EXCEPT !.link = NoLink, !.taken = session.link]
        /\ UNCHANGED <<kind, worker, store, opened, lateLinks, overlap>>
    BY <1>2 DEF CloseAll
  <2>2. session' \in SessionState /\ session'.link = NoLink /\ session'.status = session.status
    BY <1>0, <2>1 DEF SessionState
  <2>3. /\ Numbered(links')
        /\ \A k \in Link : /\ links'[k].ready = links[k].ready
                           /\ links'[k].state = "open" => links[k].state = "open" /\ k # session.link
    BY <1>0, <2>1, ClosesSound
  <2>4. McpInv'
    BY <1>0, <2>1, <2>2, <2>3 DEF McpSafe, McpInv, McpShape
  <2>5. Began'
    BY <2>1 DEF McpSafe, Began
  <2>6. ASSUME Kept PROVE Kept'
    BY <2>1, <2>2, <2>3, <2>6 DEF Kept, OpenKept, LateKept, Busy
  <2> QED BY <2>1, <2>4, <2>5, <2>6 DEF McpSafe
<1>3. CASE AllClosed
  <2>1. /\ manager = "closing" /\ manager' = "closed"
        /\ UNCHANGED <<kind, session, links, worker, store, opened, lateLinks, overlap>>
    BY <1>3 DEF AllClosed
  <2>2. McpInv'
    BY <2>1 DEF McpSafe, McpInv, McpShape
  <2>3. Began' /\ (Kept => Kept')
    BY <2>1 DEF McpSafe, Began, Kept, OpenKept, LateKept, Busy
  <2> QED BY <2>1, <2>2, <2>3 DEF McpSafe
<1> QED BY <1>1, <1>2, <1>3

LEMMA LoginStep ==
  ASSUME McpSafe, NEW a \in Auth, Authenticate(a) \/ LogsIn(a) PROVE McpSafe'
<1>0. /\ Own(worker) /\ Numbered(links) /\ a \in Worker /\ session \in SessionState
      /\ session.link \in Link \cup {NoLink} /\ a # Starter
      /\ store \subseteq {"client", "access", "refresh"} /\ store \in SUBSET {"client", "access", "refresh"}
  BY McpAssumption DEF McpSafe, McpInv, McpShape, SessionState, Worker, Starter
<1>w. /\ Login \cup {"raised"} \subseteq WorkerAt
      /\ \A at \in Login \cup {"raised", "idle", "calling", "done"} : at \notin Connecting
      /\ "done" \notin Login \cup {"idle"} /\ "idle" \notin Login
  BY DEF Login, WorkerAt, Connecting
<1>1. ASSUME NEW at \in Login \cup {"raised"}, worker' = Goes(a, at), UNCHANGED links,
             worker[a].at \in Login \cup {"idle"}, worker[a].at = "idle" => worker[Starter].at = "done",
             UNCHANGED <<kind, manager, session, opened, lateLinks, overlap>>,
             store' \subseteq {"client", "access", "refresh"}
      PROVE  McpSafe'
  <2>1. Own(worker') /\ worker'[a].at = at /\ Others(a)
    BY <1>0, <1>1, <1>w, GoesSound DEF Others
  <2>2. Began'
    BY <1>0, <1>1, <1>w, <2>1, BeganStep DEF McpSafe
  <2>3. Numbered(links') /\ NoneOpened
    BY <1>0, <1>1 DEF NoneOpened
  <2> QED BY <1>0, <1>1, <1>w, <2>1, <2>2, <2>3, ElsewhereStep
<1>2. CASE Authenticate(a)
  <2>1. "discover" \in Login
    BY DEF Login
  <2> QED BY <1>0, <1>1, <1>2, <2>1 DEF Authenticate
<1>3. CASE Discovered(a) \/ RegisterAgain(a) \/ Registered(a) \/ CalledBack(a) \/ LoginFails(a)
  <2>1. {"discover", "register", "fallback", "browser", "exchange"} = Login
    BY DEF Login
  <2> QED BY <1>0, <1>1, <1>3, <1>w, <2>1
          DEF Discovered, RegisterAgain, Registered, CalledBack, LoginFails, Same
<1>4. CASE Exchanged(a)
  <2>1. /\ worker[a].at = "exchange" /\ Releases(a, "closing")
        /\ store' \subseteq {"client", "access", "refresh"}
        /\ overlap' = (overlap \/ session.status = "connected"
                       \/ \E b \in Auth \ {a} : worker[b].at \in Connecting)
    BY <1>0, <1>4 DEF Exchanged
  <2>2. /\ Numbered(links') /\ Own(worker') /\ Others(a) /\ worker'[a].at = "closing" /\ NoneOpened
        /\ session' \in SessionState /\ session'.link = NoLink /\ session'.status = session.status
        /\ UNCHANGED <<kind, manager, opened, lateLinks>>
        /\ \A l \in Link : links'[l].state = "open" => l # session.link
    BY <1>0, <2>1, ReleasesFacts DEF McpSafe
  <2>3. Began'
    BY <2>1, <2>2, BeganStep DEF McpSafe
  <2>4. McpInv'
    <3>1. overlap' \in BOOLEAN
      BY <2>1
    <3> QED BY <2>1, <2>2, <3>1 DEF McpSafe, McpInv, McpShape
  <2>5. ASSUME ~overlap' PROVE Kept'
    <3>1. /\ Kept /\ session.status # "connected"
          /\ \A b \in Auth \ {a} : worker[b].at \notin Connecting
      BY <2>1, <2>5 DEF McpSafe
    <3>2. worker[Starter].at = "done" /\ \A c \in Tool : worker[c].at \in {"idle", "calling", "done"}
      BY <2>1 DEF McpSafe, Began
    <3>3. \A v \in Worker : v # a => ~Busy(v)
      BY <1>w, <3>1, <3>2 DEF Worker, Busy
    <3>4. OpenKept' /\ LateKept'
      BY <2>2, <3>1 DEF Kept, OpenKept, LateKept, NoneOpened
    <3> QED BY <1>0, <2>2, <3>1, <3>3, <3>4, KeptAlone DEF OnLink
  <2> QED BY <2>3, <2>4, <2>5 DEF McpSafe
<1> QED BY <1>2, <1>3, <1>4 DEF LogsIn

\* The limit of a request begins.
LEMMA WrittenStep ==
  ASSUME McpSafe, NEW w \in Worker, Written(w) PROVE McpSafe'
<1> DEFINE e == [worker[w] EXCEPT !.limit = TRUE]
<1>1. Own(worker) /\ Numbered(links) /\ worker \in [Worker -> WorkerState] /\ worker[w] \in WorkerState
  BY DEF McpSafe, McpInv, Own
<1>2. /\ e \in WorkerState /\ e.at = worker[w].at /\ e.link = worker[w].link
      /\ e.fut = worker[w].fut /\ e.of = worker[w].of
  BY <1>1 DEF WorkerState
<1>3. /\ worker' = [worker EXCEPT ![w] = e]
      /\ UNCHANGED <<kind, manager, session, links, store, opened, lateLinks, overlap>>
  BY DEF Written
<1> HIDE DEF e
<1>4. /\ worker' \in [Worker -> WorkerState] /\ worker'[w] = e
      /\ \A v \in Worker : v # w => worker'[v] = worker[v]
  BY <1>1, <1>2, <1>3
<1>5. /\ Own(worker')
      /\ \A v \in Worker : worker'[v].at = worker[v].at /\ worker'[v].link = worker[v].link
  BY <1>1, <1>2, <1>4 DEF Own
<1>6. NoneOpened
  BY <1>3 DEF NoneOpened
<1> QED BY <1>1, <1>3, <1>5, <1>6, RequestStep DEF McpSafe

LEMMA CallStep ==
  ASSUME McpSafe, NEW c \in Tool, Returns(c) \/ \E reading \in BOOLEAN : Calls(c, reading)
  PROVE  McpSafe'
<1>0. /\ Own(worker) /\ Numbered(links) /\ c \in Worker
      /\ session.link \in Link \cup {NoLink} /\ c \notin Auth /\ c # Starter
      /\ store \subseteq {"client", "access", "refresh"}
  BY McpAssumption DEF McpSafe, McpInv, McpShape, SessionState, Worker, Starter
<1>w. /\ {"calling", "done"} \subseteq WorkerAt /\ "calling" \notin Connecting /\ "done" \notin Connecting
  BY DEF WorkerAt, Connecting
<1>1. ASSUME Numbered(links'), NoneOpened, Own(worker'), Others(c), worker'[c].at \in {"calling", "done"},
             UNCHANGED <<kind, manager, session, store, opened, lateLinks, overlap>>
      PROVE  McpSafe'
  <2>1. Began'
    <3>1. \A v \in Worker : v # c => worker'[v] = worker[v]
      BY <1>1 DEF Others
    <3>2. Tool \subseteq Worker /\ Auth \subseteq Worker /\ Starter \in Worker
      BY DEF Worker
    <3> QED BY <1>0, <1>1, <3>1, <3>2 DEF McpSafe, Began
  <2> QED BY <1>0, <1>1, <1>w, <2>1, ElsewhereStep
<1>2. CASE Returns(c)
  <2>1. /\ worker' = Goes(c, "done") /\ links' = Popped(links, c)
        /\ UNCHANGED <<kind, manager, session, store, opened, lateLinks, overlap>>
    BY <1>2 DEF Returns
  <2>2. Own(worker') /\ worker'[c].at = "done" /\ Others(c)
    BY <1>0, <1>w, <2>1, GoesSound DEF Others
  <2>3. Numbered(links') /\ NoneOpened
    BY <1>0, <2>1, PoppedSound DEF Alike, NoneOpened
  <2> QED BY <1>1, <2>1, <2>2, <2>3
<1>3. ASSUME NEW reading \in BOOLEAN, Calls(c, reading) PROVE McpSafe'
  <2>1. CASE links' = Asked(links, session.link, c)
             /\ worker' = [Goes(c, "calling") EXCEPT ![c].link = session.link]
    <3>1. Numbered(links') /\ NoneOpened
      BY <1>0, <2>1, AskedSound DEF Alike, NoneOpened
    <3> DEFINE ws == Goes(c, "calling")
               l == session.link
    <3>2. /\ Own(ws) /\ ws[c].at = "calling" /\ worker' = Bound(ws, c, l) /\ l \in Link \cup {NoLink}
          /\ \A v \in Worker : v # c => ws[v] = worker[v]
      BY <1>0, <1>w, <2>1, GoesSound DEF Bound
    <3> HIDE DEF l, ws
    <3>3. /\ Own(worker') /\ worker'[c].at = ws[c].at
          /\ \A v \in Worker : v # c => worker'[v] = ws[v]
      BY <1>0, <3>2, BoundSound
    <3>4. Others(c) /\ worker'[c].at = "calling"
      BY <3>2, <3>3 DEF Others
    <3> QED BY <1>1, <1>3, <3>1, <3>3, <3>4 DEF Calls
  <2>2. CASE worker' = Goes(c, "done") /\ links' = links
    <3>1. Own(worker') /\ worker'[c].at = "done" /\ Others(c)
      BY <1>0, <1>w, <2>2, GoesSound DEF Others
    <3>2. Numbered(links') /\ NoneOpened
      BY <1>0, <2>2 DEF NoneOpened
    <3> QED BY <1>1, <1>3, <3>1, <3>2 DEF Calls
  <2> QED BY <1>3, <2>1, <2>2 DEF Calls
<1> QED BY <1>2, <1>3

LEMMA NextMcp == McpSafe /\ [Next]_vars => McpSafe'
<1> SUFFICES ASSUME McpSafe, [Next]_vars PROVE McpSafe'
  OBVIOUS
<1>1. CASE UNCHANGED vars
  BY <1>1 DEF vars, McpSafe, McpInv, McpShape, Began, Kept, OpenKept, LateKept, Busy
<1>2. ASSUME NEW w \in {Starter} \cup Auth, Connects(w) \/ Refreshed(w) \/ NotRefreshed(w)
      PROVE  McpSafe'
  <2>1. McpInv' /\ Others(w) /\ Busy(w) /\ overlap' = overlap /\ (Kept => Kept')
    BY <1>2, ConnectStep DEF McpSafe
  <2>2. worker[w].at \notin {"done", "idle"}
    BY <2>1 DEF Busy, Connecting
  <2>3. Began'
    BY <2>1, <2>2, BeganStep DEF McpSafe
  <2> QED BY <2>1, <2>3 DEF McpSafe
<1> QED BY <1>1, <1>2, AnswerStep, OutcomeStep, WrittenStep, ClosedStep, ManagerStep, LoginStep, CallStep DEF Next

\* What the module's own type invariant says follows.
LEMMA McpTyped == McpInv => TypeOK
<1> SUFFICES ASSUME McpInv PROVE TypeOK
  OBVIOUS
<1>1. ASSUME NEW l \in Link
      PROVE  /\ links[l].state \in {"none", "open", "closing", "closed"}
             /\ \A q \in links[l].pending \cup links[l].owed :
                  q.id \in 1 .. links[l].last /\ q.who \in Worker
  <2>1. links[l] \in LinkState
    BY DEF McpInv, Numbered
  <2>2. ASSUME NEW q \in links[l].pending \cup links[l].owed
        PROVE  q.id \in 1 .. links[l].last /\ q.who \in Worker
    <3>1. q \in Ask /\ links[l].last \in Nat
      BY <2>1 DEF LinkState
    <3>2. q.id \in Nat \ {0} /\ q.who \in Worker
      BY <3>1 DEF Ask
    <3>3. q.id <= links[l].last
      BY DEF McpInv, Numbered
    <3> QED BY <3>1, <3>2, <3>3
  <2> QED BY <2>1, <2>2 DEF LinkState
<1>2. ASSUME NEW w \in Worker
      PROVE  /\ worker[w].at \in Connecting \cup Login \cup {"idle", "calling", "done", "raised", "cancelled"}
             /\ worker[w].link \in Link \cup {NoLink}
             /\ worker[w].fut \in {"none", "result", "error", "unauthorized", "closed", "timeout"}
             /\ worker[w].limit \in BOOLEAN
  <2>1. worker[w] \in WorkerState
    BY DEF McpInv, Own
  <2> QED BY <2>1 DEF WorkerState, WorkerAt, Future
<1> QED BY <1>1, <1>2 DEF TypeOK, McpInv, McpShape, SessionState

\* However many answers are late, lost or overtaken: numbers are never given twice
\* on a link, so that an answer resolves the request it was made for.
THEOREM AnswersAreOwnCorrect == Spec => []AnswersAreOwn
<1>1. Init => McpSafe
  BY InitMcp DEF McpSafe
<1>2. McpSafe => AnswersAreOwn
  BY McpTyped DEF McpSafe, McpInv, Own, AnswersAreOwn
<1> QED BY <1>1, <1>2, NextMcp, PTL DEF Spec

\* Unless a login comes across another connection, the link of a connected session
\* is initialized, and a closed manager leaves none open but what was opened late.
THEOREM LinksAreKeptCorrect == Spec => []LinksAreKept
<1>1. Init => McpSafe
  BY InitMcp DEF McpSafe
<1>2. McpSafe => LinksAreKept
  <2>1. \A l \in Link : l # NoLink
    BY DEF Link, NoLink
  <2> QED BY <2>1 DEF McpSafe, Kept, OpenKept, LateKept, LinksAreKept
<1> QED BY <1>1, <1>2, NextMcp, PTL DEF Spec

-----------------------------------------------------------------------------
(* The connection of a run: one transport of it.                           *)

LastFrame == Connect!End
WireState == [task : {"none", "connecting", "streaming", "over"}, started : BOOLEAN,
              err : {"none", "fallback", "fatal"}, pieces : 0 .. 2 * LastFrame,
              queue : Seq(0 .. LastFrame), out : Seq(Nat)]
Phase == {"new", "deciding", "h1", "h2", "on h1", "on h2", "closing h1", "closing h2",
          "closed", "raised"}
InUse(t) == IF t = "h1" THEN "on h1" ELSE "on h2"
ClosingOf(t) == IF t = "h1" THEN "closing h1" ELSE "closing h2"
Shut == {"closing h1", "closing h2", "closed"}

\* The messages up to a number, in order, and what ends them.
Ordered(s, over, n) ==
  /\ s \in Seq(0 .. LastFrame) /\ n \in 0 .. LastFrame
  /\ ~over => n < LastFrame /\ Len(s) = n /\ \A i \in 1 .. n : s[i] = i
  /\ over => /\ Len(s) # 0 /\ s[Len(s)] \in Connect!Closing
             /\ Len(s) - 1 = (IF n = LastFrame THEN Messages ELSE n)
             /\ \A i \in 1 .. Len(s) - 1 : s[i] = i

\* What the consumer has, or will have, seen of a transport.
Seen(ph, t, q, g) == IF ph = InUse(t) THEN g \o q ELSE q

\* A transport is as far as the run is with it: untouched before its turn,
\* out of work after it, unless its start took too long.
WireOk(ph, r, t, w, g, late) ==
  /\ (ph \in {"new", "deciding"} \/ (ph = "h2" /\ t = "h1")) => w = Connect!Other
  /\ w.err # "none" => w.task = "over"
  /\ w.task \in {"connecting", "streaming"} /\ <<r, t>> \notin late => ph \in {t, InUse(t), ClosingOf(t)}
  /\ ph \notin {"on h1", "on h2"} \cup Shut => g = <<>>
  /\ ph \notin Shut =>
       Ordered(Seen(ph, t, w.queue, g), w.task = "over", Connect!Complete(w.pieces))

\* The numbers below n are each used once: for a message under way, one that
\* waits in the body of the request, or one that arrived.
NumbersOk(r, n, fl, ar, o) ==
  /\ \A i \in DOMAIN ar : ar[i][1] < n /\ ar[i][2] = ar[i][1] + 1
  /\ \A i, j \in DOMAIN ar : i # j => ar[i][1] # ar[j][1]
  /\ \A q \in fl : q.run = r =>
       /\ q.seq < n /\ q.msg = q.seq + 1
       /\ \A p \in fl : p.run = r /\ p.seq = q.seq => p = q
       /\ \A i \in DOMAIN ar : ar[i][1] # q.seq
       /\ \A i \in DOMAIN o : o[i] # q.seq + 1
  /\ \A i \in DOMAIN o : o[i] \in 1 .. n /\ \A j \in DOMAIN ar : ar[j][1] + 1 # o[i]
  /\ \A i, j \in DOMAIN o : i # j => o[i] # o[j]

ConnectShape ==
  /\ failed \in BOOLEAN /\ config \in {"unset", "none", "h1", "h2"}
  /\ phase \in [Run -> Phase] /\ link \in [Run -> [Connect!Transport -> WireState]]
  /\ next \in [Run -> 0 .. Sends]
  /\ flying \subseteq [run : Run, seq : 0 .. Sends, msg : Nat, again : BOOLEAN]
  /\ arrived \in [Run -> Seq(Nat \X Nat)] /\ got \in [Run -> Seq(0 .. LastFrame)]
WiresOk == \A r \in Run, t \in Connect!Transport :
  WireOk(phase[r], r, t, link[r][t], got[r], timedOut)
AllNumbersOk == \A r \in Run :
  NumbersOk(r, next[r], flying, arrived[r], link[r]["h2"].out)
ConnectInv == ConnectShape /\ WiresOk /\ AllNumbersOk

LEMMA FramesAreNat == Messages \in Nat /\ LastFrame \in Nat \ {0} /\ LastFrame = Messages + 1
BY ConnectAssumption DEF LastFrame, Connect!End

\* The end, or an error, after the messages that came.
LEMMA OrderedEnds ==
  ASSUME NEW s, NEW n, Ordered(s, FALSE, n), NEW c \in Connect!Closing
  PROVE  Ordered(Append(s, c), TRUE, n)
<1>1. s \in Seq(0 .. LastFrame) /\ n \in 0 .. LastFrame /\ n # LastFrame /\ Len(s) = n
  BY FramesAreNat DEF Ordered
<1>2. c \in 0 .. LastFrame
  BY FramesAreNat DEF Connect!Closing, Connect!Ended, Connect!Error, LastFrame
<1>3. /\ Append(s, c) \in Seq(0 .. LastFrame) /\ Len(Append(s, c)) = n + 1
      /\ Append(s, c)[n + 1] = c /\ \A i \in 1 .. n : Append(s, c)[i] = s[i]
  BY <1>1, <1>2, AppendProperties, FramesAreNat
<1>4. n + 1 - 1 = n /\ n + 1 # 0
  BY <1>1, FramesAreNat
<1> QED BY <1>1, <1>3, <1>4 DEF Ordered

\* A function from an interval is a sequence.
LEMMA Counted ==
  ASSUME NEW S, NEW n \in Nat, NEW f, f \in [1 .. n -> S]
  PROVE  f \in Seq(S) /\ Len(f) = n /\ \A i \in 1 .. n : f[i] \in S
OBVIOUS

\* The frames after a, up to b; the last one is an end.
Frames(x, a, b, c) ==
  /\ x \in Seq(0 .. LastFrame) /\ Len(x) = b - a
  /\ \A i \in 1 .. b - a : x[i] = IF a + i = LastFrame THEN c ELSE a + i

LEMMA Joined ==
  ASSUME NEW a \in Nat, NEW b \in Nat, a < LastFrame, a <= b, NEW c, NEW s, NEW x,
         Frames(s, 0, a, c), Frames(x, a, b, c)
  PROVE  Frames(s \o x, 0, b, c)
<1>1. /\ s \in Seq(0 .. LastFrame) /\ Len(s) = a
      /\ x \in Seq(0 .. LastFrame) /\ Len(x) = b - a
  BY DEF Frames
<1>2. s \o x \in Seq(0 .. LastFrame)
  BY <1>1, ConcatProperties
<1>3. Len(s \o x) = Len(s) + Len(x)
  BY <1>1, ConcatProperties
<1>4. \A i \in 1 .. b : (s \o x)[i] = IF i <= a THEN s[i] ELSE x[i - a]
  BY <1>1, ConcatProperties
<1>5. ASSUME NEW i \in 1 .. b PROVE (s \o x)[i] = IF 0 + i = LastFrame THEN c ELSE 0 + i
  <2>1. CASE i <= a
    <3>1. i \in 1 .. a - 0 /\ i # LastFrame /\ 0 + i = i
      BY <2>1, FramesAreNat
    <3>2. s[i] = i
      BY <3>1 DEF Frames
    <3> QED BY <2>1, <3>1, <3>2, <1>4
  <2>2. CASE ~(i <= a)
    <3>1. i - a \in 1 .. b - a /\ a + (i - a) = i /\ 0 + i = i
      BY <2>2
    <3>2. x[i - a] = IF i = LastFrame THEN c ELSE i
      BY <3>1 DEF Frames
    <3> QED BY <2>2, <3>1, <3>2, <1>4
  <2> QED BY <2>1, <2>2
<1>6. Len(s \o x) = b - 0 /\ b - 0 = b
  BY <1>1, <1>3
<1> QED BY <1>2, <1>5, <1>6 DEF Frames

\* What a chunk completes.
LEMMA PoppedFrames ==
  ASSUME NEW p \in 0 .. 2 * LastFrame, NEW n \in 1 .. 2 * LastFrame, p + n <= 2 * LastFrame,
         NEW c \in Connect!Closing
  PROVE  Frames(Connect!Popped(p, p + n, c), Connect!Complete(p), Connect!Complete(p + n), c)
<1> DEFINE new == Connect!Popped(p, p + n, c)
           a == Connect!Complete(p)
           b == Connect!Complete(p + n)
<1>1. a \in Nat /\ b \in Nat /\ a <= b /\ b <= LastFrame
  BY FramesAreNat DEF Connect!Complete
<1>2. c \in 0 .. LastFrame
  BY FramesAreNat DEF Connect!Closing, Connect!Ended, Connect!Error, LastFrame
<1>3. new = [i \in 1 .. b - a |-> IF a + i = LastFrame THEN c ELSE a + i]
  BY DEF Connect!Popped, LastFrame
<1> HIDE DEF new, a, b
<1>4. \A i \in 1 .. b - a : (IF a + i = LastFrame THEN c ELSE a + i) \in 0 .. LastFrame
  BY <1>1, <1>2, FramesAreNat
<1>5. b - a \in Nat
  BY <1>1
<1>6. new \in [1 .. b - a -> 0 .. LastFrame]
  BY <1>3, <1>4
<1>7. new \in Seq(0 .. LastFrame) /\ Len(new) = b - a
  BY <1>5, <1>6, Counted
<1>8. Frames(new, a, b, c)
  BY <1>3, <1>7 DEF Frames
<1> QED BY <1>8 DEF new, a, b

\* A chunk brings the frames that are whole with it, and the end after the last.
LEMMA OrderedChunk ==
  ASSUME NEW s, NEW p \in 0 .. 2 * LastFrame, Ordered(s, FALSE, Connect!Complete(p)),
         NEW n \in 1 .. 2 * LastFrame, p + n <= 2 * LastFrame, NEW c \in Connect!Closing
  PROVE  LET new == Connect!Popped(p, p + n, c) IN
         /\ new \in Seq(0 .. LastFrame)
         /\ Ordered(s \o new, p + n = 2 * LastFrame, Connect!Complete(p + n))
<1> DEFINE new == Connect!Popped(p, p + n, c)
           a == Connect!Complete(p)
           b == Connect!Complete(p + n)
<1>1. /\ a \in Nat /\ b \in Nat /\ a <= b /\ a < LastFrame /\ b <= LastFrame
      /\ p + n = 2 * LastFrame <=> b = LastFrame
  BY FramesAreNat DEF Ordered, Connect!Complete
<1>4. s \in Seq(0 .. LastFrame) /\ Len(s) = a /\ \A i \in 1 .. a : s[i] = i
  BY DEF Ordered
<1>5. Frames(new, a, b, c)
  BY PoppedFrames
<1> HIDE DEF new, a, b
<1>6. Frames(s, 0, a, c)
  <2>1. a - 0 = a /\ \A i \in 1 .. a : 0 + i = i /\ i # LastFrame
    BY <1>1, FramesAreNat
  <2> QED BY <1>4, <2>1 DEF Frames
<1> DEFINE all == s \o new
<1>7. Frames(all, 0, b, c)
  BY <1>1, <1>5, <1>6, Joined
<1> HIDE DEF all
<1>8. /\ all \in Seq(0 .. LastFrame) /\ Len(all) = b /\ b \in 0 .. LastFrame
      /\ \A i \in 1 .. b : all[i] = IF i = LastFrame THEN c ELSE i
  <2>1. b - 0 = b /\ b \in 0 .. LastFrame /\ \A i \in 1 .. b : 0 + i = i
    BY <1>1, FramesAreNat
  <2> QED BY <1>7, <2>1 DEF Frames
<1>9. Ordered(all, b = LastFrame, b)
  <2>1. CASE b = LastFrame
    <3>1. b - 1 = Messages /\ b # 0 /\ b \in 1 .. b
      BY <2>1, FramesAreNat
    <3>2. all[b] = c
      BY <1>8, <2>1, <3>1
    <3>3. ASSUME NEW i \in 1 .. b - 1 PROVE all[i] = i
      <4>1. i \in 1 .. b /\ i # LastFrame
        BY <2>1, FramesAreNat
      <4> QED BY <4>1, <1>8
    <3> QED BY <1>8, <2>1, <3>1, <3>2, <3>3 DEF Ordered
  <2>2. CASE b # LastFrame
    <3>1. b < LastFrame /\ \A i \in 1 .. b : all[i] = i
      BY <1>1, <1>8, <2>2, FramesAreNat
    <3> QED BY <1>8, <2>2, <3>1 DEF Ordered
  <2> QED BY <2>1, <2>2
<1>10. (p + n = 2 * LastFrame) = (b = LastFrame)
  BY <1>1
<1>11. new \in Seq(0 .. LastFrame)
  BY <1>5 DEF Frames
<1> QED BY <1>9, <1>10, <1>11 DEF all, new, b

\* A step of one run.
LEMMA OneRun ==
  ASSUME ConnectInv, NEW r \in Run,
         \A x \in Run : x # r =>
           /\ link'[x] = link[x] /\ phase'[x] = phase[x] /\ got'[x] = got[x]
           /\ \A t \in Connect!Transport : <<x, t>> \in timedOut' <=> <<x, t>> \in timedOut,
         \A t \in Connect!Transport :
           WireOk(phase'[r], r, t, link'[r][t], got'[r], timedOut')
  PROVE  WiresOk'
<1> SUFFICES ASSUME NEW x \in Run, NEW t \in Connect!Transport
             PROVE  WireOk(phase'[x], x, t, link'[x][t], got'[x], timedOut')
  BY DEF WiresOk
<1>1. CASE x # r
  <2>1. WireOk(phase[x], x, t, link[x][t], got[x], timedOut)
    BY DEF ConnectInv, WiresOk
  <2>2. /\ link'[x][t] = link[x][t] /\ phase'[x] = phase[x] /\ got'[x] = got[x]
        /\ <<x, t>> \in timedOut' <=> <<x, t>> \in timedOut
    BY <1>1
  <2> QED BY <2>1, <2>2 DEF WireOk
<1> QED BY <1>1

\* A step that sends nothing.
LEMMA NothingSent ==
  ASSUME ConnectInv, UNCHANGED <<next, flying, arrived>>,
         \A r \in Run : link'[r]["h2"].out = link[r]["h2"].out
  PROVE  AllNumbersOk'
BY DEF ConnectInv, AllNumbersOk

\* A transport of a run has changed, and no other one.
WirePut(r, t, e) ==
  /\ link' \in [Run -> [Connect!Transport -> WireState]]
  /\ link'[r][t] = e
  /\ \A u \in Connect!Transport : u # t => link'[r][u] = link[r][u]
  /\ \A x \in Run : x # r => link'[x] = link[x]
Late(r, t) == timedOut' = timedOut \/ timedOut' = timedOut \cup {<<r, t>>}

LEMMA ShapeKept ==
  ASSUME ConnectInv, UNCHANGED <<next, flying, arrived, got>>, failed' \in BOOLEAN,
         config' \in {"unset", "none", "h1", "h2"}, phase' \in [Run -> Phase],
         link' \in [Run -> [Connect!Transport -> WireState]]
  PROVE  ConnectShape'
BY DEF ConnectInv, ConnectShape

\* A step of the task of a transport.
LEMMA WireStep ==
  ASSUME ConnectInv, NEW r \in Run, NEW t \in Connect!Transport, NEW e \in WireState,
         WirePut(r, t, e), e.out = link[r][t].out,
         UNCHANGED <<failed, config, phase, next, flying, arrived, got, timedOut>>,
         WireOk(phase[r], r, t, e, got[r], timedOut)
  PROVE  ConnectInv'
<1>1. ConnectShape'
  BY ShapeKept DEF ConnectInv, ConnectShape, WirePut
<1>2. WiresOk'
  <2>1. ASSUME NEW u \in Connect!Transport
        PROVE  WireOk(phase'[r], r, u, link'[r][u], got'[r], timedOut')
    <3>1. CASE u = t
      BY <3>1 DEF WirePut
    <3>2. CASE u # t
      BY <3>2 DEF WirePut, ConnectInv, WiresOk
    <3> QED BY <3>1, <3>2
  <2> QED BY <2>1, OneRun DEF WirePut
<1>3. AllNumbersOk'
  <2>1. ASSUME NEW x \in Run PROVE link'[x]["h2"].out = link[x]["h2"].out
    <3>1. "h2" \in Connect!Transport
      BY DEF Connect!Transport
    <3> QED BY <3>1 DEF WirePut
  <2> QED BY <2>1, NothingSent
<1> QED BY <1>1, <1>2, <1>3 DEF ConnectInv

\* A step of open_run or aclose that leaves the transports as they are.
LEMMA PhaseStep ==
  ASSUME ConnectInv, NEW r \in Run, NEW t \in Connect!Transport, NEW ph \in Phase,
         phase' = [phase EXCEPT ![r] = ph], Late(r, t), failed' \in BOOLEAN,
         UNCHANGED <<config, link, next, flying, arrived, got>>,
         \A u \in Connect!Transport : WireOk(ph, r, u, link[r][u], got[r], timedOut')
  PROVE  ConnectInv'
<1>0. phase \in [Run -> Phase] /\ link \in [Run -> [Connect!Transport -> WireState]]
  BY DEF ConnectInv, ConnectShape
<1>1. ConnectShape'
  BY <1>0, ShapeKept DEF ConnectInv, ConnectShape
<1>2. WiresOk'
  <2>1. phase'[r] = ph /\ \A x \in Run : x # r => phase'[x] = phase[x]
    BY <1>0
  <2>2. \A x \in Run, u \in Connect!Transport :
          x # r => (<<x, u>> \in timedOut' <=> <<x, u>> \in timedOut)
    BY DEF Late
  <2> QED BY <2>1, <2>2, OneRun
<1>3. AllNumbersOk'
  BY NothingSent
<1> QED BY <1>1, <1>2, <1>3 DEF ConnectInv

\* A transport is begun: the first of the run, or HTTP/1 after HTTP/2.
LEMMA StartsStep ==
  ASSUME ConnectInv, NEW r \in Run, NEW t \in Connect!Transport, Connect!Starts(r, t),
         \/ phase[r] \in {"new", "deciding"} /\ timedOut' = timedOut
         \/ /\ phase[r] = "h2" /\ t = "h1" /\ Late(r, "h2")
            /\ link[r]["h2"].task = "over" \/ <<r, "h2">> \in timedOut',
         failed' \in BOOLEAN, config' \in {"unset", "none", "h1", "h2"},
         UNCHANGED <<next, flying, arrived, got>>
  PROVE  ConnectInv'
<1> DEFINE e == [link[r][t] EXCEPT !.task = "connecting"]
<1>0. /\ phase \in [Run -> Phase] /\ link \in [Run -> [Connect!Transport -> WireState]]
      /\ link[r][t] \in WireState
  BY DEF ConnectInv, ConnectShape
<1>1. /\ e \in WireState /\ e.task = "connecting" /\ e.queue = link[r][t].queue
      /\ e.err = link[r][t].err /\ e.pieces = link[r][t].pieces /\ e.out = link[r][t].out
  BY <1>0 DEF WireState
<1>2. WirePut(r, t, e)
  BY <1>0, <1>1 DEF WirePut, Connect!Starts
<1> HIDE DEF e
<1>3. phase'[r] = t /\ phase' \in [Run -> Phase] /\ \A x \in Run : x # r => phase'[x] = phase[x]
  BY <1>0 DEF Connect!Starts, Phase, Connect!Transport
<1>4. ConnectShape'
  BY <1>2, <1>3, ShapeKept DEF WirePut
<1>5. link[r][t] = Connect!Other
  BY DEF ConnectInv, WiresOk, WireOk
<1>6. WireOk(t, r, t, e, got[r], timedOut')
  <2>1. WireOk(phase[r], r, t, link[r][t], got[r], timedOut)
    BY DEF ConnectInv, WiresOk
  <2>2. got[r] = <<>>
    BY <2>1 DEF WireOk, Shut
  <2>3. phase[r] # InUse(t) /\ t # InUse(t) /\ phase[r] \notin Shut
    BY DEF InUse, Connect!Transport, Shut
  <2>4. Ordered(link[r][t].queue, FALSE, Connect!Complete(link[r][t].pieces))
    <3>1. link[r][t].task = "none"
      BY <1>5 DEF Connect!Other
    <3>2. (link[r][t].task = "over") = FALSE
      BY <3>1
    <3>3. Ordered(Seen(phase[r], t, link[r][t].queue, got[r]), link[r][t].task = "over",
                  Connect!Complete(link[r][t].pieces))
      BY <2>1, <2>3 DEF WireOk
    <3>4. Seen(phase[r], t, link[r][t].queue, got[r]) = link[r][t].queue
      BY <2>3 DEF Seen
    <3> QED BY <3>2, <3>3, <3>4
  <2>5. t \notin {"new", "deciding"} /\ ~(t = "h2" /\ t = "h1") /\ e.err = "none"
    BY <1>1, <1>5 DEF Connect!Transport, Connect!Other
  <2>6. Ordered(Seen(t, t, e.queue, got[r]), e.task = "over", Connect!Complete(e.pieces))
    <3>1. (e.task = "over") = FALSE /\ Seen(t, t, e.queue, got[r]) = link[r][t].queue
      BY <1>1, <2>3 DEF Seen
    <3> QED BY <1>1, <2>4, <3>1
  <2> QED BY <2>2, <2>5, <2>6 DEF WireOk
<1>7. ASSUME NEW u \in Connect!Transport, u # t
      PROVE  WireOk(t, r, u, link[r][u], got[r], timedOut')
  <2>1. WireOk(phase[r], r, u, link[r][u], got[r], timedOut)
    BY DEF ConnectInv, WiresOk
  <2>2. got[r] = <<>> /\ phase[r] # InUse(u) /\ t # InUse(u) /\ phase[r] \notin Shut
    BY <2>1 DEF WireOk, Shut, InUse, Connect!Transport
  <2>3. Ordered(Seen(t, u, link[r][u].queue, got[r]), link[r][u].task = "over",
                Connect!Complete(link[r][u].pieces))
    BY <2>1, <2>2 DEF WireOk, Seen
  <2>4. t \notin {"new", "deciding"} /\ ~(t = "h2" /\ u = "h1" /\ link[r][u] # Connect!Other)
    BY <2>1 DEF WireOk, Connect!Transport
  <2>5. link[r][u].task \in {"connecting", "streaming"} => <<r, u>> \in timedOut'
    <3>1. CASE phase[r] \in {"new", "deciding"}
      <4>1. link[r][u] = Connect!Other
        BY <2>1, <3>1 DEF WireOk
      <4>2. link[r][u].task = "none"
        BY <4>1 DEF Connect!Other
      <4> QED BY <4>2
    <3>2. CASE phase[r] = "h2" /\ t = "h1"
      BY <1>7, <3>2 DEF Connect!Transport
    <3> QED BY <3>1, <3>2
  <2> QED BY <2>1, <2>2, <2>3, <2>4, <2>5 DEF WireOk
<1>8. WiresOk'
  <2>1. \A u \in Connect!Transport : WireOk(phase'[r], r, u, link'[r][u], got'[r], timedOut')
    BY <1>2, <1>3, <1>6, <1>7 DEF WirePut
  <2>2. \A x \in Run, u \in Connect!Transport :
          x # r => (<<x, u>> \in timedOut' <=> <<x, u>> \in timedOut)
    BY DEF Late
  <2> QED BY <1>2, <1>3, <2>1, <2>2, OneRun DEF WirePut
<1>9. AllNumbersOk'
  <2>1. "h2" \in Connect!Transport
    BY DEF Connect!Transport
  <2> QED BY <1>1, <1>2, <2>1, NothingSent DEF WirePut
<1> QED BY <1>4, <1>8, <1>9 DEF ConnectInv

LEMMA WireAt ==
  ASSUME ConnectInv, NEW r \in Run, NEW t \in Connect!Transport
  PROVE  /\ WireOk(phase[r], r, t, link[r][t], got[r], timedOut)
         /\ link[r][t] \in WireState /\ phase[r] \in Phase /\ got[r] \in Seq(0 .. LastFrame)
BY DEF ConnectInv, ConnectShape, WiresOk

LEMMA OpenStep ==
  ASSUME ConnectInv, NEW r \in Run, Connect!Decide(r) \/ Connect!ConfigAnswered(r)
  PROVE  ConnectInv'
<1>0. failed \in BOOLEAN /\ config \in {"unset", "none", "h1", "h2"}
  BY DEF ConnectInv, ConnectShape
<1>1. \A known \in {"none", "h1", "h2"} : Connect!Selected(known) \in Connect!Transport
  BY ConnectAssumption DEF Connect!Selected, Connect!Transport
<1>2. "h1" \in Connect!Transport
  BY DEF Connect!Transport
<1>3. CASE Connect!Decide(r)
  <2>1. /\ phase[r] = "new" /\ timedOut' = timedOut /\ failed' \in BOOLEAN
        /\ config' \in {"unset", "none", "h1", "h2"}
        /\ UNCHANGED <<next, flying, arrived, got, config>>
    BY <1>0, <1>3 DEF Connect!Decide, Connect!Streams
  <2>2. CASE Connect!Starts(r, "h1")
    BY <1>2, <2>1, <2>2, StartsStep
  <2>3. CASE config # "unset" /\ Connect!Starts(r, Connect!Selected(config))
    <3>1. Connect!Selected(config) \in Connect!Transport
      BY <1>0, <1>1, <2>3
    <3> QED BY <2>1, <2>3, <3>1, StartsStep
  <2>4. CASE phase' = [phase EXCEPT ![r] = "deciding"] /\ UNCHANGED link
    <3>1. ASSUME NEW u \in Connect!Transport
          PROVE  WireOk("deciding", r, u, link[r][u], got[r], timedOut')
      <4>1. WireOk(phase[r], r, u, link[r][u], got[r], timedOut)
        BY WireAt
      <4>2. link[r][u] = Connect!Other /\ got[r] = <<>>
        BY <2>1, <4>1 DEF WireOk, Shut
      <4>3. link[r][u].task = "none" /\ link[r][u].err = "none"
        BY <4>2 DEF Connect!Other
      <4>4. Seen("deciding", u, link[r][u].queue, got[r]) = Seen(phase[r], u, link[r][u].queue, got[r])
        BY <2>1 DEF Seen, InUse
      <4>5. phase[r] \notin Shut
        BY <2>1 DEF Shut
      <4> QED BY <4>1, <4>2, <4>3, <4>4, <4>5 DEF WireOk
    <3>2. "deciding" \in Phase /\ Late(r, "h1")
      BY <2>1 DEF Phase, Late
    <3> QED BY <1>2, <2>1, <2>4, <3>1, <3>2, PhaseStep
  <2> QED BY <1>3, <2>2, <2>3, <2>4 DEF Connect!Decide
<1>4. CASE Connect!ConfigAnswered(r)
  <2>1. /\ phase[r] = "deciding" /\ timedOut' = timedOut /\ failed' \in BOOLEAN
        /\ config' \in {"none", "h1", "h2"} /\ Connect!Starts(r, Connect!Selected(config'))
        /\ UNCHANGED <<next, flying, arrived, got>>
    BY <1>0, <1>4 DEF Connect!ConfigAnswered, Connect!Streams
  <2>2. Connect!Selected(config') \in Connect!Transport
    BY <1>1, <2>1
  <2> QED BY <2>1, <2>2, StartsStep
<1> QED BY <1>3, <1>4

LEMMA StartStep ==
  ASSUME ConnectInv, NEW r \in Run, NEW t \in Connect!Transport, Connect!StartSucceeds(r, t)
  PROVE  ConnectInv'
<1>1. /\ phase[r] = t /\ phase' = [phase EXCEPT ![r] = InUse(t)] /\ Late(r, t)
      /\ UNCHANGED <<failed, config, link, next, flying, arrived, got, timedOut>>
  BY DEF Connect!StartSucceeds, Connect!Streams, InUse, Late
<1>2. failed' \in BOOLEAN /\ InUse(t) \in Phase /\ InUse(t) \notin Shut
  BY <1>1 DEF ConnectInv, ConnectShape, InUse, Phase, Shut
<1>3. ASSUME NEW u \in Connect!Transport
      PROVE  WireOk(InUse(t), r, u, link[r][u], got[r], timedOut')
  <2>1. WireOk(phase[r], r, u, link[r][u], got[r], timedOut) /\ link[r][u] \in WireState
    BY WireAt
  <2>2. phase[r] \notin Shut \cup {"on h1", "on h2"} /\ phase[r] # InUse(u)
    BY <1>1 DEF Shut, InUse, Connect!Transport
  <2>3. got[r] = <<>>
    BY <2>1, <2>2 DEF WireOk
  <2>4. Seen(InUse(t), u, link[r][u].queue, got[r]) = Seen(phase[r], u, link[r][u].queue, got[r])
    <3> DEFINE q == link[r][u].queue
    <3>1. q \in Seq(0 .. LastFrame)
      BY <2>1 DEF WireState
    <3> HIDE DEF q
    <3>2. <<>> \o q = q
      BY <3>1, ConcatEmptySeq
    <3> QED BY <2>2, <2>3, <3>2 DEF Seen, q
  <2>5. link[r][u].task \in {"connecting", "streaming"} /\ <<r, u>> \notin timedOut => u = t
    BY <1>1, <2>1 DEF WireOk, InUse, ClosingOf, Connect!Transport
  <2>6. InUse(t) \notin {"new", "deciding", "h2"}
    BY DEF InUse
  <2> QED BY <1>1, <2>1, <2>2, <2>3, <2>4, <2>5, <2>6 DEF WireOk
<1> QED BY <1>1, <1>2, <1>3, PhaseStep

\* start raises, because of an error or because it took too long.
LEMMA RaiseStep ==
  ASSUME ConnectInv, NEW r \in Run, NEW t \in Connect!Transport,
         Connect!StartFails(r, t) \/ Connect!StartTimesOut(r, t)
  PROVE  ConnectInv'
<1>1. /\ phase[r] = t /\ Late(r, t) /\ UNCHANGED <<config, next, flying, arrived, got>>
      /\ link[r][t].task = "over" \/ <<r, t>> \in timedOut'
      /\ \E err \in {"none", "fallback", "fatal"} : Connect!StartRaises(r, t, err)
  <2>1. WireOk(phase[r], r, t, link[r][t], got[r], timedOut) /\ link[r][t] \in WireState
    BY WireAt
  <2>2. link[r][t].err \in {"none", "fallback", "fatal"}
    BY <2>1 DEF WireState
  <2>3. CASE Connect!StartFails(r, t)
    BY <2>1, <2>2, <2>3 DEF Connect!StartFails, Connect!Streams, Late, WireOk
  <2>4. CASE Connect!StartTimesOut(r, t)
    BY <2>4 DEF Connect!StartTimesOut, Connect!Streams, Late
  <2> QED BY <2>3, <2>4
<1>2. failed \in BOOLEAN /\ config' \in {"unset", "none", "h1", "h2"}
  BY <1>1 DEF ConnectInv, ConnectShape
<1>3. CASE t = "h2" /\ failed' = TRUE /\ Connect!Starts(r, "h1")
  <2>1. "h1" \in Connect!Transport
    BY DEF Connect!Transport
  <2> QED BY <1>1, <1>2, <1>3, <2>1, StartsStep
<1>4. CASE phase' = [phase EXCEPT ![r] = "raised"] /\ UNCHANGED <<failed, link>>
  <2>1. ASSUME NEW u \in Connect!Transport
        PROVE  WireOk("raised", r, u, link[r][u], got[r], timedOut')
    <3>1. WireOk(phase[r], r, u, link[r][u], got[r], timedOut)
      BY WireAt
    <3>2. phase[r] \notin Shut \cup {"on h1", "on h2"} /\ phase[r] # InUse(u)
      BY <1>1 DEF Shut, InUse, Connect!Transport
    <3>3. "raised" \notin Shut \cup {"on h1", "on h2", "new", "deciding", "h2"} /\ "raised" # InUse(u)
      BY DEF Shut, InUse
    <3>4. link[r][u].task \in {"connecting", "streaming"} => <<r, u>> \in timedOut'
      <4>1. CASE u = t
        BY <1>1, <4>1
      <4>2. CASE u # t
        BY <1>1, <3>1, <4>2 DEF WireOk, InUse, ClosingOf, Connect!Transport, Late
      <4> QED BY <4>1, <4>2
    <3>5. Seen("raised", u, link[r][u].queue, got[r]) = Seen(phase[r], u, link[r][u].queue, got[r])
      BY <3>2, <3>3 DEF Seen
    <3> QED BY <3>1, <3>2, <3>3, <3>4, <3>5 DEF WireOk
  <2>2. "raised" \in Phase
    BY DEF Phase
  <2> QED BY <1>1, <1>2, <1>4, <2>1, <2>2, PhaseStep
<1> QED BY <1>1, <1>3, <1>4 DEF Connect!StartRaises

LEMMA CloseStep ==
  ASSUME ConnectInv, NEW r \in Run,
         Connect!Close(r) \/ \E t \in Connect!Transport : Connect!Closed(r, t)
  PROVE  ConnectInv'
<1>1. PICK t \in Connect!Transport, ph \in Phase :
        /\ phase' = [phase EXCEPT ![r] = ph] /\ ph \in Shut
        /\ \/ phase[r] = InUse(t) /\ ph = ClosingOf(t)
           \/ /\ phase[r] = ClosingOf(t) /\ ph = "closed"
              /\ link[r][t].task \notin {"connecting", "streaming"}
        /\ UNCHANGED <<failed, config, link, next, flying, arrived, got, timedOut>>
  <2>1. CASE Connect!Close(r)
    <3> DEFINE t == IF phase[r] = "on h1" THEN "h1" ELSE "h2"
    <3>1. t \in Connect!Transport /\ ClosingOf(t) \in Phase /\ ClosingOf(t) \in Shut
      BY DEF Connect!Transport, ClosingOf, Phase, Shut
    <3>2. phase[r] = InUse(t) /\ phase' = [phase EXCEPT ![r] = ClosingOf(t)]
      BY <2>1 DEF Connect!Close, Connect!On, InUse, ClosingOf
    <3>3. UNCHANGED <<failed, config, link, next, flying, arrived, got, timedOut>>
      BY <2>1 DEF Connect!Close, Connect!Streams
    <3> QED BY <3>1, <3>2, <3>3
  <2>2. ASSUME NEW t \in Connect!Transport, Connect!Closed(r, t)
        PROVE  /\ phase' = [phase EXCEPT ![r] = "closed"]
               /\ phase[r] = ClosingOf(t) /\ link[r][t].task \notin {"connecting", "streaming"}
               /\ UNCHANGED <<failed, config, link, next, flying, arrived, got, timedOut>>
    BY <2>2 DEF Connect!Closed, Connect!Working, Connect!Streams, ClosingOf
  <2>3. "closed" \in Phase /\ "closed" \in Shut
    BY DEF Phase, Shut
  <2> QED BY <2>1, <2>2, <2>3
<1>2. failed' \in BOOLEAN /\ Late(r, t)
  BY <1>1 DEF ConnectInv, ConnectShape, Late
<1>3. ASSUME NEW u \in Connect!Transport
      PROVE  WireOk(ph, r, u, link[r][u], got[r], timedOut')
  <2>1. WireOk(phase[r], r, u, link[r][u], got[r], timedOut)
    BY WireAt
  <2>2. link[r][u].task \in {"connecting", "streaming"} /\ <<r, u>> \notin timedOut =>
          phase[r] = InUse(t) /\ ph = ClosingOf(u)
    BY <1>1, <2>1 DEF WireOk, InUse, ClosingOf, Connect!Transport
  <2>3. ph \notin {"new", "deciding", "h2"}
    BY <1>1 DEF Shut
  <2> QED BY <1>1, <2>1, <2>2, <2>3 DEF WireOk
<1> QED BY <1>1, <1>2, <1>3, PhaseStep

\* A transport at work is not untouched.
LEMMA WorkingWire ==
  ASSUME NEW ph, NEW r, NEW t, NEW w, NEW g, NEW late, WireOk(ph, r, t, w, g, late),
         w.task \in {"connecting", "streaming"}
  PROVE  /\ ~(ph \in {"new", "deciding"} \/ (ph = "h2" /\ t = "h1")) /\ w.err = "none"
         /\ ph \notin Shut => Ordered(Seen(ph, t, w.queue, g), FALSE, Connect!Complete(w.pieces))
<1>1. w # Connect!Other
  BY DEF Connect!Other
<1>2. (w.task = "over") = FALSE
  OBVIOUS
<1> QED BY <1>1, <1>2 DEF WireOk

LEMMA FramesConcat ==
  \A u, v, w \in Seq(0 .. LastFrame) : (u \o v) \o w = u \o (v \o w)
<1> SUFFICES ASSUME NEW u \in Seq(0 .. LastFrame), NEW v \in Seq(0 .. LastFrame), NEW w \in Seq(0 .. LastFrame)
             PROVE  (u \o v) \o w = u \o (v \o w)
  OBVIOUS
<1> QED BY ConcatAssociative

LEMMA SeenEnds ==
  ASSUME NEW ph, NEW t, NEW g \in Seq(0 .. LastFrame), NEW q \in Seq(0 .. LastFrame), NEW n,
         Ordered(Seen(ph, t, q, g), FALSE, n), NEW c \in Connect!Closing
  PROVE  Ordered(Seen(ph, t, Append(q, c), g), TRUE, n)
<1> DEFINE s == Seen(ph, t, q, g)
<1>1. c \in 0 .. LastFrame
  BY FramesAreNat DEF Connect!Closing, Connect!Ended, Connect!Error, LastFrame
<1>2. PICK x \in Seq(0 .. LastFrame) : x = <<c>>
  <2>1. <<c>> \in Seq(0 .. LastFrame)
    BY <1>1
  <2> QED BY <2>1
<1>3. Ordered(Append(s, c), TRUE, n) /\ s \in Seq(0 .. LastFrame)
  <2>1. Ordered(Append(s, c), TRUE, n)
    BY OrderedEnds
  <2>2. s \in Seq(0 .. LastFrame)
    BY DEF Ordered
  <2> QED BY <2>1, <2>2
<1> HIDE DEF s
<1>4. Append(q, c) = q \o x /\ Append(s, c) = s \o x
  BY <1>1, <1>2, <1>3, AppendIsConcat
<1>5. Seen(ph, t, q \o x, g) = s \o x
  <2>1. g \o (q \o x) = (g \o q) \o x
    BY FramesConcat
  <2> QED BY <2>1 DEF Seen, s
<1> QED BY <1>3, <1>4, <1>5

\* The queue of a transport is ended.
LEMMA EndsStep ==
  ASSUME ConnectInv, NEW r \in Run, NEW t \in Connect!Transport, NEW e \in WireState,
         NEW c \in Connect!Closing,
         link[r][t].task \in {"connecting", "streaming"}, WirePut(r, t, e),
         e.task = "over", e.queue = Append(link[r][t].queue, c),
         e.pieces = link[r][t].pieces, e.out = link[r][t].out,
         UNCHANGED <<failed, config, phase, next, flying, arrived, got, timedOut>>
  PROVE  ConnectInv'
<1>1. /\ WireOk(phase[r], r, t, link[r][t], got[r], timedOut) /\ link[r][t] \in WireState
      /\ got[r] \in Seq(0 .. LastFrame)
  BY WireAt
<1>2. /\ ~(phase[r] \in {"new", "deciding"} \/ (phase[r] = "h2" /\ t = "h1"))
      /\ phase[r] \notin Shut =>
           Ordered(Seen(phase[r], t, link[r][t].queue, got[r]), FALSE, Connect!Complete(link[r][t].pieces))
  BY <1>1, WorkingWire
<1>4. ASSUME phase[r] \notin Shut
      PROVE  Ordered(Seen(phase[r], t, e.queue, got[r]), TRUE, Connect!Complete(e.pieces))
  <2>1. link[r][t].queue \in Seq(0 .. LastFrame)
    BY <1>1 DEF WireState
  <2>2. Ordered(Seen(phase[r], t, Append(link[r][t].queue, c), got[r]), TRUE,
                Connect!Complete(link[r][t].pieces))
    BY <1>1, <1>2, <1>4, <2>1, SeenEnds
  <2> QED BY <2>2
<1>5. WireOk(phase[r], r, t, e, got[r], timedOut)
  <2>1. (e.task = "over") = TRUE
    OBVIOUS
  <2> QED BY <1>1, <1>2, <1>4, <2>1 DEF WireOk
<1> QED BY <1>5, WireStep

LEMMA TaskEndsStep ==
  ASSUME ConnectInv, NEW r \in Run, NEW t \in Connect!Transport,
         \/ \E err \in {"fallback", "fatal"} : Connect!Refused(r, t, err)
         \/ Connect!Broken(r, t) \/ Connect!ClosedByService(r, t) \/ Connect!CancelTask(r, t)
  PROVE  ConnectInv'
<1>0. /\ link \in [Run -> [Connect!Transport -> WireState]] /\ link[r][t] \in WireState
      /\ link[r][t].queue \in Seq(0 .. LastFrame)
  BY DEF ConnectInv, ConnectShape, WireState
<1>1. Connect!Error \in Connect!Closing /\ Connect!Ended \in Connect!Closing
  BY DEF Connect!Closing
<1>2. \A c \in Connect!Closing : Append(link[r][t].queue, c) \in Seq(0 .. LastFrame)
  <2> SUFFICES ASSUME NEW c \in Connect!Closing
               PROVE  Append(link[r][t].queue, c) \in Seq(0 .. LastFrame)
    OBVIOUS
  <2>1. c \in 0 .. LastFrame
    BY FramesAreNat DEF Connect!Closing, Connect!Ended, Connect!Error, LastFrame
  <2> QED BY <1>0, <2>1
<1>3. ASSUME NEW err \in {"fallback", "fatal"}, Connect!Breaks(r, t, err),
             link[r][t].task \in {"connecting", "streaming"},
             UNCHANGED <<failed, config, phase, next, flying, arrived, got, timedOut>>
      PROVE  ConnectInv'
  <2> DEFINE q == Append(link[r][t].queue, Connect!Error)
             e == [link[r][t] EXCEPT !.task = "over", !.started = TRUE, !.err = err, !.queue = q]
  <2>1. q \in Seq(0 .. LastFrame)
    BY <1>1, <1>2
  <2>2. link' = [link EXCEPT ![r][t] = e]
    BY <1>3 DEF Connect!Breaks
  <2> HIDE DEF q
  <2>3. /\ e \in WireState /\ e.task = "over" /\ e.queue = q
        /\ e.pieces = link[r][t].pieces /\ e.out = link[r][t].out
    BY <1>0, <2>1 DEF WireState
  <2> HIDE DEF e
  <2>4. WirePut(r, t, e)
    BY <1>0, <2>2, <2>3 DEF WirePut
  <2> QED BY <1>1, <1>3, <2>3, <2>4, EndsStep DEF q
<1>4. ASSUME Connect!Cancelled(r, t), link[r][t].task \in {"connecting", "streaming"},
             UNCHANGED <<failed, config, phase, next, flying, arrived, got, timedOut>>
      PROVE  ConnectInv'
  <2> DEFINE q == Append(link[r][t].queue, Connect!Ended)
             e == [link[r][t] EXCEPT !.task = "over", !.queue = q]
  <2>1. q \in Seq(0 .. LastFrame)
    BY <1>1, <1>2
  <2>2. WirePut(r, t, e)
    BY <1>0, <1>2, <1>1, <1>4 DEF Connect!Cancelled, WirePut, WireState
  <2> HIDE DEF q
  <2>3. /\ e \in WireState /\ e.task = "over" /\ e.queue = q
        /\ e.pieces = link[r][t].pieces /\ e.out = link[r][t].out
    BY <1>0, <2>1 DEF WireState
  <2> HIDE DEF e
  <2> QED BY <1>1, <1>4, <2>2, <2>3, EndsStep DEF q
<1>5. ASSUME NEW err \in {"fallback", "fatal"}, Connect!Refused(r, t, err) PROVE ConnectInv'
  BY <1>3, <1>5 DEF Connect!Refused, Connect!Streams
<1>6. CASE Connect!Broken(r, t)
  BY <1>3, <1>6 DEF Connect!Broken, Connect!Streams
<1>7. CASE Connect!ClosedByService(r, t)
  BY <1>4, <1>7 DEF Connect!ClosedByService, Connect!Cancelled, Connect!Streams
<1>8. CASE Connect!CancelTask(r, t)
  BY <1>4, <1>8 DEF Connect!CancelTask, Connect!Working, Connect!Streams
<1> QED BY <1>5, <1>6, <1>7, <1>8

LEMMA ConnectedStep ==
  ASSUME ConnectInv, NEW r \in Run, NEW t \in Connect!Transport, Connect!Connected(r, t)
  PROVE  ConnectInv'
<1> DEFINE w == link[r][t]
           e == [w EXCEPT !.task = "streaming", !.started = TRUE]
<1>1. /\ link \in [Run -> [Connect!Transport -> WireState]] /\ w \in WireState
      /\ WireOk(phase[r], r, t, w, got[r], timedOut)
  BY WireAt DEF ConnectInv, ConnectShape
<1>2. /\ w.task = "connecting"
      /\ UNCHANGED <<failed, config, phase, next, flying, arrived, got, timedOut>>
  BY DEF Connect!Connected, Connect!Streams
<1>3. /\ e \in WireState /\ e.task = "streaming" /\ e.queue = w.queue /\ e.err = w.err
      /\ e.pieces = w.pieces /\ e.out = w.out
  BY <1>1 DEF WireState
<1>4. WirePut(r, t, e)
  BY <1>1, <1>3 DEF WirePut, Connect!Connected
<1> HIDE DEF e
<1>5. WireOk(phase[r], r, t, e, got[r], timedOut)
  <2>1. /\ ~(phase[r] \in {"new", "deciding"} \/ (phase[r] = "h2" /\ t = "h1")) /\ w.err = "none"
        /\ phase[r] \notin Shut =>
             Ordered(Seen(phase[r], t, w.queue, got[r]), FALSE, Connect!Complete(w.pieces))
    BY <1>1, <1>2, WorkingWire
  <2>2. (e.task = "over") = FALSE /\ Seen(phase[r], t, e.queue, got[r]) = Seen(phase[r], t, w.queue, got[r])
    BY <1>3 DEF Seen
  <2> QED BY <1>1, <1>2, <1>3, <2>1, <2>2 DEF WireOk
<1> QED BY <1>2, <1>3, <1>4, <1>5, WireStep

LEMMA SeenChunk ==
  ASSUME NEW ph, NEW t, NEW g \in Seq(0 .. LastFrame), NEW q \in Seq(0 .. LastFrame),
         NEW p \in 0 .. 2 * LastFrame, Ordered(Seen(ph, t, q, g), FALSE, Connect!Complete(p)),
         NEW n \in 1 .. 2 * LastFrame, p + n <= 2 * LastFrame, NEW c \in Connect!Closing,
         NEW x \in Seq(0 .. LastFrame), x = Connect!Popped(p, p + n, c)
  PROVE  Ordered(Seen(ph, t, q \o x, g), p + n = 2 * LastFrame, Connect!Complete(p + n))
<1> DEFINE s == Seen(ph, t, q, g)
<1>1. Ordered(s \o x, p + n = 2 * LastFrame, Connect!Complete(p + n))
  BY OrderedChunk
<1> HIDE DEF s
<1>2. Seen(ph, t, q \o x, g) = s \o x
  <2>1. g \o (q \o x) = (g \o q) \o x
    BY FramesConcat
  <2> QED BY <2>1 DEF Seen, s
<1> QED BY <1>1, <1>2

LEMMA ChunkStep ==
  ASSUME ConnectInv, NEW r \in Run, NEW t \in Connect!Transport,
         NEW n \in 1 .. 2 * LastFrame, NEW c \in Connect!Closing, Connect!Chunk(r, t, n, c)
  PROVE  ConnectInv'
<1> DEFINE w == link[r][t]
           p == w.pieces
           x == Connect!Popped(p, p + n, c)
           q == w.queue \o x
           whole == p + n = 2 * LastFrame
           task == IF whole THEN "over" ELSE w.task
           err == IF whole /\ c = Connect!Error THEN "fatal" ELSE w.err
           m == p + n
           e == [w EXCEPT !.pieces = m, !.queue = q, !.task = task, !.err = err]
<1>1. /\ link \in [Run -> [Connect!Transport -> WireState]] /\ w \in WireState
      /\ WireOk(phase[r], r, t, w, got[r], timedOut) /\ got[r] \in Seq(0 .. LastFrame)
  BY WireAt DEF ConnectInv, ConnectShape
<1>2. /\ w.task = "streaming" /\ m <= 2 * LastFrame /\ link' = [link EXCEPT ![r][t] = e]
      /\ UNCHANGED <<failed, config, phase, next, flying, arrived, got, timedOut>>
  BY DEF Connect!Chunk, Connect!Streams, LastFrame
<1>3. p \in 0 .. 2 * LastFrame /\ m \in 0 .. 2 * LastFrame /\ w.queue \in Seq(0 .. LastFrame)
  BY <1>1, <1>2, FramesAreNat DEF WireState
<1>4. x \in Seq(0 .. LastFrame)
  <2>1. Frames(x, Connect!Complete(p), Connect!Complete(m), c)
    BY <1>2, <1>3, PoppedFrames
  <2> QED BY <2>1 DEF Frames
<1>5. q \in Seq(0 .. LastFrame)
  <2> DEFINE before == w.queue
  <2>1. before \in Seq(0 .. LastFrame) /\ x \in Seq(0 .. LastFrame)
    BY <1>3, <1>4
  <2> HIDE DEF before, x
  <2>2. before \o x \in Seq(0 .. LastFrame)
    BY <2>1, ConcatProperties
  <2> QED BY <2>2 DEF before
<1>6. /\ ~(phase[r] \in {"new", "deciding"} \/ (phase[r] = "h2" /\ t = "h1")) /\ w.err = "none"
      /\ phase[r] \notin Shut => Ordered(Seen(phase[r], t, w.queue, got[r]), FALSE, Connect!Complete(p))
  BY <1>1, <1>2, WorkingWire
<1>7. /\ task \in {"none", "connecting", "streaming", "over"} /\ err \in {"none", "fallback", "fatal"}
      /\ err # "none" => task = "over"
      /\ task \in {"connecting", "streaming"} => w.task \in {"connecting", "streaming"}
  BY <1>2, <1>6
<1>8. phase[r] \notin Shut => Ordered(Seen(phase[r], t, q, got[r]), task = "over", Connect!Complete(m))
  <2>1. phase[r] \notin Shut => Ordered(Seen(phase[r], t, q, got[r]), whole, Connect!Complete(m))
    BY <1>1, <1>2, <1>3, <1>4, <1>6, SeenChunk
  <2>2. (task = "over") = whole
    BY <1>2
  <2> HIDE DEF task, whole, q, m
  <2> QED BY <2>1, <2>2
<1> HIDE DEF m, q, task, err, whole
<1>9. /\ e \in WireState /\ e.pieces = m /\ e.queue = q /\ e.task = task /\ e.err = err
      /\ e.out = w.out
  BY <1>1, <1>3, <1>5, <1>7 DEF WireState
<1> HIDE DEF e
<1>10. WirePut(r, t, e)
  BY <1>1, <1>2, <1>9 DEF WirePut
<1>11. WireOk(phase[r], r, t, e, got[r], timedOut)
  <2>1. phase[r] \notin Shut =>
          Ordered(Seen(phase[r], t, e.queue, got[r]), e.task = "over", Connect!Complete(e.pieces))
    BY <1>8, <1>9
  <2>2. e.err # "none" => e.task = "over"
    BY <1>7, <1>9
  <2>3. /\ e.task \in {"connecting", "streaming"} /\ <<r, t>> \notin timedOut =>
             phase[r] \in {t, InUse(t), ClosingOf(t)}
        /\ phase[r] \notin {"on h1", "on h2"} \cup Shut => got[r] = <<>>
    BY <1>1, <1>7, <1>9 DEF WireOk
  <2> QED BY <1>6, <2>1, <2>2, <2>3 DEF WireOk
<1> QED BY <1>2, <1>9, <1>10, <1>11, WireStep

\* What is read moves from the queue to the consumer.
LEMMA ReadAhead ==
  ASSUME NEW S, NEW g \in Seq(S), NEW q \in Seq(S), q # <<>>
  PROVE  /\ Head(q) \in S /\ Append(g, Head(q)) \in Seq(S) /\ Tail(q) \in Seq(S)
         /\ Append(g, Head(q)) \o Tail(q) = g \o q
<1>1. Head(q) \in S /\ Tail(q) \in Seq(S)
  BY HeadTailProperties
<1>2. Append(g, Head(q)) \in Seq(S)
  BY <1>1
<1>3. Append(g, Head(q)) \o Tail(q) = g \o q
  BY <1>1
<1> QED BY <1>1, <1>2, <1>3

LEMMA ReadStep ==
  ASSUME ConnectInv, NEW r \in Run, Connect!Read(r)
  PROVE  ConnectInv'
<1>1. PICK t \in Connect!Transport :
        /\ phase[r] = InUse(t) /\ link[r][t].queue # <<>>
        /\ got' = [got EXCEPT ![r] = Append(got[r], Head(link[r][t].queue))]
        /\ link' = [link EXCEPT ![r][t].queue = Tail(link[r][t].queue)]
        /\ UNCHANGED <<failed, config, phase, next, flying, arrived, timedOut>>
  <2> DEFINE t == Connect!On(r)
  <2>1. t \in Connect!Transport /\ phase[r] = InUse(t)
    BY DEF Connect!Read, Connect!On, Connect!Transport, InUse
  <2>2. /\ link[r][t].queue # <<>>
        /\ got' = [got EXCEPT ![r] = Append(@, Head(link[r][t].queue))]
        /\ link' = [link EXCEPT ![r][t].queue = Tail(link[r][t].queue)]
        /\ UNCHANGED <<failed, config, phase, next, flying, arrived, timedOut>>
    BY DEF Connect!Read
  <2> QED BY <2>1, <2>2
<1> DEFINE w == link[r][t]
           q == w.queue
           rest == Tail(q)
           all == Append(got[r], Head(q))
           e == [w EXCEPT !.queue = rest]
<1>2. /\ link \in [Run -> [Connect!Transport -> WireState]] /\ w \in WireState
      /\ WireOk(phase[r], r, t, w, got[r], timedOut) /\ got[r] \in Seq(0 .. LastFrame)
      /\ got \in [Run -> Seq(0 .. LastFrame)]
  BY WireAt DEF ConnectInv, ConnectShape
<1>3. q \in Seq(0 .. LastFrame) /\ q # <<>>
  BY <1>1, <1>2 DEF WireState
<1>4. rest \in Seq(0 .. LastFrame) /\ all \in Seq(0 .. LastFrame) /\ all \o rest = got[r] \o q
  <2> DEFINE g == got[r]
  <2>1. g \in Seq(0 .. LastFrame)
    BY <1>2
  <2> HIDE DEF g, q
  <2>2. /\ Append(g, Head(q)) \in Seq(0 .. LastFrame) /\ Tail(q) \in Seq(0 .. LastFrame)
        /\ Append(g, Head(q)) \o Tail(q) = g \o q
    BY <1>3, <2>1, ReadAhead
  <2> QED BY <2>2 DEF g
<1>5. got' = [got EXCEPT ![r] = all] /\ link' = [link EXCEPT ![r][t].queue = rest]
  BY <1>1
<1> HIDE DEF rest, all
<1>6. /\ e \in WireState /\ e.queue = rest /\ e.task = w.task /\ e.err = w.err
      /\ e.pieces = w.pieces /\ e.out = w.out
  BY <1>2, <1>4 DEF WireState
<1>7. WirePut(r, t, e)
  BY <1>2, <1>5, <1>6 DEF WirePut
<1> HIDE DEF e
<1>8. got' \in [Run -> Seq(0 .. LastFrame)] /\ got'[r] = all /\ \A x \in Run : x # r => got'[x] = got[x]
  BY <1>2, <1>4, <1>5
<1>9. ConnectShape'
  BY <1>1, <1>7, <1>8 DEF ConnectInv, ConnectShape, WirePut
<1>10. phase[r] \notin {"new", "deciding", "h2"} \cup Shut
  BY <1>1 DEF InUse, Shut
<1>11. WireOk(phase[r], r, t, e, all, timedOut)
  <2>1. Ordered(Seen(phase[r], t, q, got[r]), w.task = "over", Connect!Complete(w.pieces))
    BY <1>2, <1>10 DEF WireOk
  <2>2. Seen(phase[r], t, q, got[r]) = Seen(phase[r], t, rest, all)
    BY <1>1, <1>4 DEF Seen
  <2>3. Ordered(Seen(phase[r], t, e.queue, all), e.task = "over", Connect!Complete(e.pieces))
    BY <2>1, <2>2, <1>6
  <2>4. phase[r] \in {"on h1", "on h2"}
    BY <1>1 DEF InUse
  <2> QED BY <1>2, <1>6, <1>10, <2>3, <2>4 DEF WireOk
<1>12. ASSUME NEW u \in Connect!Transport, u # t
       PROVE  WireOk(phase[r], r, u, link[r][u], all, timedOut)
  <2>1. WireOk(phase[r], r, u, link[r][u], got[r], timedOut)
    BY WireAt
  <2>2. phase[r] # InUse(u) /\ phase[r] \in {"on h1", "on h2"}
    <3>1. InUse(u) # InUse(t) /\ InUse(t) \in {"on h1", "on h2"}
      <4>1. (t = "h1" /\ u = "h2") \/ (t = "h2" /\ u = "h1")
        BY <1>12 DEF Connect!Transport
      <4>2. CASE t = "h1" /\ u = "h2"
        BY <4>2 DEF InUse
      <4>3. CASE t = "h2" /\ u = "h1"
        BY <4>3 DEF InUse
      <4> QED BY <4>1, <4>2, <4>3
    <3> QED BY <1>1, <3>1
  <2>3. Seen(phase[r], u, link[r][u].queue, got[r]) = Seen(phase[r], u, link[r][u].queue, all)
    BY <2>2 DEF Seen
  <2> QED BY <2>1, <2>2, <2>3 DEF WireOk
<1>13. WiresOk'
  <2>1. \A u \in Connect!Transport : WireOk(phase'[r], r, u, link'[r][u], got'[r], timedOut')
    BY <1>1, <1>7, <1>8, <1>11, <1>12 DEF WirePut
  <2> QED BY <1>1, <1>7, <1>8, <2>1, OneRun DEF WirePut
<1>14. AllNumbersOk'
  <2>1. "h2" \in Connect!Transport
    BY DEF Connect!Transport
  <2> QED BY <1>1, <1>6, <1>7, <2>1, NothingSent DEF WirePut
<1> QED BY <1>9, <1>13, <1>14 DEF ConnectInv

-----------------------------------------------------------------------------
(* The numbers of messages.                                                *)

Sending == [run : Run, seq : 0 .. Sends, msg : Nat, again : BOOLEAN]

\* The next number is that of a message under way, or put into the body.
LEMMA NumberTaken ==
  ASSUME NEW r, NEW n \in Nat, NEW fl, NEW ar \in Seq(Nat \X Nat), NEW o \in Seq(Nat),
         \A q \in fl : q.seq \in Nat, NumbersOk(r, n, fl, ar, o)
  PROVE  /\ \A q : q.run = r /\ q.seq = n /\ q.msg = n + 1 => NumbersOk(r, n + 1, fl \cup {q}, ar, o)
         /\ NumbersOk(r, n + 1, fl, ar, Append(o, n + 1))
<1>0. \A i \in DOMAIN ar : ar[i][1] \in Nat
  OBVIOUS
<1>1. ASSUME NEW q, q.run = r, q.seq = n, q.msg = n + 1
      PROVE  NumbersOk(r, n + 1, fl \cup {q}, ar, o)
  <2>1. \A i \in DOMAIN ar : ar[i][1] < n + 1 /\ ar[i][1] # n
    BY <1>0 DEF NumbersOk
  <2>2. \A p \in fl : p.run = r => p.seq < n + 1 /\ p.seq # n
    BY DEF NumbersOk
  <2>3. \A i \in DOMAIN o : o[i] \in 1 .. n + 1 /\ o[i] # n + 1
    BY DEF NumbersOk
  <2> QED BY <1>1, <2>1, <2>2, <2>3, n < n + 1 DEF NumbersOk
<1>2. NumbersOk(r, n + 1, fl, ar, Append(o, n + 1))
  <2> DEFINE oo == Append(o, n + 1)
  <2>1. /\ \A i \in DOMAIN oo : IF i \in DOMAIN o THEN oo[i] = o[i] ELSE oo[i] = n + 1
        /\ \A i, j \in DOMAIN oo : i \notin DOMAIN o /\ j \notin DOMAIN o => i = j
    OBVIOUS
  <2>2. \A i \in DOMAIN ar : ar[i][1] < n + 1 /\ ar[i][1] + 1 # n + 1
    BY <1>0 DEF NumbersOk
  <2>3. \A p \in fl : p.run = r => p.seq < n + 1 /\ p.seq + 1 # n + 1
    BY DEF NumbersOk
  <2>4. \A i \in DOMAIN o : o[i] \in 1 .. n + 1 /\ o[i] # n + 1
    BY DEF NumbersOk
  <2>5. n + 1 \in 1 .. n + 1
    OBVIOUS
  <2> HIDE DEF oo
  <2>6. NumbersOk(r, n + 1, fl, ar, oo)
    <3>1. \A i \in DOMAIN ar : ar[i][1] < n + 1 /\ ar[i][2] = ar[i][1] + 1
      BY <2>2 DEF NumbersOk
    <3>2. \A i, j \in DOMAIN ar : i # j => ar[i][1] # ar[j][1]
      BY DEF NumbersOk
    <3>3. ASSUME NEW q \in fl, q.run = r
          PROVE  /\ q.seq < n + 1 /\ q.msg = q.seq + 1
                 /\ \A p \in fl : p.run = r /\ p.seq = q.seq => p = q
                 /\ \A i \in DOMAIN ar : ar[i][1] # q.seq
                 /\ \A i \in DOMAIN oo : oo[i] # q.seq + 1
      <4>1. /\ q.msg = q.seq + 1
            /\ \A p \in fl : p.run = r /\ p.seq = q.seq => p = q
            /\ \A i \in DOMAIN ar : ar[i][1] # q.seq
            /\ \A i \in DOMAIN o : o[i] # q.seq + 1
        BY <3>3 DEF NumbersOk
      <4>2. \A i \in DOMAIN oo : oo[i] # q.seq + 1
        BY <2>1, <2>3, <3>3, <4>1
      <4> QED BY <2>3, <3>3, <4>1, <4>2
    <3>4. ASSUME NEW i \in DOMAIN oo
          PROVE  oo[i] \in 1 .. n + 1 /\ \A j \in DOMAIN ar : ar[j][1] + 1 # oo[i]
      <4>1. CASE i \in DOMAIN o
        BY <2>1, <4>1, <2>4 DEF NumbersOk
      <4>2. CASE i \notin DOMAIN o
        BY <2>1, <2>2, <2>5, <4>2
      <4> QED BY <4>1, <4>2
    <3>5. ASSUME NEW i \in DOMAIN oo, NEW j \in DOMAIN oo, i # j PROVE oo[i] # oo[j]
      <4>1. CASE i \in DOMAIN o /\ j \in DOMAIN o
        BY <2>1, <3>5, <4>1 DEF NumbersOk
      <4>2. CASE i \notin DOMAIN o \/ j \notin DOMAIN o
        BY <2>1, <2>4, <3>5, <4>2
      <4> QED BY <4>1, <4>2
    <3> QED BY <3>1, <3>2, <3>3, <3>4, <3>5 DEF NumbersOk
  <2> QED BY <2>6 DEF oo
<1> QED BY <1>1, <1>2

\* What is appended comes after what was there, and nothing else does.
LEMMA AppendAt ==
  ASSUME NEW S, NEW s \in Seq(S), NEW x \in S
  PROVE  /\ \A i \in DOMAIN Append(s, x) : i \in DOMAIN s => Append(s, x)[i] = s[i]
         /\ \A i \in DOMAIN Append(s, x) : i \notin DOMAIN s => Append(s, x)[i] = x
         /\ \A i, j \in DOMAIN Append(s, x) : i \notin DOMAIN s /\ j \notin DOMAIN s => i = j
OBVIOUS

\* The requests of other runs do not matter to a run.
LEMMA OthersNumbers ==
  ASSUME NEW r, NEW n, NEW fl, NEW fm, NEW ar, NEW o, NumbersOk(r, n, fl, ar, o),
         \A q : q.run = r => (q \in fm <=> q \in fl)
  PROVE  NumbersOk(r, n, fm, ar, o)
BY DEF NumbersOk

\* A message arrives under a number that no other has.
LEMMA NumberArrives ==
  ASSUME NEW r, NEW n \in Nat, NEW fl, NEW ar \in Seq(Nat \X Nat), NEW o,
         NumbersOk(r, n, fl, ar, o), NEW p \in Nat \X Nat, p[1] < n, p[2] = p[1] + 1,
         \A i \in DOMAIN ar : ar[i][1] # p[1],
         \A q \in fl : q.run = r => q.seq # p[1],
         \A i \in DOMAIN o : o[i] # p[1] + 1
  PROVE  NumbersOk(r, n, fl, Append(ar, p), o)
<1> DEFINE ars == Append(ar, p)
<1>2. ASSUME NEW i \in DOMAIN ars, NEW j \in DOMAIN ars, i # j
      PROVE  i \in DOMAIN ar \/ j \in DOMAIN ar
  BY <1>2, AppendAt
<1>3. ASSUME NEW i \in DOMAIN ars, i \notin DOMAIN ar PROVE ars[i] = p
  BY <1>3, AppendAt
<1>4. ASSUME NEW i \in DOMAIN ars, i \in DOMAIN ar PROVE ars[i] = ar[i]
  BY <1>4, AppendAt
<1> HIDE DEF ars
<1>5. ASSUME NEW i \in DOMAIN ars
      PROVE  /\ ars[i][1] < n /\ ars[i][2] = ars[i][1] + 1
             /\ \A q \in fl : q.run = r => ars[i][1] # q.seq
             /\ \A k \in DOMAIN o : ars[i][1] + 1 # o[k]
  <2>1. CASE i \in DOMAIN ar
    <3>1. /\ ar[i][1] < n /\ ar[i][2] = ar[i][1] + 1
          /\ \A q \in fl : q.run = r => ar[i][1] # q.seq
          /\ \A k \in DOMAIN o : ar[i][1] + 1 # o[k]
      BY <2>1 DEF NumbersOk
    <3>2. ars[i] = ar[i]
      BY <2>1, <1>4
    <3> QED BY <3>1, <3>2
  <2>2. CASE i \notin DOMAIN ar
    <3>1. ars[i] = p
      BY <2>2, <1>3
    <3>2. /\ \A q \in fl : q.run = r => p[1] # q.seq
          /\ \A k \in DOMAIN o : p[1] + 1 # o[k]
      OBVIOUS
    <3> QED BY <3>1, <3>2
  <2> QED BY <2>1, <2>2
<1>6. ASSUME NEW i \in DOMAIN ars, NEW j \in DOMAIN ars, i # j
      PROVE  ars[i][1] # ars[j][1]
  <2>1. CASE i \in DOMAIN ar /\ j \in DOMAIN ar
    <3>1. ars[i] = ar[i] /\ ars[j] = ar[j]
      BY <2>1, <1>4
    <3>2. ar[i][1] # ar[j][1]
      BY <2>1, <1>6 DEF NumbersOk
    <3> QED BY <3>1, <3>2
  <2>2. CASE i \in DOMAIN ar /\ j \notin DOMAIN ar
    <3>1. ars[i] = ar[i] /\ ars[j] = p
      BY <2>2, <1>3, <1>4
    <3> QED BY <2>2, <3>1
  <2>3. CASE i \notin DOMAIN ar
    <3>1. ars[i] = p /\ j \in DOMAIN ar /\ ars[j] = ar[j]
      BY <2>3, <1>2, <1>3, <1>4, <1>6
    <3> QED BY <3>1
  <2> QED BY <2>1, <2>2, <2>3
<1>7. NumbersOk(r, n, fl, ars, o)
  BY <1>5, <1>6 DEF NumbersOk
<1> QED BY <1>7 DEF ars

\* A request arrives, fails, or is made again.
LEMMA RequestGone ==
  ASSUME NEW r, NEW n \in Nat, NEW fl, NEW ar \in Seq(Nat \X Nat), NEW o,
         \A p \in fl : p.seq \in Nat, NumbersOk(r, n, fl, ar, o), NEW q \in fl, q.run = r
  PROVE  /\ NumbersOk(r, n, fl \ {q}, ar, o)
         /\ NumbersOk(r, n, fl \ {q}, Append(ar, <<q.seq, q.msg>>), o)
         /\ \A again : again.run = r /\ again.seq = q.seq /\ again.msg = q.msg =>
              NumbersOk(r, n, (fl \ {q}) \cup {again}, ar, o)
<1>1. NumbersOk(r, n, fl \ {q}, ar, o)
  BY DEF NumbersOk
<1>2. NumbersOk(r, n, fl \ {q}, Append(ar, <<q.seq, q.msg>>), o)
  <2> DEFINE p == <<q.seq, q.msg>>
  <2>1. /\ q.seq < n /\ q.msg = q.seq + 1 /\ \A i \in DOMAIN ar : ar[i][1] # q.seq
        /\ \A i \in DOMAIN o : o[i] # q.seq + 1
        /\ \A s \in fl \ {q} : s.run = r => s.seq # q.seq
    BY DEF NumbersOk
  <2>2. p[1] = q.seq /\ p[2] = q.msg /\ p \in Nat \X Nat
    BY <2>1
  <2> HIDE DEF p
  <2>3. NumbersOk(r, n, fl \ {q}, Append(ar, p), o)
    BY <1>1, <2>1, <2>2, NumberArrives
  <2> QED BY <2>3 DEF p
<1>3. ASSUME NEW again, again.run = r, again.seq = q.seq, again.msg = q.msg
      PROVE  NumbersOk(r, n, (fl \ {q}) \cup {again}, ar, o)
  BY <1>3 DEF NumbersOk
<1> QED BY <1>1, <1>2, <1>3

\* The first message of the body arrives.
LEMMA BodyNumber ==
  ASSUME NEW r, NEW n \in Nat, NEW fl, NEW ar \in Seq(Nat \X Nat), NEW o \in Seq(Nat), o # <<>>,
         NumbersOk(r, n, fl, ar, o)
  PROVE  NumbersOk(r, n, fl, Append(ar, <<Head(o) - 1, Head(o)>>), Tail(o))
<1> DEFINE p == <<Head(o) - 1, Head(o)>>
           rest == Tail(o)
<1>1. 1 \in DOMAIN o /\ Head(o) = o[1] /\ Head(o) \in 1 .. n
  BY DEF NumbersOk
<1>2. /\ p \in Nat \X Nat /\ p[1] = Head(o) - 1 /\ p[2] = p[1] + 1 /\ p[1] < n
      /\ p[1] + 1 = o[1]
  BY <1>1
<1>3. \A i \in DOMAIN rest : i + 1 \in DOMAIN o /\ rest[i] = o[i + 1] /\ i + 1 # 1 /\ i \in Nat
  OBVIOUS
<1> HIDE DEF p, rest
<1>4. NumbersOk(r, n, fl, ar, rest)
  BY <1>3 DEF NumbersOk
<1>5. ASSUME NEW i \in DOMAIN ar PROVE ar[i][1] # p[1]
  <2>1. ar[i][1] + 1 # o[1]
    BY <1>1 DEF NumbersOk
  <2> QED BY <1>2, <2>1
<1>6. ASSUME NEW q \in fl, q.run = r PROVE q.seq # p[1]
  <2>1. o[1] # q.seq + 1
    BY <1>1, <1>6 DEF NumbersOk
  <2> QED BY <1>2, <2>1
<1>7. ASSUME NEW i \in DOMAIN rest PROVE rest[i] # p[1] + 1
  <2>1. o[i + 1] # o[1]
    BY <1>1, <1>3 DEF NumbersOk
  <2> QED BY <1>2, <1>3, <2>1
<1>8. NumbersOk(r, n, fl, Append(ar, p), rest)
  BY <1>2, <1>4, <1>5, <1>6, <1>7, NumberArrives
<1> QED BY <1>8 DEF p, rest

\* A step of one run that leaves the requests of others alone.
LEMMA SentStep ==
  ASSUME ConnectInv, NEW r \in Run, UNCHANGED <<failed, config, phase, got, timedOut>>,
         next' \in [Run -> 0 .. Sends], arrived' \in [Run -> Seq(Nat \X Nat)],
         flying' \subseteq Sending,
         link' \in [Run -> [Connect!Transport -> WireState]],
         \A x \in Run, t \in Connect!Transport :
           /\ link'[x][t].task = link[x][t].task /\ link'[x][t].err = link[x][t].err
           /\ link'[x][t].pieces = link[x][t].pieces /\ link'[x][t].queue = link[x][t].queue
           /\ link[x][t] = Connect!Other /\ phase[x] \notin {"on h1", "on h2"} \cup Shut =>
                link'[x][t] = Connect!Other,
         \A x \in Run : x # r => /\ next'[x] = next[x] /\ arrived'[x] = arrived[x]
                                 /\ link'[x]["h2"].out = link[x]["h2"].out,
         \A q : q.run # r => (q \in flying' <=> q \in flying),
         NumbersOk(r, next'[r], flying', arrived'[r], link'[r]["h2"].out)
  PROVE  ConnectInv'
<1>1. ConnectShape'
  BY DEF ConnectInv, ConnectShape, Sending
<1>2. WiresOk'
  <2> SUFFICES ASSUME NEW x \in Run, NEW t \in Connect!Transport
               PROVE  WireOk(phase'[x], x, t, link'[x][t], got'[x], timedOut')
    BY DEF WiresOk
  <2>1. WireOk(phase[x], x, t, link[x][t], got[x], timedOut)
    BY WireAt
  <2>2. phase[x] \in {"new", "deciding", "h2"} => phase[x] \notin {"on h1", "on h2"} \cup Shut
    BY DEF Shut
  <2> QED BY <2>1, <2>2 DEF WireOk
<1>3. AllNumbersOk'
  <2> SUFFICES ASSUME NEW x \in Run
               PROVE  NumbersOk(x, next'[x], flying', arrived'[x], link'[x]["h2"].out)
    BY DEF AllNumbersOk
  <2>1. CASE x # r
    <3>1. NumbersOk(x, next[x], flying, arrived[x], link[x]["h2"].out)
      BY DEF ConnectInv, AllNumbersOk
    <3>2. \A q : q.run = x => (q \in flying' <=> q \in flying)
      BY <2>1
    <3>3. NumbersOk(x, next[x], flying', arrived[x], link[x]["h2"].out)
      BY <3>1, <3>2, OthersNumbers
    <3> QED BY <2>1, <3>3
  <2> QED BY <2>1
<1> QED BY <1>1, <1>2, <1>3 DEF ConnectInv

LEMMA NumbersAt ==
  ASSUME ConnectInv, NEW r \in Run
  PROVE  /\ NumbersOk(r, next[r], flying, arrived[r], link[r]["h2"].out)
         /\ next \in [Run -> 0 .. Sends] /\ arrived \in [Run -> Seq(Nat \X Nat)]
         /\ flying \subseteq Sending /\ \A q \in flying : q.seq \in Nat
         /\ next[r] \in Nat /\ arrived[r] \in Seq(Nat \X Nat) /\ link[r]["h2"].out \in Seq(Nat)
         /\ link \in [Run -> [Connect!Transport -> WireState]] /\ "h2" \in Connect!Transport
<1>1. "h2" \in Connect!Transport
  BY DEF Connect!Transport
<1>2. /\ next \in [Run -> 0 .. Sends] /\ arrived \in [Run -> Seq(Nat \X Nat)]
      /\ flying \subseteq Sending /\ link \in [Run -> [Connect!Transport -> WireState]]
  BY DEF ConnectInv, ConnectShape, Sending
<1>3. \A q \in flying : q.seq \in Nat
  BY <1>2, ConnectAssumption DEF Sending
<1>4. next[r] \in Nat
  BY <1>2, ConnectAssumption
<1>5. link[r]["h2"].out \in Seq(Nat)
  BY <1>1, <1>2 DEF WireState
<1> QED BY <1>1, <1>2, <1>3, <1>4, <1>5 DEF ConnectInv, AllNumbersOk

LEMMA AppendStep ==
  ASSUME ConnectInv, NEW q \in flying,
         Connect!Appended(q) \/ Connect!AppendFails(q) \/ Connect!AppendStale(q)
  PROVE  ConnectInv'
<1> DEFINE r == q.run
           again == [q EXCEPT !.again = TRUE]
<1>1. q \in Sending /\ r \in Run
  BY DEF ConnectInv, ConnectShape, Sending
<1>2. /\ NumbersOk(r, next[r], flying, arrived[r], link[r]["h2"].out)
      /\ next \in [Run -> 0 .. Sends] /\ arrived \in [Run -> Seq(Nat \X Nat)]
      /\ flying \subseteq Sending /\ \A p \in flying : p.seq \in Nat
      /\ next[r] \in Nat /\ arrived[r] \in Seq(Nat \X Nat)
      /\ link \in [Run -> [Connect!Transport -> WireState]]
  BY <1>1, NumbersAt
<1>3. /\ again \in Sending /\ again.run = r /\ again.seq = q.seq /\ again.msg = q.msg
      /\ q.seq \in Nat /\ q.msg \in Nat
  <2>1. again \in Sending /\ again.run = r /\ again.seq = q.seq /\ again.msg = q.msg
    BY <1>1 DEF Sending
  <2>2. q.msg \in Nat
    BY <1>1 DEF Sending
  <2> QED BY <1>2, <2>1, <2>2
<1> HIDE DEF again
<1>4. /\ NumbersOk(r, next[r], flying \ {q}, arrived[r], link[r]["h2"].out)
      /\ NumbersOk(r, next[r], flying \ {q}, Append(arrived[r], <<q.seq, q.msg>>), link[r]["h2"].out)
      /\ NumbersOk(r, next[r], (flying \ {q}) \cup {again}, arrived[r], link[r]["h2"].out)
  BY <1>2, <1>3, RequestGone
<1>5. /\ UNCHANGED <<failed, config, phase, link, next, got, timedOut>>
      /\ flying' = flying \ {q} \/ flying' = (flying \ {q}) \cup {again}
  BY DEF Connect!Appended, Connect!AppendFails, Connect!AppendStale, again
<1>6. flying' \subseteq Sending /\ \A p : p.run # r => (p \in flying' <=> p \in flying)
  BY <1>2, <1>3, <1>5
<1>7. /\ arrived' \in [Run -> Seq(Nat \X Nat)]
      /\ \A x \in Run : x # r => arrived'[x] = arrived[x]
      /\ NumbersOk(r, next'[r], flying', arrived'[r], link'[r]["h2"].out)
  <2>1. CASE Connect!Appended(q)
    <3> DEFINE ar == Append(arrived[r], <<q.seq, q.msg>>)
    <3>1. ar \in Seq(Nat \X Nat)
      BY <1>2, <1>3
    <3>2. flying' = flying \ {q} /\ arrived' = [arrived EXCEPT ![r] = ar]
      BY <2>1 DEF Connect!Appended
    <3> HIDE DEF ar
    <3>3. arrived' \in [Run -> Seq(Nat \X Nat)] /\ arrived'[r] = ar
          /\ \A x \in Run : x # r => arrived'[x] = arrived[x]
      BY <1>1, <1>2, <3>1, <3>2
    <3>4. NumbersOk(r, next[r], flying \ {q}, ar, link[r]["h2"].out)
      BY <1>4 DEF ar
    <3> QED BY <1>5, <3>2, <3>3, <3>4
  <2>2. CASE Connect!AppendFails(q)
    BY <1>2, <1>4, <1>5, <2>2 DEF Connect!AppendFails
  <2>3. CASE Connect!AppendStale(q)
    BY <1>2, <1>4, <1>5, <2>3 DEF Connect!AppendStale, again
  <2> QED BY <2>1, <2>2, <2>3
<1> HIDE DEF r
<1> QED BY <1>1, <1>2, <1>5, <1>6, <1>7, SentStep

LEMMA SendStep ==
  ASSUME ConnectInv, NEW r \in Run, Connect!Send(r)
  PROVE  ConnectInv'
<1> DEFINE n == next[r]
           o == link[r]["h2"].out
           q == [run |-> r, seq |-> n, msg |-> n + 1, again |-> FALSE]
<1>1. /\ NumbersOk(r, n, flying, arrived[r], o)
      /\ next \in [Run -> 0 .. Sends] /\ arrived \in [Run -> Seq(Nat \X Nat)]
      /\ flying \subseteq Sending /\ \A p \in flying : p.seq \in Nat
      /\ n \in Nat /\ arrived[r] \in Seq(Nat \X Nat) /\ o \in Seq(Nat)
      /\ link \in [Run -> [Connect!Transport -> WireState]] /\ "h2" \in Connect!Transport
  BY NumbersAt
<1>2. /\ phase[r] \in {"on h1", "on h2"} /\ n < Sends /\ next' = [next EXCEPT ![r] = n + 1]
      /\ UNCHANGED <<failed, config, phase, arrived, got, timedOut>>
  BY DEF Connect!Send, Connect!On
<1>3. /\ next' \in [Run -> 0 .. Sends] /\ next'[r] = n + 1 /\ n + 1 \in Nat /\ n \in 0 .. Sends
      /\ \A x \in Run : x # r => next'[x] = next[x]
  <2> DEFINE m == n + 1
  <2>1. n \in 0 .. Sends /\ m \in 0 .. Sends /\ m \in Nat
    <3>1. n \in 0 .. Sends /\ n < Sends
      BY <1>1, <1>2
    <3>2. Sends \in Nat
      BY ConnectAssumption
    <3> HIDE DEF n
    <3> QED BY <3>1, <3>2
  <2>2. next' = [next EXCEPT ![r] = m]
    BY <1>2
  <2> HIDE DEF m
  <2>3. next' \in [Run -> 0 .. Sends] /\ next'[r] = m /\ \A x \in Run : x # r => next'[x] = next[x]
    BY <1>1, <2>1, <2>2
  <2> QED BY <2>1, <2>3 DEF m
<1>4. \/ flying' = flying \cup {q} /\ UNCHANGED link
      \/ link' = [link EXCEPT ![r]["h2"].out = Append(@, n + 1)] /\ UNCHANGED flying
  BY <1>3 DEF Connect!Send
<1>5. /\ q \in Sending /\ q.run = r /\ q.seq = n /\ q.msg = n + 1
  BY <1>3 DEF Sending
<1>6. CASE flying' = flying \cup {q} /\ UNCHANGED link
  <2> HIDE DEF q
  <2>1. NumbersOk(r, n + 1, flying \cup {q}, arrived[r], o)
    BY <1>1, <1>5, NumberTaken
  <2>2. flying' \subseteq Sending /\ \A p : p.run # r => (p \in flying' <=> p \in flying)
    BY <1>1, <1>5, <1>6
  <2> QED BY <1>1, <1>2, <1>3, <1>6, <2>1, <2>2, SentStep
<1>7. CASE link' = [link EXCEPT ![r]["h2"].out = Append(@, n + 1)] /\ UNCHANGED flying
  <2> DEFINE out == Append(o, n + 1)
             e == [link[r]["h2"] EXCEPT !.out = out]
  <2>1. NumbersOk(r, n + 1, flying, arrived[r], out)
    BY <1>1, NumberTaken
  <2>2. out \in Seq(Nat)
    BY <1>1, <1>3
  <2>3. link' = [link EXCEPT ![r]["h2"].out = out]
    BY <1>7
  <2> HIDE DEF out
  <2>4. link[r]["h2"] \in WireState
    BY <1>1
  <2>5. /\ e \in WireState /\ e.task = link[r]["h2"].task /\ e.err = link[r]["h2"].err
        /\ e.pieces = link[r]["h2"].pieces /\ e.queue = link[r]["h2"].queue /\ e.out = out
    BY <2>2, <2>4 DEF WireState
  <2>6. WirePut(r, "h2", e)
    BY <1>1, <2>3, <2>5 DEF WirePut
  <2> HIDE DEF e
  <2>7. ASSUME NEW x \in Run, NEW t \in Connect!Transport
        PROVE  /\ link'[x][t].task = link[x][t].task /\ link'[x][t].err = link[x][t].err
               /\ link'[x][t].pieces = link[x][t].pieces /\ link'[x][t].queue = link[x][t].queue
               /\ link[x][t] = Connect!Other /\ phase[x] \notin {"on h1", "on h2"} \cup Shut =>
                    link'[x][t] = Connect!Other
    <3>1. CASE x = r /\ t = "h2"
      BY <1>2, <2>5, <2>6, <3>1 DEF WirePut
    <3>2. CASE ~(x = r /\ t = "h2")
      BY <1>1, <2>6, <3>2 DEF WirePut
    <3> QED BY <3>1, <3>2
  <2>8. link' \in [Run -> [Connect!Transport -> WireState]] /\ link'[r]["h2"].out = out
        /\ \A x \in Run : x # r => link'[x]["h2"].out = link[x]["h2"].out
    BY <2>5, <2>6 DEF WirePut
  <2> HIDE DEF n
  <2> QED BY <1>1, <1>2, <1>3, <1>7, <2>1, <2>7, <2>8, SentStep
<1> QED BY <1>4, <1>6, <1>7

LEMMA BodyStep ==
  ASSUME ConnectInv, NEW r \in Run, Connect!BodySent(r)
  PROVE  ConnectInv'
<1> DEFINE w == link[r]["h2"]
           o == w.out
           rest == Tail(o)
           ar == Append(arrived[r], <<Head(o) - 1, Head(o)>>)
           e == [w EXCEPT !.out = rest]
<1>1. /\ NumbersOk(r, next[r], flying, arrived[r], o)
      /\ next \in [Run -> 0 .. Sends] /\ arrived \in [Run -> Seq(Nat \X Nat)]
      /\ flying \subseteq Sending
      /\ next[r] \in Nat /\ arrived[r] \in Seq(Nat \X Nat) /\ o \in Seq(Nat)
      /\ link \in [Run -> [Connect!Transport -> WireState]] /\ "h2" \in Connect!Transport
  BY NumbersAt
<1>2. /\ o # <<>> /\ w.task \in {"connecting", "streaming"}
      /\ arrived' = [arrived EXCEPT ![r] = Append(@, <<Head(o) - 1, Head(o)>>)]
      /\ link' = [link EXCEPT ![r]["h2"].out = Tail(@)]
      /\ UNCHANGED <<failed, config, phase, next, flying, got, timedOut>>
  BY DEF Connect!BodySent, Connect!Working
<1>3. arrived' = [arrived EXCEPT ![r] = ar] /\ link' = [link EXCEPT ![r]["h2"].out = rest]
  BY <1>2
<1>4. NumbersOk(r, next[r], flying, ar, rest)
  BY <1>1, <1>2, BodyNumber
<1>5. rest \in Seq(Nat) /\ ar \in Seq(Nat \X Nat)
  <2>1. 1 \in DOMAIN o /\ Head(o) = o[1] /\ Head(o) \in 1 .. next[r]
    BY <1>1, <1>2 DEF NumbersOk
  <2>2. Head(o) - 1 \in Nat /\ Head(o) \in Nat
    BY <1>1, <2>1
  <2> DEFINE p == <<Head(o) - 1, Head(o)>>
  <2>3. p \in Nat \X Nat
    BY <2>2
  <2>4. rest \in Seq(Nat)
    BY <1>1, <1>2
  <2> HIDE DEF p
  <2>5. Append(arrived[r], p) \in Seq(Nat \X Nat)
    BY <1>1, <2>3
  <2> QED BY <2>4, <2>5 DEF p
<1> HIDE DEF rest, ar
<1>6. w \in WireState
  BY <1>1
<1>7. /\ e \in WireState /\ e.task = w.task /\ e.err = w.err
      /\ e.pieces = w.pieces /\ e.queue = w.queue /\ e.out = rest
  BY <1>5, <1>6 DEF WireState
<1>8. WirePut(r, "h2", e)
  BY <1>1, <1>3, <1>7 DEF WirePut
<1> HIDE DEF e
<1>9. ASSUME NEW x \in Run, NEW t \in Connect!Transport
      PROVE  /\ link'[x][t].task = link[x][t].task /\ link'[x][t].err = link[x][t].err
             /\ link'[x][t].pieces = link[x][t].pieces /\ link'[x][t].queue = link[x][t].queue
             /\ link[x][t] = Connect!Other /\ phase[x] \notin {"on h1", "on h2"} \cup Shut =>
                  link'[x][t] = Connect!Other
  <2>1. CASE x = r /\ t = "h2"
    <3>1. link[x][t] # Connect!Other
      BY <1>2, <2>1 DEF Connect!Other
    <3> QED BY <1>7, <1>8, <2>1, <3>1 DEF WirePut
  <2>2. CASE ~(x = r /\ t = "h2")
    BY <1>1, <1>8, <2>2 DEF WirePut
  <2> QED BY <2>1, <2>2
<1>10. /\ link' \in [Run -> [Connect!Transport -> WireState]] /\ link'[r]["h2"].out = rest
       /\ \A x \in Run : x # r => link'[x]["h2"].out = link[x]["h2"].out
  BY <1>7, <1>8 DEF WirePut
<1>11. /\ arrived' \in [Run -> Seq(Nat \X Nat)] /\ arrived'[r] = ar
       /\ \A x \in Run : x # r => arrived'[x] = arrived[x]
  BY <1>1, <1>3, <1>5
<1> QED BY <1>1, <1>2, <1>4, <1>9, <1>10, <1>11, SentStep

LEMMA InitConnect == Connect!Init => ConnectInv
<1> SUFFICES ASSUME Connect!Init PROVE ConnectInv
  OBVIOUS
<1>1. /\ failed \in BOOLEAN /\ config \in {"unset", "none"} /\ phase = [r \in Run |-> "new"]
      /\ link = [r \in Run |-> [t \in Connect!Transport |-> Connect!Other]]
      /\ next = [r \in Run |-> 0] /\ flying = {} /\ timedOut = {}
      /\ arrived = [r \in Run |-> <<>>] /\ got = [r \in Run |-> <<>>]
  BY DEF Connect!Init
<1>2. /\ <<>> \in Seq(Nat \X Nat) /\ <<>> \in Seq(0 .. LastFrame) /\ <<>> \in Seq(Nat)
      /\ 0 \in 0 .. Sends /\ 0 \in 0 .. 2 * LastFrame
  BY ConnectAssumption, FramesAreNat
<1>3. /\ Connect!Other \in WireState /\ Connect!Other.queue = <<>> /\ Connect!Other.pieces = 0
      /\ Connect!Other.task = "none" /\ Connect!Other.err = "none" /\ Connect!Other.out = <<>>
  BY <1>2 DEF Connect!Other, WireState
<1>4. ConnectShape
  BY <1>1, <1>2, <1>3 DEF ConnectShape, Phase
<1>5. ASSUME NEW r \in Run, NEW t \in Connect!Transport
      PROVE  WireOk(phase[r], r, t, link[r][t], got[r], timedOut)
  <2>1. phase[r] = "new" /\ link[r][t] = Connect!Other /\ got[r] = <<>>
    BY <1>1
  <2>2. Seen("new", t, Connect!Other.queue, <<>>) = <<>>
    BY <1>3 DEF Seen, InUse
  <2>3. Connect!Complete(Connect!Other.pieces) = 0
    BY <1>3 DEF Connect!Complete
  <2>4. Ordered(<<>>, FALSE, 0)
    BY <1>2, FramesAreNat DEF Ordered
  <2>5. (Connect!Other.task = "over") = FALSE
    BY <1>3
  <2>6. Ordered(Seen("new", t, Connect!Other.queue, <<>>), Connect!Other.task = "over",
                Connect!Complete(Connect!Other.pieces))
    BY <2>2, <2>3, <2>4, <2>5
  <2> QED BY <1>3, <2>1, <2>6 DEF WireOk
<1>6. ASSUME NEW r \in Run
      PROVE  NumbersOk(r, next[r], flying, arrived[r], link[r]["h2"].out)
  <2>1. "h2" \in Connect!Transport
    BY DEF Connect!Transport
  <2> QED BY <1>1, <1>3, <2>1 DEF NumbersOk
<1> QED BY <1>4, <1>5, <1>6 DEF ConnectInv, WiresOk, AllNumbersOk

LEMMA NextConnect == ConnectInv /\ [Connect!Next]_connectVars => ConnectInv'
<1> SUFFICES ASSUME ConnectInv, [Connect!Next]_connectVars PROVE ConnectInv'
  OBVIOUS
<1>1. CASE UNCHANGED connectVars
  <2>1. UNCHANGED <<failed, config, phase, link, next, flying, arrived, got, timedOut>>
    BY <1>1 DEF connectVars
  <2>2. ConnectShape'
    BY <2>1 DEF ConnectInv, ConnectShape
  <2>3. WiresOk' /\ AllNumbersOk'
    BY <2>1 DEF ConnectInv, WiresOk, AllNumbersOk
  <2> QED BY <2>2, <2>3 DEF ConnectInv
<1>2. ASSUME NEW r \in Run, Connect!Opening(r) PROVE ConnectInv'
  BY <1>2, OpenStep, StartStep, RaiseStep DEF Connect!Opening
<1>3. ASSUME NEW r \in Run, Connect!Close(r) \/ Connect!Closes(r) PROVE ConnectInv'
  BY <1>3, CloseStep, TaskEndsStep DEF Connect!Closes
<1>4. ASSUME NEW r \in Run, Connect!Read(r) \/ Connect!Send(r) \/ Connect!BodySent(r)
      PROVE  ConnectInv'
  BY <1>4, ReadStep, SendStep, BodyStep
<1>5. ASSUME NEW r \in Run, NEW t \in Connect!Transport, Connect!Service(r, t) PROVE ConnectInv'
  <2>1. ASSUME NEW n \in 1 .. 2 * Connect!End, NEW c \in Connect!Closing, Connect!Chunk(r, t, n, c)
        PROVE  ConnectInv'
    BY <2>1, ChunkStep DEF LastFrame
  <2> QED BY <1>5, <2>1, ConnectedStep, TaskEndsStep DEF Connect!Service
<1>6. ASSUME NEW q \in flying, Connect!Appended(q) \/ Connect!AppendFails(q) \/ Connect!AppendStale(q)
      PROVE  ConnectInv'
  BY <1>6, AppendStep
<1> QED BY <1>1, <1>2, <1>3, <1>4, <1>5, <1>6 DEF Connect!Next

\* A run's other transport is out of work unless its start took too long.
THEOREM OneTransportCorrect == Connect!Spec => []OneTransport
<1>1. ConnectInv => OneTransport
  <2> SUFFICES ASSUME ConnectInv, NEW r \in Run, NEW t \in Connect!Transport,
                      Connect!Working(r, t), <<r, t>> \notin timedOut
               PROVE  phase[r] \in IF t = "h1" THEN {"h1", "on h1", "closing h1"}
                                   ELSE {"h2", "on h2", "closing h2"}
    BY DEF OneTransport, Connect!OneTransport
  <2>1. phase[r] \in {t, InUse(t), ClosingOf(t)}
    BY WireAt DEF WireOk, Connect!Working
  <2> QED BY <2>1 DEF InUse, ClosingOf, Connect!Transport
<1>2. Connect!Spec => Connect!Init /\ [][Connect!Next]_connectVars
  BY DEF Connect!Spec, Connect!vars, connectVars
<1> QED BY <1>1, <1>2, InitConnect, NextConnect, PTL

\* What the module's own type invariant says follows.
LEMMA ConnectTyped == ConnectInv => Connect!TypeOK
<1> SUFFICES ASSUME ConnectInv PROVE Connect!TypeOK
  OBVIOUS
<1>0. /\ phase \in [Run -> Phase] /\ link \in [Run -> [Connect!Transport -> WireState]]
      /\ next \in [Run -> 0 .. Sends] /\ flying \subseteq Sending /\ failed \in BOOLEAN
      /\ config \in {"unset", "none", "h1", "h2"}
  BY DEF ConnectInv, ConnectShape, Sending
<1>1. ASSUME NEW r \in Run, NEW t \in Connect!Transport
      PROVE  /\ link[r][t].task \in {"none", "connecting", "streaming", "over"}
             /\ link[r][t].err \in {"none", "fallback", "fatal"}
             /\ link[r][t].pieces \in 0 .. 2 * Connect!End
             /\ Connect!ToSet(link[r][t].queue) \subseteq 1 .. Messages \cup Connect!Closing
  <2>1. link[r][t] \in WireState
    BY <1>0
  <2> DEFINE q == link[r][t].queue
  <2>2. q \in Seq(0 .. LastFrame)
    BY <2>1 DEF WireState
  <2>3. 0 .. LastFrame \subseteq 1 .. Messages \cup Connect!Closing
    BY FramesAreNat DEF Connect!Closing, Connect!Ended, Connect!Error, LastFrame
  <2>4. Connect!ToSet(q) = {q[i] : i \in DOMAIN q}
    BY DEF Connect!ToSet
  <2> HIDE DEF q
  <2>5. \A i \in DOMAIN q : q[i] \in 0 .. LastFrame
    <3>1. DOMAIN q = 1 .. Len(q)
      BY <2>2
    <3> QED BY <2>2, <3>1, ElementOfSeq
  <2>6. Connect!ToSet(q) \subseteq 1 .. Messages \cup Connect!Closing
    BY <2>3, <2>4, <2>5
  <2> QED BY <2>1, <2>6 DEF WireState, LastFrame, q
<1>2. ASSUME NEW q \in flying PROVE q.run \in Run /\ q.seq \in 0 .. Sends /\ q.again \in BOOLEAN
  BY <1>0 DEF Sending
<1> QED BY <1>0, <1>1, <1>2 DEF Connect!TypeOK, Phase

\* Whatever is seen of a transport is in order.
LEMMA SeenInOrder ==
  ASSUME NEW s, NEW over, NEW n, Ordered(s, over, n), over \in BOOLEAN
  PROVE  LET closings == {i \in DOMAIN s : s[i] \in Connect!Closing} IN
         /\ closings \subseteq {Len(s)}
         /\ closings = {} <=> ~over
         /\ \A i \in DOMAIN s \ closings : s[i] = i
         /\ Len(s) - Cardinality(closings) = (IF n = LastFrame THEN Messages ELSE n)
<1> DEFINE closings == {i \in DOMAIN s : s[i] \in Connect!Closing}
<1>0. /\ s \in Seq(0 .. LastFrame) /\ DOMAIN s = 1 .. Len(s) /\ Len(s) \in Nat
      /\ n \in 0 .. LastFrame
  BY DEF Ordered
<1>1. Connect!Closing = {0, LastFrame}
  BY DEF Connect!Closing, Connect!Ended, Connect!Error, LastFrame
<1>2. CASE ~over
  <2>1. n < LastFrame /\ Len(s) = n /\ \A i \in 1 .. n : s[i] = i
    BY <1>2 DEF Ordered
  <2>2. \A i \in 1 .. n : i # 0 /\ i # LastFrame
    BY <1>0, <2>1, FramesAreNat
  <2>3. closings = {}
    BY <1>0, <1>1, <2>1, <2>2
  <2>4. Cardinality(closings) = 0
    BY <2>3, FS_EmptySet
  <2>5. Len(s) - 0 = n /\ n # LastFrame
    BY <1>0, <2>1, FramesAreNat
  <2> HIDE DEF closings
  <2> QED BY <1>0, <1>2, <2>1, <2>3, <2>4, <2>5 DEF closings
<1>3. CASE over
  <2>1. /\ Len(s) # 0 /\ s[Len(s)] \in Connect!Closing
        /\ Len(s) - 1 = (IF n = LastFrame THEN Messages ELSE n)
        /\ \A i \in 1 .. Len(s) - 1 : s[i] = i
    BY <1>3 DEF Ordered
  <2>2. Len(s) - 1 < LastFrame
    <3>1. CASE n = LastFrame
      BY <2>1, <3>1, FramesAreNat
    <3>2. CASE n # LastFrame
      BY <1>0, <2>1, <3>2, FramesAreNat
    <3> QED BY <3>1, <3>2
  <2>3. \A i \in 1 .. Len(s) - 1 : i # 0 /\ i # LastFrame
    BY <1>0, <2>2, FramesAreNat
  <2>4. \A i \in 1 .. Len(s) : i = Len(s) \/ i \in 1 .. Len(s) - 1
    <3> DEFINE m == Len(s)
    <3>1. m \in Nat
      BY <1>0
    <3> HIDE DEF m
    <3>2. \A i \in 1 .. m : i = m \/ i \in 1 .. m - 1
      BY <3>1
    <3> QED BY <3>2 DEF m
  <2>5. closings = {Len(s)}
    <3>1. Len(s) \in DOMAIN s
      BY <1>0, <2>1
    <3>2. ASSUME NEW i \in DOMAIN s, s[i] \in Connect!Closing PROVE i = Len(s)
      BY <1>0, <1>1, <2>1, <2>3, <2>4, <3>2
    <3> QED BY <2>1, <3>1, <3>2
  <2>6. Cardinality(closings) = 1
    BY <2>5, FS_Singleton
  <2> HIDE DEF closings
  <2> QED BY <1>0, <1>3, <2>1, <2>4, <2>5, <2>6 DEF closings
<1> QED BY <1>2, <1>3

LEMMA SameCardinality == \A S : Connect!Cardinality(S) = Cardinality(S)
BY DEF Connect!Cardinality, Cardinality

\* The order of messages both ways, and the numbers they are sent under: a message
\* is where Ordered says, and no number is used twice.
THEOREM InOrderCorrect == Connect!Spec => []InOrder
<1>1. ConnectInv => InOrder
  <2> SUFFICES ASSUME ConnectInv PROVE InOrder
    OBVIOUS
  <2>1. ASSUME NEW r \in Run, NEW i \in DOMAIN arrived[r], NEW j \in DOMAIN arrived[r]
        PROVE  /\ arrived[r][i][2] = arrived[r][i][1] + 1
               /\ i # j => arrived[r][i][1] # arrived[r][j][1]
    BY NumbersAt DEF NumbersOk
  <2>2. ASSUME NEW r \in Run, NEW t \in Connect!Transport
        PROVE  LET seen == IF t = Connect!On(r) THEN got[r] \o link[r][t].queue
                           ELSE link[r][t].queue
                   closings == {i \in DOMAIN seen : seen[i] \in Connect!Closing} IN
               (t = Connect!On(r) \/ phase[r] \notin {"closed", "closing h1", "closing h2"}) =>
                 /\ closings \subseteq {Len(seen)}
                 /\ closings = {} <=> link[r][t].task # "over"
                 /\ \A i \in DOMAIN seen \ closings : seen[i] = i
                 /\ Len(seen) - Connect!Cardinality(closings) =
                      (IF Connect!Complete(link[r][t].pieces) = Connect!End THEN Messages
                       ELSE Connect!Complete(link[r][t].pieces))
    <3> DEFINE seen == IF t = Connect!On(r) THEN got[r] \o link[r][t].queue
                       ELSE link[r][t].queue
    <3> SUFFICES ASSUME t = Connect!On(r) \/ phase[r] \notin Shut
                 PROVE  LET closings == {i \in DOMAIN seen : seen[i] \in Connect!Closing} IN
                        /\ closings \subseteq {Len(seen)}
                        /\ closings = {} <=> link[r][t].task # "over"
                        /\ \A i \in DOMAIN seen \ closings : seen[i] = i
                        /\ Len(seen) - Connect!Cardinality(closings) =
                             (IF Connect!Complete(link[r][t].pieces) = Connect!End THEN Messages
                              ELSE Connect!Complete(link[r][t].pieces))
      BY DEF Shut
    <3>1. t = Connect!On(r) <=> phase[r] = InUse(t)
      BY DEF Connect!On, InUse, Connect!Transport
    <3>2. phase[r] \notin Shut
      BY <3>1 DEF Shut, InUse
    <3>3. seen = Seen(phase[r], t, link[r][t].queue, got[r])
      BY <3>1 DEF Seen
    <3>4. Ordered(seen, link[r][t].task = "over", Connect!Complete(link[r][t].pieces))
      BY <3>2, <3>3, WireAt DEF WireOk
    <3> HIDE DEF seen
    <3> QED BY <3>4, SeenInOrder, SameCardinality DEF LastFrame
  <2> QED BY <2>1, <2>2, ConnectTyped DEF InOrder, Connect!InOrder
<1>2. Connect!Spec => Connect!Init /\ [][Connect!Next]_connectVars
  BY DEF Connect!Spec, Connect!vars, connectVars
<1> QED BY <1>1, <1>2, InitConnect, NextConnect, PTL

-----------------------------------------------------------------------------
(* Subagents.                                                              *)

JobState == [future : Agents!Outcome \cup {"none"}, moved : BOOLEAN,
             runs : Agents!Outcome \cup {"no", "yes", "cancelled"}]
AskedState == [kind : {"none", "foreground", "background", "await", "await timed", "force"},
               of : Agents!Job \cup {Agents!NoJob}, at : {"idle", "waiting", "over", "cancelled"},
               answer : Agents!Answers \cup {"none"}]

AgentsShape ==
  /\ job \in [Agents!Job -> JobState] /\ asked \in [Request -> AskedState]
  /\ byTool \in [ToolCall -> Agents!Job \cup {Agents!NoJob}]
\* The future of a job is how its run ended.
JobFits(f) == f.future = IF f.runs \in Agents!Outcome THEN f.runs ELSE "none"
\* A request waits for a job that runs or is over, and its answer is how that ended.
AskFits(e, jobs) ==
  /\ e.at = "waiting" => e.of \in Agents!Job /\ jobs[e.of].runs \in Agents!Outcome \cup {"yes"}
  /\ e.at = "over" /\ e.kind \in {"await", "await timed"} /\ e.of # Agents!NoJob =>
       /\ e.of \in Agents!Job
       /\ \/ e.answer \in Agents!Outcome /\ e.answer = jobs[e.of].runs
          \/ e.answer = "still running" /\ e.kind = "await timed"
AgentsInv ==
  /\ AgentsShape
  /\ \A j \in Agents!Job : JobFits(job[j])
  /\ \A q \in Request : asked[q].at = "idle" => job[q].runs = "no"
  /\ \A q \in Request : AskFits(asked[q], job)
  /\ \A j \in Agents!Job, q \in Request :
       job[j].runs = "cancelled" => asked[q].at \notin {"idle", "waiting"}

\* A request, or a job, is now another one, and the others are as they were.
AskedPut(q, e) == /\ asked' \in [Request -> AskedState] /\ asked'[q] = e
                  /\ \A p \in Request : p # q => asked'[p] = asked[p]
JobPut(j, f) == /\ job' \in [Agents!Job -> JobState] /\ job'[j] = f
                /\ \A i \in Agents!Job : i # j => job'[i] = job[i]

LEMMA Puts ==
  ASSUME AgentsInv
  PROVE  /\ \A q \in Request, e \in AskedState : asked' = [asked EXCEPT ![q] = e] => AskedPut(q, e)
         /\ \A q \in Request : asked' = asked => AskedPut(q, asked[q])
         /\ \A j \in Agents!Job, f \in JobState : job' = [job EXCEPT ![j] = f] => JobPut(j, f)
         /\ \A j \in Agents!Job : job' = job => JobPut(j, job[j])
BY DEF AskedPut, JobPut, AgentsInv, AgentsShape

\* How a run may go on.
GoesOn(from, to) == \/ to = from
                    \/ from = "yes" /\ to \in Agents!Outcome
                    \/ from = "no" /\ to = "yes"

\* What a request is told stays true while jobs go on.
LEMMA AskStays ==
  ASSUME NEW e \in AskedState, AskFits(e, job),
         \A j \in Agents!Job : GoesOn(job[j].runs, job'[j].runs)
  PROVE  AskFits(e, job')
BY DEF AskFits, GoesOn, Agents!Outcome

\* A step of one request and of one job.
LEMMA AgentsStep ==
  ASSUME AgentsInv, NEW q \in Request, NEW e, AskedPut(q, e), NEW j \in Agents!Job, NEW f, JobPut(j, f),
         byTool' \in [ToolCall -> Agents!Job \cup {Agents!NoJob}],
         JobFits(f), GoesOn(job[j].runs, f.runs),
         job[j].runs = "no" /\ f.runs = "yes" => j = q /\ asked[q].at = "idle" /\ e.at # "idle",
         \/ e = asked[q]
         \/ asked[q].at \in {"idle", "waiting"} /\ e.at # "idle" /\ AskFits(e, job')
  PROVE  AgentsInv'
<1>1. /\ \A p \in Request : asked[p] \in AskedState /\ p \in Agents!Job
      /\ \A i \in Agents!Job : job[i] \in JobState /\ i \in Request
  BY DEF AgentsInv, AgentsShape, Agents!Job
<1>2. AgentsShape'
  BY DEF AgentsShape, AskedPut, JobPut
<1>3. \A i \in Agents!Job : JobFits(job'[i])
  BY DEF AgentsInv, JobPut
<1>4. \A i \in Agents!Job : GoesOn(job[i].runs, job'[i].runs)
  BY DEF JobPut, GoesOn
<1>5. ASSUME NEW p \in Request, asked'[p].at = "idle" PROVE job'[p].runs = "no"
  <2>1. asked'[p] = asked[p]
    BY <1>5 DEF AskedPut
  <2>2. job[p].runs = "no"
    BY <1>5, <2>1 DEF AgentsInv
  <2>3. CASE p = j
    <3>1. f.runs \in {"no", "yes"}
      BY <2>2, <2>3 DEF GoesOn
    <3>2. f.runs # "yes"
      BY <1>5, <2>2, <2>3 DEF AskedPut
    <3> QED BY <2>3, <3>1, <3>2 DEF JobPut
  <2>4. CASE p # j
    BY <1>1, <2>2, <2>4 DEF JobPut
  <2> QED BY <2>3, <2>4
<1>6. ASSUME NEW p \in Request PROVE AskFits(asked'[p], job')
  <2>1. CASE asked'[p] = asked[p]
    <3>1. asked[p] \in AskedState /\ AskFits(asked[p], job)
      BY <1>1 DEF AgentsInv
    <3> QED BY <1>4, <2>1, <3>1, AskStays
  <2>2. CASE asked'[p] # asked[p]
    <3>1. p = q /\ asked'[p] = e /\ AskFits(e, job')
      BY <2>2 DEF AskedPut
    <3> QED BY <3>1
  <2> QED BY <2>1, <2>2
<1>7. ASSUME NEW i \in Agents!Job, NEW p \in Request, job'[i].runs = "cancelled"
      PROVE  asked'[p].at \notin {"idle", "waiting"}
  <2>1. job[i].runs = "cancelled"
    BY <1>4, <1>7 DEF GoesOn, Agents!Outcome
  <2>2. asked[p].at \notin {"idle", "waiting"} /\ asked[q].at \notin {"idle", "waiting"}
    BY <2>1 DEF AgentsInv
  <2> QED BY <2>2 DEF AskedPut
<1> QED BY <1>2, <1>3, <1>5, <1>6, <1>7 DEF AgentsInv

\* What a request that waits waits for.
LEMMA WaitedFor ==
  ASSUME AgentsInv, NEW q \in Request, asked[q].at = "waiting"
  PROVE  /\ asked[q] \in AskedState /\ asked[q].of \in Agents!Job /\ job[asked[q].of] \in JobState
         /\ job[asked[q].of].future # "none" =>
              /\ job[asked[q].of].future \in Agents!Outcome
              /\ job[asked[q].of].future = job[asked[q].of].runs
<1>1. AskFits(asked[q], job) /\ asked[q] \in AskedState
  BY DEF AgentsInv, AgentsShape
<1>2. asked[q].of \in Agents!Job
  BY <1>1 DEF AskFits
<1>3. job[asked[q].of] \in JobState /\ JobFits(job[asked[q].of])
  BY <1>2 DEF AgentsInv, AgentsShape
<1> QED BY <1>1, <1>2, <1>3 DEF JobFits

\* A request is over, or waits, and the jobs are as they were.
LEMMA RequestStepOf ==
  ASSUME AgentsInv, NEW q \in Request, NEW e \in AskedState, asked' = [asked EXCEPT ![q] = e],
         UNCHANGED <<job, byTool>>, asked[q].at \in {"idle", "waiting"}, e.at # "idle", AskFits(e, job)
  PROVE  AgentsInv'
<1>1. q \in Agents!Job /\ JobFits(job[q]) /\ job[q] \in JobState
  BY DEF AgentsInv, AgentsShape, Agents!Job
<1>2. AskedPut(q, e) /\ JobPut(q, job[q])
  BY <1>1, Puts
<1>3. AskFits(e, job')
  BY DEF AskFits
<1>4. byTool' \in [ToolCall -> Agents!Job \cup {Agents!NoJob}]
  BY DEF AgentsInv, AgentsShape
<1> QED BY <1>1, <1>2, <1>3, <1>4, AgentsStep DEF GoesOn

LEMMA JobStarts ==
  ASSUME AgentsInv, NEW q \in Request, NEW tool \in ToolCall \cup {""}, NEW background \in BOOLEAN,
         Agents!Start(q, tool, background)
  PROVE  AgentsInv'
<1> DEFINE f == [job[q] EXCEPT !.runs = "yes"]
           e == [kind |-> IF background THEN "background" ELSE "foreground", of |-> q, at |-> "over",
                 answer |-> IF background THEN "background" ELSE "error"]
<1>1. /\ q \in Agents!Job /\ job[q] \in JobState /\ job[q].runs = "no" /\ job[q].future = "none"
      /\ asked[q].at = "idle" /\ job' = [job EXCEPT ![q] = f] /\ asked' = [asked EXCEPT ![q] = e]
  BY DEF AgentsInv, AgentsShape, JobFits, Agents!Job, Agents!Outcome, Agents!Start, Agents!Over
<1>2. f \in JobState /\ f.runs = "yes" /\ f.future = "none"
  BY <1>1 DEF JobState
<1>3. /\ e \in AskedState /\ e.at = "over" /\ e.kind \notin {"await", "await timed"}
  BY <1>1 DEF AskedState, Agents!Answers, Agents!Outcome
<1> HIDE DEF e, f
<1>4. AskedPut(q, e) /\ JobPut(q, f)
  BY <1>1, <1>2, <1>3, Puts
<1>5. byTool' \in [ToolCall -> Agents!Job \cup {Agents!NoJob}]
  BY <1>1 DEF AgentsInv, AgentsShape, Agents!Start
<1>6. JobFits(f) /\ GoesOn(job[q].runs, f.runs) /\ AskFits(e, job')
  BY <1>1, <1>2, <1>3 DEF JobFits, GoesOn, AskFits, Agents!Outcome
<1> QED BY <1>1, <1>3, <1>4, <1>5, <1>6, AgentsStep

LEMMA JobEndsStep ==
  ASSUME AgentsInv, NEW j \in Agents!Job, NEW outcome \in Agents!Outcome, Agents!JobEnds(j, outcome)
  PROVE  AgentsInv'
<1> DEFINE f == [job[j] EXCEPT !.runs = outcome,
                               !.future = IF job[j].future = "none" THEN outcome ELSE job[j].future]
<1>1. /\ j \in Request /\ job[j] \in JobState /\ job[j].runs = "yes" /\ job[j].future = "none"
      /\ job' = [job EXCEPT ![j] = f] /\ UNCHANGED <<byTool, asked>>
  <2>1. /\ j \in Request /\ job[j] \in JobState /\ JobFits(job[j]) /\ job[j].runs = "yes"
    BY DEF AgentsInv, AgentsShape, Agents!Job, Agents!JobEnds
  <2>2. job[j].future = "none"
    BY <2>1 DEF JobFits, Agents!Outcome
  <2>3. job' = [job EXCEPT ![j] = f] /\ UNCHANGED <<byTool, asked>>
    BY DEF Agents!JobEnds
  <2> QED BY <2>1, <2>2, <2>3
<1>2. f \in JobState /\ f.runs = outcome /\ f.future = outcome
  BY <1>1 DEF JobState
<1> HIDE DEF f
<1>3. AskedPut(j, asked[j]) /\ JobPut(j, f)
  BY <1>1, <1>2, Puts
<1>4. JobFits(f) /\ GoesOn(job[j].runs, f.runs) /\ f.runs # "yes"
  BY <1>1, <1>2 DEF JobFits, GoesOn, Agents!Outcome
<1>5. byTool' \in [ToolCall -> Agents!Job \cup {Agents!NoJob}]
  BY <1>1 DEF AgentsInv, AgentsShape
<1> QED BY <1>1, <1>3, <1>4, <1>5, AgentsStep

LEMMA AwaitedStep ==
  ASSUME AgentsInv, NEW q \in Request, Agents!Awaited(q) PROVE AgentsInv'
<1> DEFINE e == [kind |-> asked[q].kind, of |-> asked[q].of, at |-> "over",
                 answer |-> job[asked[q].of].future]
<1>1. /\ asked[q].at = "waiting" /\ job[asked[q].of].future # "none" /\ UNCHANGED <<job, byTool>>
      /\ asked' = [asked EXCEPT ![q] = e]
  BY DEF Agents!Awaited, Agents!Over
<1>2. e \in AskedState /\ e.at = "over" /\ e.of = asked[q].of /\ e.answer = job[asked[q].of].future
  BY <1>1, WaitedFor DEF AskedState, Agents!Answers
<1> HIDE DEF e
<1>3. AskFits(e, job)
  BY <1>1, <1>2, WaitedFor DEF AskFits
<1> QED BY <1>1, <1>2, <1>3, RequestStepOf

LEMMA TimesOutStep ==
  ASSUME AgentsInv, NEW q \in Request, Agents!AwaitTimesOut(q) PROVE AgentsInv'
<1>1. asked[q].at = "waiting" /\ UNCHANGED <<job, byTool>>
  BY DEF Agents!AwaitTimesOut
<1>2. PICK answer \in {job[asked[q].of].future, "still running"} \ {"none"} :
         Agents!Over(q, "await timed", asked[q].of, answer)
  BY DEF Agents!AwaitTimesOut
<1> DEFINE e == [kind |-> "await timed", of |-> asked[q].of, at |-> "over", answer |-> answer]
<1>3. \/ answer \in Agents!Outcome /\ answer = job[asked[q].of].runs
      \/ answer = "still running"
  BY <1>1, <1>2, WaitedFor
<1>4. /\ e \in AskedState /\ e.at = "over" /\ e.of = asked[q].of /\ e.answer = answer
      /\ e.kind = "await timed"
  BY <1>1, <1>3, WaitedFor DEF AskedState, Agents!Answers
<1>5. asked' = [asked EXCEPT ![q] = e]
  BY <1>2 DEF Agents!Over
<1> HIDE DEF e
<1>6. AskFits(e, job)
  BY <1>1, <1>3, <1>4, WaitedFor DEF AskFits
<1> QED BY <1>1, <1>4, <1>5, <1>6, RequestStepOf

LEMMA AwaitStep ==
  ASSUME AgentsInv, NEW q \in Request, NEW j \in Agents!Job, NEW timed \in BOOLEAN,
         Agents!Await(q, j, timed)
  PROVE  AgentsInv'
<1> DEFINE e == [kind |-> IF timed THEN "await timed" ELSE "await", of |-> j, at |-> "waiting",
                 answer |-> "none"]
<1>1. /\ asked[q].at = "idle" /\ job[j].runs # "no" /\ UNCHANGED <<job, byTool>>
      /\ asked' = [asked EXCEPT ![q] = e]
  BY DEF Agents!Await, Agents!WaitsFor
<1>2. e \in AskedState /\ e.at = "waiting" /\ e.of = j
  BY DEF AskedState
<1> HIDE DEF e
<1>3. job[j].runs \in Agents!Outcome \cup {"yes"}
  <2>1. job[j].runs # "cancelled" /\ job[j] \in JobState
    BY <1>1 DEF AgentsInv, AgentsShape
  <2> QED BY <1>1, <2>1 DEF JobState
<1>4. AskFits(e, job)
  BY <1>2, <1>3 DEF AskFits
<1> QED BY <1>1, <1>2, <1>4, RequestStepOf

LEMMA UnknownStep ==
  ASSUME AgentsInv, NEW q \in Request, Agents!AwaitUnknown(q) PROVE AgentsInv'
<1> DEFINE e == [kind |-> "await", of |-> Agents!NoJob, at |-> "over", answer |-> "not found"]
<1>1. /\ asked[q].at = "idle" /\ UNCHANGED <<job, byTool>> /\ asked' = [asked EXCEPT ![q] = e]
  BY DEF Agents!AwaitUnknown, Agents!Over
<1>2. e \in AskedState /\ e.at = "over" /\ e.of = Agents!NoJob
  BY DEF AskedState, Agents!Answers
<1> HIDE DEF e
<1>3. AskFits(e, job)
  BY <1>2 DEF AskFits
<1> QED BY <1>1, <1>2, <1>3, RequestStepOf

\* The job of a tool call is moved to the background.
LEMMA ForceStep ==
  ASSUME AgentsInv, NEW q \in Request, NEW tool \in ToolCall \cup {""}, Agents!Force(q, tool)
  PROVE  AgentsInv'
<1> DEFINE j == IF tool = "" THEN Agents!NoJob ELSE byTool[tool]
           e == [kind |-> "force", of |-> j, at |-> "over",
                 answer |-> IF j = Agents!NoJob THEN "not found" ELSE "accepted"]
<1>1. /\ asked[q].at = "idle" /\ UNCHANGED byTool /\ asked' = [asked EXCEPT ![q] = e]
      /\ j = Agents!NoJob => UNCHANGED job
      /\ j # Agents!NoJob => job' = [job EXCEPT ![j].moved = TRUE]
  BY DEF Agents!Force, Agents!Over
<1>2. j \in Agents!Job \cup {Agents!NoJob}
  BY DEF AgentsInv, AgentsShape
<1>3. e \in AskedState /\ e.at = "over" /\ e.kind = "force"
  BY <1>2 DEF AskedState, Agents!Answers
<1> HIDE DEF e, j
<1>4. AskFits(e, job) /\ AskFits(e, job')
  BY <1>3 DEF AskFits
<1>5. CASE j = Agents!NoJob
  BY <1>1, <1>3, <1>4, <1>5, RequestStepOf
<1>6. CASE j # Agents!NoJob
  <2> DEFINE f == [job[j] EXCEPT !.moved = TRUE]
  <2>1. j \in Agents!Job /\ job[j] \in JobState /\ JobFits(job[j])
    BY <1>2, <1>6 DEF AgentsInv, AgentsShape
  <2>2. f \in JobState /\ f.runs = job[j].runs /\ f.future = job[j].future
    BY <2>1 DEF JobState
  <2>3. job' = [job EXCEPT ![j] = f]
    BY <1>1, <1>6
  <2> HIDE DEF f
  <2>4. AskedPut(q, e) /\ JobPut(j, f)
    BY <1>1, <1>3, <2>1, <2>2, <2>3, Puts
  <2>5. JobFits(f) /\ GoesOn(job[j].runs, f.runs)
    BY <2>1, <2>2 DEF JobFits, GoesOn
  <2>6. byTool' \in [ToolCall -> Agents!Job \cup {Agents!NoJob}]
    BY <1>1 DEF AgentsInv, AgentsShape
  <2>7. ~(job[j].runs = "no" /\ f.runs = "yes")
    BY <2>2
  <2> QED BY <1>1, <1>3, <1>4, <2>1, <2>4, <2>5, <2>6, <2>7, AgentsStep
<1> QED BY <1>5, <1>6

LEMMA CancelStep ==
  ASSUME AgentsInv, Agents!CancelAll PROVE AgentsInv'
<1>1. PICK late \in SUBSET Agents!Job :
        job' = [j \in Agents!Job |-> [job[j] EXCEPT !.runs =
                  IF job[j].runs = "yes" /\ j \notin late THEN "cancelled" ELSE job[j].runs]]
  BY DEF Agents!CancelAll
<1> DEFINE f(j) == [job[j] EXCEPT !.runs = IF job[j].runs = "yes" /\ j \notin late THEN "cancelled"
                                           ELSE job[j].runs]
           e(q) == [asked[q] EXCEPT !.at = IF asked[q].at \in {"waiting", "idle"} THEN "cancelled"
                                           ELSE asked[q].at]
<1>2. job' = [j \in Agents!Job |-> f(j)] /\ asked' = [q \in Request |-> e(q)] /\ UNCHANGED byTool
  BY <1>1 DEF Agents!CancelAll
<1>3. ASSUME NEW j \in Agents!Job
      PROVE  /\ f(j) \in JobState /\ f(j).future = job[j].future
             /\ \/ f(j).runs = job[j].runs
                \/ job[j].runs = "yes" /\ f(j).runs = "cancelled"
             /\ JobFits(f(j))
  <2>1. job[j] \in JobState /\ JobFits(job[j])
    BY DEF AgentsInv, AgentsShape
  <2>2. /\ f(j) \in JobState /\ f(j).future = job[j].future
        /\ \/ f(j).runs = job[j].runs
           \/ job[j].runs = "yes" /\ f(j).runs = "cancelled"
    BY <2>1 DEF JobState
  <2> QED BY <2>1, <2>2 DEF JobFits, Agents!Outcome
<1>4. ASSUME NEW q \in Request
      PROVE  /\ e(q) \in AskedState /\ e(q).at \notin {"idle", "waiting"}
             /\ e(q).at = "over" => e(q) = asked[q]
  <2>1. asked[q] \in AskedState
    BY DEF AgentsInv, AgentsShape
  <2> QED BY <2>1 DEF AskedState
<1> HIDE DEF e, f
<1>5. AgentsShape'
  BY <1>2, <1>3, <1>4 DEF AgentsInv, AgentsShape
<1>6. ASSUME NEW q \in Request PROVE AskFits(asked'[q], job')
  <2>1. asked'[q] = e(q) /\ e(q).at \notin {"idle", "waiting"} /\ (e(q).at = "over" => e(q) = asked[q])
    BY <1>2, <1>4
  <2>2. CASE e(q).at # "over"
    BY <2>1, <2>2 DEF AskFits
  <2>3. CASE e(q).at = "over"
    <3>1. AskFits(asked[q], job) /\ asked'[q] = asked[q]
      BY <2>1, <2>3 DEF AgentsInv
    <3>2. \A j \in Agents!Job : job[j].runs \in Agents!Outcome => job'[j].runs = job[j].runs
      BY <1>2, <1>3 DEF Agents!Outcome
    <3> QED BY <2>1, <3>1, <3>2 DEF AskFits
  <2> QED BY <2>2, <2>3
<1>7. /\ \A j \in Agents!Job : JobFits(job'[j])
      /\ \A q \in Request : asked'[q].at \notin {"idle", "waiting"}
  BY <1>2, <1>3, <1>4
<1> QED BY <1>5, <1>6, <1>7 DEF AgentsInv

LEMMA InitAgents == Agents!Init => AgentsInv
<1> SUFFICES ASSUME Agents!Init PROVE AgentsInv
  OBVIOUS
<1>1. /\ \A j \in Agents!Job : job[j] = [future |-> "none", moved |-> FALSE, runs |-> "no"]
      /\ \A q \in Request : asked[q] = Agents!Idle
  BY DEF Agents!Init
<1>2. AgentsShape
  BY DEF Agents!Init, AgentsShape, JobState, AskedState, Agents!Idle
<1>3. \A j \in Agents!Job : job[j].runs = "no" /\ job[j].future = "none"
  BY <1>1
<1>4. \A q \in Request : asked[q].at = "idle"
  BY <1>1 DEF Agents!Idle
<1>5. /\ \A j \in Agents!Job : JobFits(job[j])
      /\ \A q \in Request : AskFits(asked[q], job)
  BY <1>3, <1>4 DEF JobFits, AskFits, Agents!Outcome
<1> QED BY <1>2, <1>3, <1>4, <1>5 DEF AgentsInv, Agents!Job

LEMMA NextAgents ==
  ASSUME AgentsInv, [Agents!Next]_agentVars PROVE AgentsInv'
<1>1. CASE UNCHANGED agentVars
  BY <1>1 DEF agentVars, AgentsInv, AgentsShape, JobFits, AskFits
<1>2. CASE Agents!Next
  BY <1>2, JobStarts, ForceStep, JobEndsStep, AwaitedStep, TimesOutStep, UnknownStep, AwaitStep,
     CancelStep DEF Agents!Next, Agents!Wake
<1> QED BY <1>1, <1>2

LEMMA AgentsTrue == AgentsInv => Agents!AnswersAreTrue
<1> SUFFICES ASSUME AgentsInv PROVE Agents!AnswersAreTrue
  OBVIOUS
<1>1. Agents!TypeOK
  BY DEF AgentsInv, AgentsShape, JobState, AskedState, Agents!TypeOK
<1>2. \A j \in Agents!Job :
        job[j].future = IF job[j].runs \in Agents!Outcome THEN job[j].runs ELSE "none"
  BY DEF AgentsInv, JobFits
<1>3. ASSUME NEW q \in Request, Agents!IsAwait(q)
      PROVE  /\ asked[q].at = "waiting" => job[asked[q].of].runs \in Agents!Outcome \cup {"yes"}
             /\ asked[q].at = "over" =>
                  \/ asked[q].answer = job[asked[q].of].runs
                  \/ asked[q].answer = "still running" /\ asked[q].kind = "await timed"
  BY <1>3 DEF AgentsInv, AskFits, Agents!IsAwait
<1> QED BY <1>1, <1>2, <1>3 DEF Agents!AnswersAreTrue

(* However the ends of jobs, time limits, moves to the background and the  *)
(* cancellation of the run race: the future of a job is how its run ended, *)
(* and a request that awaits a job waits for one that still can be known,  *)
(* and is answered with how it ended, or that it still runs when the       *)
(* request has a time limit.                                               *)
THEOREM AnswersAreTrueCorrect == Agents!Spec => []AnswersAreTrue
<1>1. Agents!Init => AgentsInv
  BY InitAgents
<1>2. AgentsInv /\ [Agents!Next]_agentVars => AgentsInv'
  BY NextAgents
<1>3. AgentsInv => AnswersAreTrue
  BY AgentsTrue DEF AnswersAreTrue
<1> QED BY <1>1, <1>2, <1>3, PTL DEF Agents!Spec, Agents!subagentVars, agentVars

=============================================================================
