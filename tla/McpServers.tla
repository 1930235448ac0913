----------------------------- MODULE McpServers -----------------------------
(***************************************************************************)
(* McpManager and the transports of one of its servers (_mcp.py), with the *)
(* browser login of _mcp_oauth.py.  Tasks of the event loop connect to the *)
(* server: the one of start(), and those of authenticate(), which the      *)
(* model may ask for at any time, twice at once included.  Others call its *)
(* tools and read its resources.  aclose() may come at any time: run()     *)
(* goes to its clean-up as soon as one of its start-up calls fails, while  *)
(* the others are still at work.                                           *)
(*                                                                         *)
(* A link is a transport: a subprocess, or an HTTP client.  Requests are   *)
(* numbered from 1 on each link; an answer is matched with its request by  *)
(* the number, and the server may also make requests under numbers of its  *)
(* own.                                                                    *)
(***************************************************************************)
EXTENDS Naturals, FiniteSets

CONSTANTS Auth,      \* the calls of authenticate()
          Tool,      \* the calls of call_tool() and read_resource()
          MaxLinks   \* bound: links opened

ASSUME McpAssumption == /\ MaxLinks \in Nat \ {0}
                        /\ Auth \cap Tool = {} /\ "start" \notin Auth \cup Tool

VARIABLES kind,      \* "stdio" or "http"
          manager,   \* McpManager: open, closing, closed
          session,   \* the McpSession of the server
          links,     \* its transports so far
          worker,    \* the tasks
          store,     \* what mcp-auth.json holds for the server
          opened,    \* how many links were opened
          lateLinks, \* history: links opened when the manager was closed
          overlap    \* history: a login of a server connected or connecting

vars == <<kind, manager, session, links, worker, store, opened, lateLinks, overlap>>

Starter == "start"
Link == 1 .. MaxLinks
NoLink == 0
Worker == {Starter} \cup Auth \cup Tool
Connecting == {"closing", "opening", "initialize", "refresh", "reclosing",
               "again", "list", "resources", "failing"}
Login == {"discover", "register", "fallback", "browser", "exchange"}
Waits == {"initialize", "again", "list", "resources", "calling"}

TypeOK ==
  /\ kind \in {"stdio", "http"} /\ manager \in {"open", "closing", "closed"}
  /\ session.status \in {"loading", "connected", "needsAuth", "error"}
  /\ session.link \in Link \cup {NoLink} /\ session.tools \in BOOLEAN
  /\ \A l \in Link : /\ links[l].state \in {"none", "open", "closing", "closed"}
                     /\ \A q \in links[l].pending \cup links[l].owed :
                          q.id \in 1 .. links[l].last /\ q.who \in Worker
  /\ \A w \in Worker : /\ worker[w].at \in Connecting \cup Login \cup
                                           {"idle", "calling", "done", "raised", "cancelled"}
                       /\ worker[w].link \in Link \cup {NoLink} /\ worker[w].limit \in BOOLEAN
                       /\ worker[w].fut \in {"none", "result", "error", "unauthorized",
                                             "closed", "timeout"}
  /\ store \subseteq {"client", "access", "refresh"}

Init == /\ kind \in {"stdio", "http"}
        /\ manager = "open"
        /\ session = [status |-> "loading", link |-> NoLink, tools |-> FALSE, taken |-> NoLink]
        /\ links = [l \in Link |-> [state |-> "none", last |-> 0, pending |-> {},
                                    owed |-> {}, ready |-> FALSE]]
        /\ worker = [w \in Worker |-> [at |-> IF w = Starter THEN "opening" ELSE "idle",
                                       link |-> NoLink, fut |-> "none", of |-> w,
                                       limit |-> FALSE]]
        /\ store \in {{}, {"client", "access", "refresh"}}
        /\ opened = 0 /\ lateLinks = {} /\ overlap = FALSE

-----------------------------------------------------------------------------
(* The transports *)

\* Mutant: numbers are given anew when calls have ended.
AskedAnew(ls, l, w) ==
  LET q == [id |-> Cardinality(ls[l].pending) + 1, who |-> w] IN
  [ls EXCEPT ![l] = [@ EXCEPT !.last = IF @ < q.id THEN q.id ELSE @,
                              !.pending = @ \cup {q}, !.owed = @ \cup {q}]]

\* request: the next number, and a future under it
Asked(ls, l, w) ==
  LET q == [id |-> ls[l].last + 1, who |-> w]
      new == [ls[l] EXCEPT !.last = q.id, !.pending = @ \cup {q}, !.owed = @ \cup {q}]
  IN  [ls EXCEPT ![l] = new]

\* the worker that waits under a number is given an outcome; it may have got
\* one already
Resolve(ws, w, fut, of) ==
  [ws EXCEPT ![w] = IF @.fut = "none" THEN [@ EXCEPT !.fut = fut, !.of = of] ELSE @]

\* an answer arrives: unknown and settled numbers are ignored
Answer(l, q, fut) ==
  /\ links[l].state = "open" /\ q \in links[l].owed
  /\ fut = "unauthorized" => kind = "http"
  /\ links' = [links EXCEPT ![l].owed = @ \ {q}]
  /\ worker' = IF \E p \in links[l].pending : p.id = q.id
               THEN Resolve(worker, (CHOOSE p \in links[l].pending : p.id = q.id).who, fut, q.who)
               ELSE worker
  /\ UNCHANGED <<kind, manager, session, store, opened, lateLinks, overlap>>

\* a request of the server itself, told from an answer by nothing but its
\* number: its missing result is one of a tool, and useless to who connects
ServerAsks(l, q) ==
  /\ kind = "stdio" /\ links[l].state = "open"
  /\ q \in links[l].pending /\ worker[q.who].fut = "none"
  /\ worker' = Resolve(worker, q.who, IF q.who \in Tool THEN "result" ELSE "error", "server")
  /\ UNCHANGED <<kind, manager, session, links, store, opened, lateLinks, overlap>>

(* The time limit of a request is one on the wait for its answer.  A       *)
(* server that does not read can block the write before it (the message    *)
(* to a subprocess, and the notification between two requests), and one    *)
(* that sends a byte now and then the read of an HTTP answer: only when    *)
(* the message is written, or the server has fallen silent, does the limit *)
(* apply.                                                                  *)
Written(w) ==
  /\ worker[w].at \in Waits /\ ~worker[w].limit
  /\ worker' = [worker EXCEPT ![w].limit = TRUE]
  /\ UNCHANGED <<kind, manager, session, links, store, opened, lateLinks, overlap>>
\* writing to a process that is gone, or with a client that is closed, does
\* not block
Limited(w) == worker[w].limit \/ links[worker[w].link].state = "closed"

\* Mutant: only calls of tools have a time limit.
TimeoutOfCalls(w) ==
  /\ worker[w].at = "calling" /\ worker[w].fut = "none" /\ Limited(w)
  /\ worker' = Resolve(worker, w, "timeout", w)
  /\ UNCHANGED <<kind, manager, session, links, store, opened, lateLinks, overlap>>

\* wait_for gives up; the number is taken out, whatever the outcome
Timeout(w) ==
  /\ worker[w].at \in Waits /\ worker[w].fut = "none" /\ Limited(w)
  /\ worker' = Resolve(worker, w, "timeout", w)
  /\ UNCHANGED <<kind, manager, session, links, store, opened, lateLinks, overlap>>
Popped(ls, w) ==
  [l \in Link |-> [ls[l] EXCEPT !.pending = {q \in @ : q.who # w}]]

\* aclose: nothing is read any more; when the process is gone, or the client
\* closed, what is still pending fails
Closes(ls, l) == IF l = NoLink THEN ls ELSE [ls EXCEPT ![l].state = "closing"]
LinkClosed(l) ==
  /\ links[l].state = "closing"
  /\ links' = [links EXCEPT ![l] = [@ EXCEPT !.state = "closed", !.pending = {}, !.owed = {}]]
  /\ worker' = [w \in Worker |-> IF \E q \in links[l].pending : q.who = w
                                 THEN Resolve(worker, w, "closed", w)[w] ELSE worker[w]]
  /\ UNCHANGED <<kind, manager, session, store, opened, lateLinks, overlap>>

-----------------------------------------------------------------------------
(* _connect_session *)

Goes(w, at) ==
  [worker EXCEPT ![w] = [at |-> at, fut |-> "none", of |-> w, limit |-> FALSE,
                         link |-> IF at \in {"done", "raised", "cancelled"} THEN NoLink ELSE @.link]]

\* the transport of the session is taken and closed
Releases(w, at) ==
  /\ session' = [session EXCEPT !.link = NoLink]
  /\ links' = Closes(Popped(links, w), session.link)
  /\ worker' = [Goes(w, at) EXCEPT ![w].link = session.link]
  /\ UNCHANGED <<kind, manager, opened, lateLinks>>

\* _close_session has returned: there was nothing to close, or it is closed
Released(w, at) ==
  /\ worker[w].at = at
  /\ worker[w].link # NoLink => links[worker[w].link].state = "closed"

\* the new transport becomes the session's, and is asked to initialize
Opens(w, at) ==
  /\ opened < MaxLinks /\ opened' = opened + 1
  /\ session' = [session EXCEPT !.link = opened']
  /\ links' = Asked([links EXCEPT ![opened'].state = "open"], opened', w)
  /\ worker' = [Goes(w, at) EXCEPT ![w].link = opened']
  /\ lateLinks' = IF manager = "open" THEN lateLinks ELSE lateLinks \cup {opened'}
  /\ UNCHANGED <<kind, manager, store, overlap>>

\* Mutant: start says why, and leaves the transport open.
FailsOpen(w, status) ==
  /\ worker' = Goes(w, IF w = Starter THEN "done" ELSE "raised")
  /\ links' = Popped(links, w)
  /\ session' = IF w = Starter THEN [session EXCEPT !.status = status, !.link = NoLink]
                ELSE session

\* start: the task closes what it may have opened, and the session says why;
\* authenticate: the caller is told
Fails(w, status) ==
  IF w = Starter
  THEN /\ session' = [session EXCEPT !.status = status, !.link = NoLink]
       /\ links' = Closes(Popped(links, w), session.link)
       /\ worker' = [Goes(w, "failing") EXCEPT ![w].link = session.link]
  ELSE /\ worker' = Goes(w, "raised") /\ links' = Popped(links, w)
       /\ UNCHANGED session

\* a subprocess is created for start() only, and that suspends
FirstOpen(w) ==
  /\ worker[w].at = "opening" \/ Released(w, "closing")
  /\ Opens(w, "initialize")
SecondOpen(w) == Released(w, "reclosing") /\ Opens(w, "again")
OpenFails(w) ==
  /\ worker[w].at = "opening"
  /\ Fails(w, "error")
  /\ UNCHANGED <<kind, manager, store, opened, lateLinks, overlap>>

\* the request a worker waits for has an outcome; one that came before the
\* message to a subprocess was written is not seen before that
Told(w) == kind = "http" \/ Limited(w)
Got(w, at, outcomes) == worker[w].at = at /\ Told(w) /\ worker[w].fut \in outcomes
Bad == {"error", "closed", "timeout", "unauthorized"}
Then(w, at) ==
  /\ links' = Asked(Popped(links, w), worker[w].link, w)
  /\ worker' = Goes(w, at)
  /\ UNCHANGED <<kind, manager, store, opened, lateLinks, overlap>>

Initialized(w) ==
  /\ Got(w, "initialize", {"result"}) \/ Got(w, "again", {"result"})
  /\ Then(w, "list") /\ UNCHANGED session
Refreshes(w) ==
  /\ Got(w, "initialize", {"unauthorized"}) /\ "refresh" \in store
  /\ worker' = Goes(w, "refresh") /\ links' = Popped(links, w)
  /\ UNCHANGED <<kind, manager, session, store, opened, lateLinks, overlap>>
Refreshed(w) ==
  /\ worker[w].at = "refresh"
  /\ store' = store \cup {"access", "refresh"}
  /\ Releases(w, "reclosing") /\ UNCHANGED overlap
NotRefreshed(w) ==
  /\ worker[w].at = "refresh"
  /\ Fails(w, "needsAuth")
  /\ UNCHANGED <<kind, manager, store, opened, lateLinks, overlap>>
Unauthorized(w) ==
  /\ \/ Got(w, "initialize", {"unauthorized"}) /\ "refresh" \notin store
     \/ \E at \in {"again", "list"} : Got(w, at, {"unauthorized"})
  /\ Fails(w, "needsAuth")
  /\ UNCHANGED <<kind, manager, store, opened, lateLinks, overlap>>
Unconnected(w) ==
  /\ \E at \in {"initialize", "again", "list"} : Got(w, at, Bad \ {"unauthorized"})
  /\ Fails(w, "error")
  /\ UNCHANGED <<kind, manager, store, opened, lateLinks, overlap>>
Listed(w) ==
  /\ Got(w, "list", {"result"})
  /\ session' = [session EXCEPT !.tools = TRUE]
  /\ Then(w, "resources")
\* a server need not have resources
IsConnected(w) ==
  /\ Got(w, "resources", {"result"} \cup Bad)
  /\ session' = [session EXCEPT !.status = "connected"]
  /\ links' = [Popped(links, w) EXCEPT ![worker[w].link].ready = TRUE]
  /\ worker' = Goes(w, "done")
  /\ UNCHANGED <<kind, manager, store, opened, lateLinks, overlap>>
FailureClosed(w) ==
  /\ Released(w, "failing")
  /\ worker' = Goes(w, "done")
  /\ UNCHANGED <<kind, manager, session, links, store, opened, lateLinks, overlap>>
\* the run is closed while it starts up
CancelStart ==
  /\ manager = "open" /\ worker[Starter].at \in Connecting \ {"failing"}
  /\ worker' = Goes(Starter, "cancelled") /\ links' = Popped(links, Starter)
  /\ UNCHANGED <<kind, manager, session, store, opened, lateLinks, overlap>>

-----------------------------------------------------------------------------
(* authenticate: the login in the browser, then _connect_session *)

Same == UNCHANGED <<kind, manager, session, links, opened, lateLinks, overlap>>
Authenticate(a) ==
  /\ worker[a].at = "idle" /\ manager = "open" /\ kind = "http"
  /\ worker[Starter].at = "done"
  /\ worker' = Goes(a, "discover")
  /\ UNCHANGED <<kind, manager, session, links, opened, lateLinks, overlap, store>>
\* the protected resource's server, or the origin itself, at one of its addresses
Discovered(a) == /\ worker[a].at = "discover" /\ worker' = Goes(a, "register")
                 /\ Same /\ UNCHANGED store
\* a configured client, a stored one, or one that is registered now; if its
\* redirects are refused, once more with the loopback address alone
RegisterAgain(a) == /\ worker[a].at = "register" /\ "client" \notin store
                    /\ worker' = Goes(a, "fallback") /\ Same /\ UNCHANGED store
Registered(a) == /\ worker[a].at \in {"register", "fallback"}
                 /\ worker' = Goes(a, "browser") /\ store' = store \cup {"client"} /\ Same
\* a callback without an error, with a code and this login's state
CalledBack(a) == /\ worker[a].at = "browser" /\ worker' = Goes(a, "exchange")
                 /\ Same /\ UNCHANGED store
\* tokens replace the ones before, with or without a refresh token
Exchanged(a) ==
  /\ worker[a].at = "exchange"
  /\ \E refresh \in SUBSET {"refresh"} :
       store' = (store \cap {"client"}) \cup {"access"} \cup refresh
  /\ overlap' = (overlap \/ session.status = "connected"
                 \/ \E b \in Auth \ {a} : worker[b].at \in Connecting)
  /\ Releases(a, "closing")
LoginFails(a) ==
  /\ worker[a].at \in Login
  /\ worker' = Goes(a, "raised")
  /\ Same /\ UNCHANGED store

-----------------------------------------------------------------------------
(* call_tool and read_resource: reading asks for no more than a transport. *)
Usable(reading) == /\ session.link # NoLink
                   /\ reading \/ (session.status = "connected" /\ session.tools)
Calls(c, reading) ==
  /\ worker[c].at = "idle" /\ worker[Starter].at = "done"
  /\ IF manager = "open" /\ Usable(reading)
     THEN /\ links' = Asked(links, session.link, c)
          /\ worker' = [Goes(c, "calling") EXCEPT ![c].link = session.link]
     ELSE worker' = Goes(c, "done") /\ UNCHANGED links
  /\ UNCHANGED <<kind, manager, session, store, opened, lateLinks, overlap>>
Returns(c) ==
  /\ worker[c].at = "calling" /\ Told(c) /\ worker[c].fut # "none"
  /\ worker' = Goes(c, "done")
  /\ links' = Popped(links, c)
  /\ UNCHANGED <<kind, manager, session, store, opened, lateLinks, overlap>>

\* McpManager.aclose, of a manager whose start may be under way
CloseAll ==
  /\ manager = "open" /\ manager' = "closing"
  /\ session' = [session EXCEPT !.link = NoLink, !.taken = session.link]
  /\ links' = Closes(links, session.link)
  /\ UNCHANGED <<kind, worker, store, opened, lateLinks, overlap>>
AllClosed ==
  /\ manager = "closing" /\ (session.taken # NoLink => links[session.taken].state = "closed")
  /\ manager' = "closed"
  /\ UNCHANGED <<kind, session, links, worker, store, opened, lateLinks, overlap>>

-----------------------------------------------------------------------------
Connects(w) == \/ FirstOpen(w) \/ SecondOpen(w) \/ OpenFails(w) \/ Initialized(w)
               \/ Refreshes(w) \/ Unauthorized(w) \/ Unconnected(w)
               \/ Listed(w) \/ IsConnected(w) \/ FailureClosed(w)
LogsIn(a) == \/ Discovered(a) \/ RegisterAgain(a) \/ Registered(a)
             \/ CalledBack(a) \/ Exchanged(a) \/ LoginFails(a)
Next == \/ \E l \in Link : LinkClosed(l)
        \/ \E l \in Link : \E q \in links[l].owed, fut \in {"result", "error", "unauthorized"} :
             Answer(l, q, fut)
        \/ \E l \in Link : \E q \in links[l].pending : ServerAsks(l, q)
        \/ \E w \in Worker : Written(w) \/ Timeout(w)
        \/ \E w \in {Starter} \cup Auth : Connects(w) \/ Refreshed(w) \/ NotRefreshed(w)
        \/ CancelStart \/ CloseAll \/ AllClosed
        \/ \E a \in Auth : Authenticate(a) \/ LogsIn(a)
        \/ \E c \in Tool, reading \in BOOLEAN : Calls(c, reading)
        \/ \E c \in Tool : Returns(c)

(* The wait for an answer and for the browser have time limits, processes  *)
(* are killed if they do not end, and the loop runs what is ready.  Of     *)
(* HTTP requests only the single read and write is limited, so nothing is  *)
(* assumed of those of a login or of a refresh of tokens.                  *)
Fairness ==
  /\ \A w \in Worker : WF_vars(Timeout(w)) /\ WF_vars(Connects(w))
  /\ \A l \in Link : WF_vars(LinkClosed(l))
  /\ \A a \in Auth : WF_vars(worker[a].at = "browser" /\ LogsIn(a))
  /\ \A c \in Tool : WF_vars(Returns(c))
  /\ WF_vars(AllClosed)
Spec == Init /\ [][Next]_vars
FairSpec == Spec /\ Fairness

-----------------------------------------------------------------------------
(* However many answers are late, lost or overtaken by a timeout, a worker *)
(* that has a result has the server's answer to its own request, or the    *)
(* server's own request under the same number.                             *)
AnswersAreOwn ==
  /\ TypeOK
  /\ \A w \in Worker : worker[w].fut \in {"result", "error", "unauthorized"} =>
       worker[w].of \in {w, "server"}

(* Unless a server is logged in to while it is connected or connecting,    *)
(* the link of a connected session is one that was initialized; and when   *)
(* everything is over, no link is open but one whose opening was overtaken *)
(* by aclose.                                                              *)
LinksAreKept ==
  ~overlap =>
    /\ session.status = "connected" /\ session.link # NoLink => links[session.link].ready
    /\ (manager = "closed" /\ \A w \in Worker : worker[w].at \notin Connecting \cup Login) =>
         \A l \in Link : links[l].state = "open" => l \in lateLinks

(* Whatever the server does or fails to do, connecting, logging in,        *)
(* calling and closing all come to an end, unless the server keeps a       *)
(* message from being written, or answers over HTTP piece by piece without *)
(* end: for that there is no limit but closing.                            *)
HeldByServer(w) ==
  \/ worker[w].at \in Waits /\ ~worker[w].limit /\ links[worker[w].link].state = "open"
  \/ worker[w].at \in {"refresh", "discover", "register", "fallback", "exchange"}
AtRest == /\ \A w \in Worker : worker[w].at \notin Connecting \cup Login \cup {"calling"}
                                \/ HeldByServer(w)
          /\ manager # "closing"
EverythingEnds == []<>AtRest
=============================================================================
