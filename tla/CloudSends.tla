----------------------------- MODULE CloudSends ------------------------------
(***************************************************************************)
(* Messages to agents in the cloud (_cloud_agent.py: CloudAgent.send,      *)
(* create_cloud_agent, resume_cloud_agent; _cloud_api.py).  The first      *)
(* message of a handle makes the agent, the others make runs of it; which  *)
(* of the two a send does is decided before its request and settled by     *)
(* its answer, and requests and answers are lost.  Callers repeat a        *)
(* message under its idempotency key, through the same handle, or through  *)
(* one that resumes the agent.                                             *)
(*                                                                         *)
(* The service is external: it remembers the keys of each endpoint, makes  *)
(* an agent once, and takes what it took for the client lost or not.       *)
(***************************************************************************)
EXTENDS Naturals, Sequences, FiniteSets

CONSTANTS Handle,
          AgentOf, OwnKey,      \* agentId and idempotencyKey of the options of a handle
          Resumed,              \* the handles that resume_cloud_agent makes
          Message, KeyOf,       \* the key that a caller repeats a message under
          NoKey, MaxSends,      \* bound: sends
          MaxUnderWay           \* bound: sends that wait for their answer at a time

VARIABLES handle,     \* _server_created, and whether _model was replaced
          sends,      \* send() calls in their order
          agents, runs, answered    \* the service: agents, runs, and what it answered keys with

cloudVars == <<handle, sends, agents, runs, answered>>

CreateAgent == [path |-> "agents", of |-> "all"]
CreateRun(a) == [path |-> "runs", of |-> a]
Error == 0            \* an answer that is not a run

\* create_cloud_agent and resume_cloud_agent
Init == /\ handle = [h \in Handle |-> [created |-> h \in Resumed, replaced |-> FALSE]]
        /\ sends = <<>> /\ agents = {} /\ runs = <<>> /\ answered = {}

-----------------------------------------------------------------------------
\* Mutant: the handle's own key stands for every message.
IdempotencyAlways(h, created, key) == IF key # NoKey THEN key ELSE OwnKey[h]

\* idempotency: the handle's own key stands for the first message
Idempotency(h, created, key) == IF key # NoKey \/ created THEN key ELSE OwnKey[h]

\* a caller repeats a message after the send before has failed
MayRepeat(message) ==
  \A s \in DOMAIN sends : sends[s].given /\ sends[s].message = message
                           => sends[s].at \in {"given up", "failed"}
UnderWay == {s \in DOMAIN sends : sends[s].at \in {"sent", "served"}}
Send(h, message, key, model) ==
  /\ Len(sends) < MaxSends /\ Cardinality(UnderWay) < MaxUnderWay
  /\ key # NoKey => MayRepeat(message)
  /\ LET created == handle[h].created
     IN  sends' = Append(sends,
           [at |-> "sent", handle |-> h, message |-> message, model |-> model,
            first |-> ~created, given |-> key # NoKey, key |-> Idempotency(h, created, key),
            path |-> IF created THEN CreateRun(AgentOf[h]) ELSE CreateAgent, run |-> Error])
  /\ UNCHANGED <<handle, agents, runs, answered>>

Moves(s, to, run) == sends' = [sends EXCEPT ![s].at = to, ![s].run = run]
\* the service takes a request, also one that the client has given up
Served(s, run) == IF sends[s].at = "sent" THEN Moves(s, "served", run) ELSE Moves(s, "failed", Error)
Known(s) == {a \in answered : a.key = sends[s].key /\ a.path = sends[s].path}
Again(s) == /\ \E a \in Known(s) : Served(s, a.run)
            /\ UNCHANGED <<agents, runs, answered>>
New(s) ==
  LET agent == AgentOf[sends[s].handle]
  IN  /\ Known(s) = {} /\ (sends[s].first <=> agent \notin agents)
      /\ agents' = agents \cup {agent}
      /\ runs' = Append(runs, [agent |-> agent, message |-> sends[s].message, by |-> s])
      /\ answered' = IF sends[s].key = NoKey THEN answered
                     ELSE answered \cup {[key |-> sends[s].key, path |-> sends[s].path, run |-> Len(runs')]}
      /\ Served(s, Len(runs'))
\* the agent exists already, is not there, or is busy, or the service is
Refuse(s) == /\ Known(s) = {} /\ Served(s, Error)
             /\ UNCHANGED <<agents, runs, answered>>
Serve(s) == /\ sends[s].at \in {"sent", "given up"}
            /\ Again(s) \/ New(s) \/ Refuse(s)
            /\ UNCHANGED handle

-----------------------------------------------------------------------------
\* a RequestError of httpx: the request or its answer is lost.  aclose loses
\* what is under way, and a handle that is closed is one that sends no more
Lose(s) == /\ s \in UnderWay
           /\ Moves(s, IF sends[s].at = "sent" THEN "given up" ELSE "failed", Error)
           /\ UNCHANGED <<handle, agents, runs, answered>>
Return(s) == LET h == sends[s].handle
             IN  /\ Moves(s, "returned", sends[s].run)
                 /\ handle' = [handle EXCEPT ![h].created = TRUE,
                                             ![h].replaced = @ \/ sends[s].model]
Raise(s) == Moves(s, "failed", Error) /\ UNCHANGED handle
\* an agent that is not the one asked for is a key that another handle used
Mismatch(s) == sends[s].first /\ runs[sends[s].run].agent # AgentOf[sends[s].handle]
Answer(s) ==
  /\ sends[s].at = "served"
  /\ IF sends[s].run = Error \/ Mismatch(s) THEN Raise(s) ELSE Return(s)
  /\ UNCHANGED <<agents, runs, answered>>

\* bound: sends without a key name a model, the others none
Next == \/ \E h \in Handle, m \in Message :
             \E key \in {NoKey, KeyOf[m]} : Send(h, m, key, key = NoKey)
        \/ \E s \in DOMAIN sends : Serve(s) \/ Lose(s) \/ Answer(s)
Spec == Init /\ [][Next]_cloudVars

-----------------------------------------------------------------------------
\* list_messages, list_artifacts: of an agent that is not made there are none
ListMessages(h) == {r \in DOMAIN runs : handle[h].created /\ runs[r].agent = AgentOf[h]}

\* The run that a send returns is one of its agent, and of its message, unless
\* the message was one of several first ones under the key of the handle.  A
\* message that is repeated under its key is run once, unless a handle that
\* resumed the agent repeats what made it.  A send that raised leaves no trace
\* in its handle, and a handle lists what it was answered with.
RunIsOfMessage ==
  LET Returned == {s \in DOMAIN sends : sends[s].at = "returned"}
      Of(r) == sends[runs[r].by]
  IN  /\ \A s \in Returned :
           LET run == runs[sends[s].run]
           IN  /\ run.agent = AgentOf[sends[s].handle]
               /\ sends[s].run \in ListMessages(sends[s].handle)
               /\ \/ run.message = sends[s].message
                  \/ sends[s].first /\ Of(sends[s].run).first /\ ~sends[s].given
      /\ \A q, r \in DOMAIN runs :
           /\ q < r /\ Of(q).given /\ Of(r).given
           /\ runs[q].message = runs[r].message /\ runs[q].agent = runs[r].agent
           => Of(q).first /\ Of(r).handle \in Resumed
      /\ \A h \in Handle :
           /\ handle[h].created => h \in Resumed \/ AgentOf[h] \in agents
           /\ handle[h].replaced => \E s \in Returned : sends[s].handle = h /\ sends[s].model
=============================================================================
