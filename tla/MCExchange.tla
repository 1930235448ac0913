----------------------------- MODULE MCExchange ------------------------------
(***************************************************************************)
(* Small instances of what a run exchanges with the world around it: its   *)
(* connection to the service, the tools and subagents it runs for it, MCP  *)
(* servers, and the login.  The modules share no state; a behaviour        *)
(* concerns one of them, and "part" tells which.                           *)
(***************************************************************************)
EXTENDS McpServers, Sequences

CONSTANTS Run, Prefer, Messages, Sends,       \* ConnectTransport
          Request, ToolCall,                  \* Subagents
          Message, Inputs, Host,              \* ToolCalls
          Process, Backend, MaxAttempts, Lifetime, MaxTime, MaxLogins   \* Login

VARIABLES failed, config, phase, link, next, flying, arrived, got, timedOut,
          job, byTool, asked,
          call, blobs, runtime, ran, said,
          disk, cache, login, now, keys, others,
          part       \* what the behaviour is about

connectVars == <<failed, config, phase, link, next, flying, arrived, got, timedOut>>
agentVars == <<job, byTool, asked>>
toolVars == <<call, blobs, runtime, ran, said>>
accountVars == <<disk, cache, login, now, keys, others>>

Connect == INSTANCE ConnectTransport
Agents == INSTANCE Subagents
Tools == INSTANCE ToolCalls
Words == INSTANCE ShellPolicy
Sandbox == INSTANCE SandboxPolicy
Account == INSTANCE Login

ASSUME ConnectAssumption ==
  Prefer \in Connect!Transport /\ Messages \in Nat /\ Sends \in Nat

\* commands with quotes, rules with and without stars, policies with lists
P(char, style) == [char |-> char, style |-> style]
Command(word) == [word |-> word, text |-> Words!AsWritten(word),
                  simple |-> {Words!AsWritten(word)}]
Plain == Command(<<P("a", "bare")>>)
Commands == {Command(<<P("a", "bare"), P(" ", "bare"), P("n", "bare")>>),
             Command(<<P("a", "double"), P(" ", "bare"), P("n", "escaped")>>),
             Command(<<P("n", "ansi"), P("a", "single")>>)}
Rules == {{}, {<<"a", ":", "n">>}, {<<"n", "*">>}}
Policy(type, network) == <<[type |-> type, network |-> network, access |-> TRUE,
                            strict |-> FALSE, boundary |-> "", reads |-> FALSE, noTmp |-> FALSE]>>
Networks == [default : {"", "allow", "deny"}, allow : {{}, {"h"}}, deny : {{}, {"g"}},
             version : {""}]
Policies == {<<>>} \cup {Policy(type, Sandbox!NoNetwork) : type \in {1, 2}}
            \cup {Policy(3, network) : network \in Networks}
Shells ==
  LET Of(kinds, commands, rules, approval, policies) ==
        [kind : kinds, command : commands, rules : rules, approval : {approval},
         policy : policies]
      both == {"shell", "stream"}
  IN  Of(both, Commands, Rules, FALSE, {<<>>}) \cup Of({"stream"}, {Plain}, {{}}, FALSE, Policies)
      \cup Of({"shell"}, {Plain}, {{}}, FALSE, {Policy(1, Sandbox!NoNetwork), Policy(2, Sandbox!NoNetwork)})
      \cup Of(both, {Plain}, {{}}, TRUE, {<<>>})
SmallInputs ==
  <<Shells \cup {[kind |-> "set", data |-> "d"], [kind |-> "tool"], [kind |-> "unknown"]},
    {[kind |-> "get"]}>>

Part == {"connect", "agents", "tools", "mcp", "account"}
\* what the behaviour is not about is over, or was never begun, so that no
\* fairness condition asks for anything
NoMcp == /\ kind = "stdio" /\ manager = "closed" /\ store = {} /\ opened = 0
         /\ session = [status |-> "error", link |-> NoLink, tools |-> FALSE, taken |-> NoLink]
         /\ links = [l \in Link |-> [state |-> "none", last |-> 0, pending |-> {},
                                    owed |-> {}, ready |-> FALSE]]
         /\ worker = [w \in Worker |-> [at |-> "done", link |-> NoLink, fut |-> "none", of |-> w,
                                        limit |-> FALSE]]
         /\ lateLinks = {} /\ overlap = FALSE
NoConnection == /\ failed = FALSE /\ config = "none" /\ phase = [r \in Run |-> "raised"]
                /\ link = [r \in Run |-> [t \in Connect!Transport |-> Connect!Other]]
                /\ next = [r \in Run |-> 0] /\ flying = {} /\ timedOut = {}
                /\ arrived = [r \in Run |-> <<>>] /\ got = [r \in Run |-> <<>>]
MCInit == /\ part \in Part
          /\ IF part = "mcp" THEN Init ELSE NoMcp
          /\ IF part = "connect" THEN Connect!Init ELSE NoConnection
          /\ Agents!Init /\ Account!Init /\ Tools!Init
          /\ part # "tools" => runtime = [type |-> "insecure_none", helper |-> FALSE]
OnMcp == /\ part = "mcp" /\ Next
         /\ UNCHANGED <<connectVars, agentVars, toolVars, accountVars, part>>
OnConnect == /\ part = "connect" /\ Connect!Next
             /\ UNCHANGED <<vars, agentVars, toolVars, accountVars, part>>
OnAgents == /\ part = "agents" /\ Agents!Next
            /\ UNCHANGED <<vars, connectVars, toolVars, accountVars, part>>
OnTools == /\ part = "tools" /\ Tools!Next
           /\ UNCHANGED <<vars, connectVars, agentVars, accountVars, part>>
OnAccount == /\ part = "account" /\ Account!Next
             /\ UNCHANGED <<vars, connectVars, agentVars, toolVars, part>>
MCNext == OnMcp \/ OnConnect \/ OnAgents \/ OnTools \/ OnAccount
allVars == <<vars, connectVars, agentVars, toolVars, accountVars, part>>
MCSpec == /\ MCInit /\ [][MCNext]_allVars
          /\ Fairness /\ Connect!Fairness /\ Agents!Fairness /\ Tools!Fairness
          /\ Account!Fairness

\* see ConnectTransport: the order of messages, and their numbers
InOrder == Connect!InOrder
\* see ConnectTransport: no transport beside the one in use
OneTransport == Connect!OneTransport
\* see Subagents: what a request that awaits a job is told
AnswersAreTrue == Agents!AnswersAreTrue
\* see ToolCalls: what a command may run as
RunsAsAllowed == Tools!RunsAsAllowed
\* see ToolCalls: what is sent for a request
AnswersFit == Tools!AnswersFit
\* Whatever was begun comes to an end, although the other side does not
\* answer: connecting and closing, requests of the service, awaits of
\* subagents, calls and logins of MCP servers, and the login of the SDK.  What
\* may go on for ever is what has no time limit: the request for the
\* configuration of a connection, the sending of an answer, a handler, an
\* await without a limit of a job that runs, the writing of a message to an
\* MCP server, and HTTP requests to one that answers piece by piece.
AllEnd == []<>(/\ AtRest /\ Connect!AtRest /\ Agents!AtRest /\ Tools!AtRest
               /\ \A p \in Process : login[p].at = "away")
=============================================================================
