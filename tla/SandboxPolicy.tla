--------------------------- MODULE SandboxPolicy ----------------------------
(***************************************************************************)
(* Sandbox policies (_sandbox.py): the policy of a request in the form of  *)
(* the protocol, in that of the SDK, and as the document the helper gets.  *)
(* An absent field is "" (or {} for a list).                               *)
(***************************************************************************)
EXTENDS Naturals, Sequences

CONSTANT Host       \* hosts, and patterns of hosts

Absent == ""
Types == {"insecure_none", "workspace_readwrite", "workspace_readonly"}
Networks == [default : {Absent, "allow", "deny"}, allow : SUBSET Host, deny : SUBSET Host,
             version : {Absent, "1"}]
NoNetwork == [default |-> Absent, allow |-> {}, deny |-> {}, version |-> Absent]
Requested == [type : 0 .. 4, network : Networks, access : BOOLEAN, strict : BOOLEAN,
              boundary : {Absent, "system", "workspace"}, reads : BOOLEAN, noTmp : BOOLEAN]

\* what is unknown is no sandbox
PolicyType(proto) == CASE proto.type = 2 -> "workspace_readwrite"
                       [] proto.type = 3 -> "workspace_readonly"
                       [] OTHER -> "insecure_none"

\* _js_network_policy: a network policy that says nothing leaves it to the flag
JsNetwork(proto) ==
  IF proto.network # NoNetwork THEN [proto.network EXCEPT !.version = "1"]
  ELSE [NoNetwork EXCEPT !.version = "1", !.default = IF proto.access THEN "allow" ELSE "deny"]

NoPolicy == [type |-> "insecure_none"]
ProtoToJs(proto) ==
  IF PolicyType(proto) = "insecure_none" THEN NoPolicy
  ELSE [type |-> PolicyType(proto), network |-> JsNetwork(proto), strict |-> IF proto.strict THEN "yes" ELSE "no",
        noTmp |-> proto.noTmp, boundary |-> proto.boundary,
        reads |-> proto.boundary = "workspace" /\ proto.reads]
\* without a policy in the request, the runtime's default of its type alone
Default(type) == [type |-> type, network |-> NoNetwork, strict |-> Absent, noTmp |-> FALSE,
                  boundary |-> Absent, reads |-> FALSE]
EffectivePolicy(runtime, asked) ==
  IF asked # <<>> THEN ProtoToJs(asked[1])
  ELSE IF runtime = "insecure_none" THEN NoPolicy ELSE Default(runtime)
SandboxIsOn(policy) == policy.type # "insecure_none"

NetworkEnabled(network) == network.default = "allow" \/ network.allow # {}
\* nothing to add where the flag says it all
CliNetwork(network) ==
  IF NetworkEnabled(network) /\ (network.default # "allow" \/ network.deny # {})
  THEN <<network>> ELSE <<>>

HelperDocument(policy) ==
  [type |-> policy.type, access |-> NetworkEnabled(policy.network),
   network |-> CliNetwork(policy.network),
   strict |-> policy.strict # "no",
   boundary |-> IF policy.boundary = Absent THEN "system" ELSE policy.boundary,
   reads |-> policy.reads,
   tmp |-> policy.type = "workspace_readonly" \/ ~policy.noTmp]

-----------------------------------------------------------------------------
(* What the helper does with a network policy: the deny list counts before *)
(* the allow list, and this before the default, which is to deny.          *)
Permits(network, host) == /\ host \notin network.deny
                          /\ host \in network.allow \/ network.default = "allow"
HelperPermits(document, host) ==
  document.access /\ (document.network # <<>> => Permits(document.network[1], host))
\* what the request asked for
Asked(proto, host) == IF proto.network = NoNetwork THEN proto.access
                      ELSE Permits(proto.network, host)
=============================================================================
