------------------------------- MODULE MCAlone -------------------------------
(***************************************************************************)
(* Small instances of all components that stand alone, for their safety:   *)
(* those of MCPersistence, and those whose algorithms are about data: the  *)
(* tools that look at a workspace, the encoding of messages, and the task  *)
(* runner of the cookbook, which goes through a graph.                     *)
(***************************************************************************)
EXTENDS MCPersistence

CONSTANTS Path, Content, Read, Skipped, Cap, GlobLimit, Limits, GrepLimit,
          HardLimit, Outputs, FetchLimit, Chunks, MaxDepth, MaxChanges, \* FileTools
          Digit, Modulus, Wide, Narrow, Schema, NumberValue, StringValue,
          FieldsName, Enum, Top, Sent, Foreign, MaxPieces,              \* Codec
          Job, Document                                                 \* DagRunner

VARIABLES files, paged, walk, probed, answer,
          bytes, pieces,
          deps, ranks, runner, left, status, thread, run, stop, outcome

workspaceVars == <<files, paged, walk, probed, answer>>
codecVars == <<bytes, pieces>>
dagVars == <<deps, ranks, runner, left, status, thread, run, stop, outcome>>

Workspace == INSTANCE FileTools
Encoding == INSTANCE Codec
Dag == INSTANCE DagRunner

\* files beside a directory with others, one of which is not searched
SmallPath == {<<"a">>, <<"d">>, <<"d", "b">>, <<"d", "c">>, <<"d", ".git">>, <<"d", ".git", "x">>}
SmallContent == [p \in SmallPath |->
  IF p = <<"a">> THEN {<<>>, <<"u">>, <<"v", "u">>, <<"u", "v", "w">>} ELSE {<<"u">>}]
SmallRead == {<<"a">>, <<"d">>}
SmallLimits == {-1, 1}
SmallOutputs == UNION {[1 .. n -> {"match", "context", "--", "count", ""}] : n \in 0 .. 3}
SmallChunks == UNION {[1 .. n -> 1 .. 3] : n \in 0 .. 3}

\* a message with a field of each kind, and one that nests
Field(no, name, type, repeated, oneof) ==
  [no |-> no, name |-> name, type |-> type, repeated |-> repeated, oneof |-> oneof]
Scalar(of) == [kind |-> "scalar", of |-> of]
Nested(of) == [kind |-> "message", of |-> of]
SmallSchema ==
  [Outer |-> <<Field(1, "signed", Scalar("sint"), FALSE, ""), Field(2, "count", Scalar("int"), FALSE, ""),
               Field(3, "mode", [kind |-> "enum", of |-> "Mode"], FALSE, ""),
               Field(4, "lines", Scalar("string"), TRUE, ""),
               Field(5, "args", [kind |-> "map", key |-> Scalar("string"), value |-> Nested("Value")], FALSE, ""),
               Field(6, "inner", Nested("Inner"), FALSE, "_oneof_message"),
               Field(7, "text", Scalar("string"), FALSE, "_oneof_message"),
               Field(30, "half", Scalar("double"), FALSE, ""), Field(9, "flag", Scalar("bool"), FALSE, "")>>,
   Inner |-> <<Field(1, "size", Scalar("float"), FALSE, ""), Field(2, "subs", Nested("Inner"), TRUE, "")>>]
SmallEnum == [Mode |-> <<[n |-> 0, spellings |-> {"MODE_NONE", "NONE"}], [n |-> 5, spellings |-> {"MODE_ASK", "ASK"}]>>]
\* the names an object of the protocol's form has
NumberName == <<1>>
StringName == <<2>>
ObjectName == <<3>>
Number(n) == [kind |-> "number", n |-> n]
Object(f) == [kind |-> "object", fields |-> f]
String(s) == [kind |-> "string", s |-> s]
List(items) == [kind |-> "list", items |-> items]
Null == [kind |-> "null"]
Yes == [kind |-> "bool", b |-> TRUE]
SmallSent ==
  {[signed |-> n] : n \in {-3, 0, 4}} \cup {[count |-> n] : n \in {-1, 0, 3, 4, 20}}
  \cup {[mode |-> [by |-> "number", n |-> 4]], [mode |-> [by |-> "name", name |-> "ASK"]]}
  \cup {[lines |-> <<>>], [lines |-> <<<<>>, <<7, 7, 7, 7, 1>>>>]}
  \cup {[args |-> (<<1>> :> v)] :
          v \in {Null, Yes, Number(9), String(<<1, 2, 3, 4>>), List(<<Null, Number(0)>>), Object(<<5>> :> List(<<>>)),
                 Object(StringName :> String(<<>>)), Object(ObjectName :> Object(<<1, 1>> :> Yes))}}
  \cup {[inner |-> [subs |-> <<[size |-> 3], [subs |-> <<[size |-> 1]>>]>>]], [text |-> <<1>>, inner |-> [size |-> 0]],
        [half |-> 33, flag |-> TRUE], [flag |-> FALSE], [args |-> (<<4>> :> Number(1)) @@ (<<1>> :> Null)]}
SmallForeign == {[no |-> 8, wire |-> 0, content |-> 17], [no |-> 99, wire |-> 2, content |-> <<1, 7, 7, 1>>],
                 [no |-> 8, wire |-> 1, content |-> <<7, 7>>], [no |-> 10, wire |-> 5, content |-> <<4>>]}

\* three tasks: what depends on what was before, rings, and a task that is not there
Ring == <<{2}, {1}, {}>>
SmallDocument == {<<{}, {1}, {2}>>, <<{}, {}, {1, 2}>>, <<{}, {1}, {1}>>, <<{}, {1}, {1, 2}>>,
                  Ring, <<{2}, {3}, {1}>>, <<{}, {3}, {1, 2}>>, <<{}, {2}, {}>>, <<{1}, {9}, {}>>}

MCInit == /\ part \in Parts \cup {{"workspace"}, {"encoding"}, {"dag"}}
          /\ PartsInit /\ Workspace!Init /\ Encoding!Init /\ Dag!Init
          /\ ~OneOf("dag") => deps = Ring
OnWorkspace == OneOf("workspace") /\ Workspace!Next /\ UNCHANGED <<codecVars, dagVars, partsVars, part>>
OnEncoding == OneOf("encoding") /\ Encoding!Next /\ UNCHANGED <<workspaceVars, dagVars, partsVars, part>>
OnDag == OneOf("dag") /\ Dag!Next /\ UNCHANGED <<workspaceVars, codecVars, partsVars, part>>
MCNext == \/ PartsNext /\ UNCHANGED <<workspaceVars, codecVars, dagVars>>
          \/ OnWorkspace \/ OnEncoding \/ OnDag
MCSpec == MCInit /\ [][MCNext]_<<workspaceVars, codecVars, dagVars, partsVars, part>>

\* see FileTools: what an answer does not say is missing is there
AnswersAreWhole == OneOf("workspace") => Workspace!AnswersAreWhole
\* see Codec: a message is read as it was written
RoundTrip == OneOf("encoding") => Encoding!RoundTrip
\* see DagRunner: in the order of the document, and to an end
TasksInOrder == OneOf("dag") => Dag!TasksInOrder
=============================================================================
