------------------------------ MODULE Framing -------------------------------
(***************************************************************************)
(* How messages are cut out of a stream of bytes that comes in chunks: the *)
(* output of an MCP server (_mcp.py: StdioMcpTransport._read_loop), which  *)
(* frames messages by headers or by lines, and the events of a cloud run   *)
(* (_sse.py, with CloudRun.observe as their reader).  The frames of a run  *)
(* of a local agent are those of ConnectTransport.                         *)
(*                                                                         *)
(* What is sent is a sequence of items.  The bytes of one are abstracted   *)
(* to the pieces that its reader tells apart: "con" is the beginning of    *)
(* the name Content-Length, "w1" and "w2" are the bytes of one character.  *)
(***************************************************************************)
EXTENDS Naturals, Sequences, SequencesExt, FiniteSetsExt

CONSTANTS MaxItems,   \* bound: the items of a stream
          Ahead       \* how far a header is looked for behind a line

VARIABLES protocol,   \* "mcp" or "sse"
          items,      \* what is sent
          arrived,    \* how many bytes have arrived
          buffer,     \* those not used yet
          at,         \* the reader awaits a chunk, cuts its buffer, or is over
          given,      \* what it gave: which item, and whether its text was whole
          apart,      \* history: no chunk had bytes of two items
          split       \* history: the items with a character cut by a chunk

framingVars == <<protocol, items, arrived, buffer, at, given, apart, split>>

\* headed by its length; the same, but not JSON; on a line; a line that is no
\* message; an event; the last event; a comment
Pieces == [headed |-> <<"con", "len", "blank", "p", "p">>, bad |-> <<"con", "len", "blank", "p", "p">>,
           line |-> <<"{", "}", "nl">>, noise |-> <<"x", "nl">>,
           event |-> <<"id", "w1", "w2", "nl", "nl">>, result |-> <<"id", "w1", "w2", "nl", "nl">>,
           comment |-> <<":", "nl", "nl">>]
Payload == 2
Kinds(p) == IF p = "mcp" THEN {"headed", "bad", "line", "noise"} ELSE {"event", "result", "comment"}
Bytes(i) == [j \in DOMAIN Pieces[items[i]] |-> [of |-> i, is |-> Pieces[items[i]][j]]]
Wire == FlattenSeq([i \in DOMAIN items |-> Bytes(i)])

Init == /\ protocol \in {"mcp", "sse"}
        /\ items \in UNION {[1 .. n -> Kinds(protocol)] : n \in 1 .. MaxItems}
        /\ arrived = 0 /\ buffer = <<>> /\ at = "awaits" /\ given = <<>>
        /\ apart = TRUE /\ split = {}

-----------------------------------------------------------------------------
\* chunk.decode(errors="replace"): of a character only what is in the chunk
Decoded(chunk) ==
  LET Piece(j) == CASE chunk[j].is = "w1" -> IF j < Len(chunk) THEN "w" ELSE "?"
                    [] chunk[j].is = "w2" -> IF j > 1 THEN "" ELSE "?"
                    [] OTHER -> chunk[j].is
  IN  SelectSeq([j \in DOMAIN chunk |-> [chunk[j] EXCEPT !.is = Piece(j)]], LAMBDA b : b.is # "")
Chunk(n) ==
  LET chunk == SubSeq(Wire, arrived + 1, n) IN
  /\ at = "awaits" /\ n > arrived
  /\ arrived' = n /\ at' = "cuts"
  /\ buffer' = buffer \o (IF protocol = "sse" THEN Decoded(chunk) ELSE chunk)
  /\ apart' = (apart /\ chunk[1].of = Last(chunk).of)
  /\ split' = split \cup {b.of : b \in {b \in {Last(chunk)} : b.is = "w1"}}
  /\ UNCHANGED <<protocol, items, given>>
\* the process or the connection ends, or fails
Ends == /\ at = "awaits" /\ at' = "over"
        /\ UNCHANGED <<protocol, items, arrived, buffer, given, apart, split>>

PlacesOf(piece) == {j \in DOMAIN buffer : buffer[j].is = piece}
Beyond(j) == SubSeq(buffer, j + 1, Len(buffer))
Await(rest) == buffer' = rest /\ at' = "awaits" /\ UNCHANGED given
Give(of, whole, rest) == /\ buffer' = rest /\ given' = Append(given, [of |-> of, whole |-> whole])

-----------------------------------------------------------------------------
(* _pop_mcp_frame.  The loop around it awaits the next chunk whenever it   *)
(* returns nothing, whether or not it has taken something off the buffer.  *)

\* the buffer begins with the header, or has it behind a line not far away
Headed == \E j \in PlacesOf("len") :
            \/ j = 2
            \/ j <= Ahead /\ j > 2 /\ buffer[j - 2].is = "nl"
\* Mutant: the payload is taken as soon as it begins.
HasPayloadBegun(blank) == Len(buffer) > blank
HasPayload(blank) == Len(buffer) >= blank + Payload
PopHeaded ==
  /\ Headed
  /\ IF PlacesOf("blank") = {} \/ ~HasPayload(Min(PlacesOf("blank"))) THEN Await(buffer)
     ELSE LET blank == Min(PlacesOf("blank"))
              payload == SubSeq(buffer, blank + 1, Min({blank + Payload, Len(buffer)}))
              of == buffer[blank].of
          IN  IF items[of] = "headed" /\ Len(payload) = Payload
              THEN Give(of, TRUE, Beyond(blank + Len(payload))) /\ UNCHANGED at
              ELSE Await(Beyond(blank + Len(payload)))

\* the buffer without the line ends it begins with
Stripped == LET text == {j \in DOMAIN buffer : buffer[j].is # "nl"}
            IN  IF text = {} THEN <<>> ELSE SubSeq(buffer, Min(text), Len(buffer))
\* json.loads accepts one message, with nothing but white space behind it
IsMessage(text) == /\ Len(text) >= 2 /\ text[1].is = "{" /\ text[2].is = "}"
                   /\ \A j \in 3 .. Len(text) : text[j].is = "nl"
PopLine ==
  /\ ~Headed
  /\ IF buffer = <<>> THEN Await(buffer)
     ELSE IF Stripped = <<>> \/ Stripped[1].is # "{"
     THEN Await(IF PlacesOf("nl") = {} THEN buffer ELSE Beyond(Min(PlacesOf("nl"))))
     ELSE IF IsMessage(Stripped) THEN /\ Give(Stripped[1].of, TRUE, SubSeq(Stripped, 4, Len(Stripped)))
                                      /\ UNCHANGED at
     ELSE Await(buffer)

-----------------------------------------------------------------------------
\* iter_sse_events: a block ends at an empty line.  observe: a comment has no
\* type of event and is passed over, a result is the last.
PopBlock ==
  LET ends == {j \in PlacesOf("nl") : j + 1 \in PlacesOf("nl")} IN
  IF ends = {} THEN Await(buffer)
  ELSE LET block == SubSeq(buffer, 1, Min(ends) - 1)
           of == block[1].of
           rest == Beyond(Min(ends) + 1)
       IN  IF items[of] = "comment" THEN buffer' = rest /\ UNCHANGED <<at, given>>
           ELSE /\ Give(of, \E j \in DOMAIN block : block[j].is = "w", rest)
                /\ at' = IF items[of] = "result" THEN "over" ELSE at

Cut == /\ at = "cuts"
       /\ \/ protocol = "mcp" /\ (PopHeaded \/ PopLine)
          \/ protocol = "sse" /\ PopBlock
       /\ UNCHANGED <<protocol, items, arrived, apart, split>>
Next == (\E n \in 1 .. Len(Wire) : Chunk(n)) \/ Cut \/ Ends
Spec == Init /\ [][Next]_framingVars

-----------------------------------------------------------------------------
\* However a stream is cut into chunks, what is given is what was sent, in order
\* and once: all that has arrived of events and of messages with headers; of
\* messages on lines, which are read only one at a time, where chunks do not join
\* them with anything else.  An event is whole, unless one of its characters was cut.
FramesAreRead ==
  LET Whole(i) == Len(FlattenSeq([j \in 1 .. i |-> Bytes(j)])) <= arrived
      messages == {i \in DOMAIN items : items[i] \in {"headed", "line", "event", "result"}}
      results == {i \in DOMAIN items : items[i] = "result"}
  IN  /\ \A j, k \in DOMAIN given : j < k => given[j].of < given[k].of
      /\ \A j \in DOMAIN given : /\ given[j].of \in messages
                                 /\ given[j].whole \/ given[j].of \in split
      /\ at = "awaits" /\ (protocol = "sse" \/ apart \/ \A i \in DOMAIN items : items[i] = "headed") =>
           \A i \in messages : Whole(i) => \E j \in DOMAIN given : given[j].of = i
      /\ \A j \in DOMAIN given : given[j].of \in results => j = Len(given) /\ given[j].of = Min(results)
=============================================================================
