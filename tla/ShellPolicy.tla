---------------------------- MODULE ShellPolicy -----------------------------
(***************************************************************************)
(* The denylist of shell commands (_shell_parse.py): which rules are       *)
(* valid, which commands a rule matches, and how a command is read with    *)
(* its quotes removed.  A text is a sequence of one-character strings; the *)
(* numeric escapes of $'...' are left out.                                 *)
(***************************************************************************)
EXTENDS Naturals, Sequences, SequencesExt

\* NoBreak stands for the white space that str.strip leaves alone
NoBreak == "_"
Newline == "\n"
White == {" ", Newline, NoBreak}
Stripped == {" ", Newline}

\* words one blank apart, and none at the ends
Collapse(text) ==
  FlattenSeq([i \in DOMAIN text |->
    IF text[i] \in White THEN <<>>
    ELSE IF i > 1 /\ text[i-1] \in White /\ \E j \in 1 .. i - 1 : text[j] \notin White
         THEN <<" ", text[i]>> ELSE <<text[i]>>])

Strip(text) ==
  LET kept == {i \in DOMAIN text : text[i] \notin Stripped} IN
  IF kept = {} THEN <<>>
  ELSE SubSeq(text, CHOOSE i \in kept : \A j \in kept : i <= j,
                    CHOOSE i \in kept : \A j \in kept : j <= i)

StarsOnly(text) == text # <<>> /\ ToSet(text) = {"*"}

\* where a character is first, or 0
First(text, char) ==
  LET at == {i \in DOMAIN text : text[i] = char} IN
  IF at = {} THEN 0 ELSE CHOOSE i \in at : \A j \in at : i <= j
Before(text, i) == SubSeq(text, 1, i - 1)
After(text, i) == SubSeq(text, i + 1, Len(text))

\* "executable:arguments"
IsColonRule(rule) == /\ First(rule, ":") > 1
                     /\ ToSet(Strip(Before(rule, First(rule, ":")))) \cap White = {}
Executable(rule) == Strip(Before(rule, First(rule, ":")))
Arguments(rule) == Strip(After(rule, First(rule, ":")))

\* a star stands for anything within a line
GlobMatch(pattern, text) ==
  LET p == Strip(pattern)
      match[i \in 1 .. Len(p) + 1, j \in 1 .. Len(text) + 1] ==
        IF i > Len(p) THEN j > Len(text)
        ELSE IF p[i] = "*"
             THEN match[i + 1, j] \/ (j <= Len(text) /\ text[j] # Newline /\ match[i, j + 1])
             ELSE j <= Len(text) /\ text[j] = p[i] /\ match[i + 1, j + 1]
  IN  match[1, 1]

-----------------------------------------------------------------------------
(* unescape_shell_word: what the text says from position i on, read in the *)
(* mode that the quotes before it have left.                               *)
Escape == [c \in {"n", "\\", "'", "\""} |-> IF c = "n" THEN Newline ELSE c]
InDouble == {"$", "\"", "\\", Newline}     \* and the backquote, which is as "$" here

Unescape(text) ==
  LET n == Len(text)
      then(i, char) == i < n /\ text[i + 1] = char
      says[i \in 1 .. n + 2, mode \in {"plain", "single", "double", "ansi"}] ==
        IF i > n THEN <<>>
        ELSE LET c == text[i]
                 escapes == c = "\\" /\ i < n
                 stays == <<c>> \o says[i + 1, mode] IN
        CASE mode = "plain" ->
               IF c = "$" /\ then(i, "'") THEN says[i + 2, "ansi"]
               ELSE IF c = "$" /\ then(i, "\"") THEN says[i + 2, "double"]
               ELSE IF c = "'" THEN says[i + 1, "single"]
               ELSE IF c = "\"" THEN says[i + 1, "double"]
               ELSE IF escapes
                    THEN (IF then(i, Newline) THEN <<>> ELSE <<text[i + 1]>>) \o says[i + 2, "plain"]
               ELSE stays
          [] mode = "single" -> IF c = "'" THEN says[i + 1, "plain"] ELSE stays
          [] mode = "double" ->
               IF c = "\"" THEN says[i + 1, "plain"]
               ELSE IF escapes /\ text[i + 1] \in InDouble
                    THEN (IF then(i, Newline) THEN <<>> ELSE <<text[i + 1]>>) \o says[i + 2, "double"]
               ELSE stays
          [] mode = "ansi" ->
               IF c = "'" THEN says[i + 1, "plain"]
               ELSE IF escapes
                    THEN <<IF text[i + 1] \in DOMAIN Escape THEN Escape[text[i + 1]]
                           ELSE text[i + 1]>> \o says[i + 2, "ansi"]
               ELSE stays
  IN  Collapse(says[1, "plain"])

-----------------------------------------------------------------------------
\* the rules that are too long to be valid are left out
RuleInvalid(rule) ==
  LET r == Strip(Collapse(rule)) IN
  \/ r = <<>> \/ StarsOnly(r) \/ r[1] = ":"
  \/ IsColonRule(r) /\ StarsOnly(Executable(r)) /\ (Arguments(r) = <<>> \/ StarsOnly(Arguments(r)))

MatchesForm(rule, command) ==
  LET blank == First(command, " ")
      name == IF blank = 0 THEN command ELSE Before(command, blank)
      rest == IF blank = 0 THEN <<>> ELSE Strip(After(command, blank)) IN
  \/ /\ IsColonRule(rule)
     /\ GlobMatch(Executable(rule), name) /\ GlobMatch(Arguments(rule), rest)
  \/ IF "*" \in ToSet(rule) THEN GlobMatch(rule, command)
     ELSE command = rule \/ IsPrefix(rule \o <<" ">>, command)

\* Mutant: quotes are not removed.
FormsQuoted(command) == {Strip(command), Strip(Collapse(command))}

Forms(command) == {Strip(command), Strip(Collapse(command)), Strip(Unescape(command))}
MatchesCommand(rule, command) ==
  LET r == Strip(Collapse(rule)) IN
  ~RuleInvalid(r) /\ \E form \in Forms(command) : MatchesForm(r, form)

\* denylist_reason: commands that cannot be told apart are denied; otherwise
\* the whole text and each of its simple commands are looked at
Denied(command, simple, rules) ==
  LET given == {r \in rules : Strip(r) # <<>>}
      texts == {Strip(t) : t \in {command} \cup simple} \ {<<>>} IN
  /\ given # {}
  /\ simple = {} \/ \E r \in given, t \in (IF texts = {} THEN {<<>>} ELSE texts) : MatchesCommand(r, t)

-----------------------------------------------------------------------------
(* What the shell makes of a word: pieces, each a character and the way it *)
(* is quoted.  An escaped line end is nothing; bare characters mean        *)
(* themselves.                                                             *)
Special == {"\\", "'", "\"", "$"}
Piece(chars) == {p \in [char : chars, style : {"bare", "escaped", "single", "double", "ansi"}] :
                   /\ p.style = "bare" => p.char \notin Special \cup {Newline}
                   /\ p.style = "single" => p.char # "'"}
Written(p) ==
  CASE p.style = "bare"    -> <<p.char>>
    [] p.style = "escaped" -> <<"\\", p.char>>
    [] p.style = "single"  -> <<"'", p.char, "'">>
    [] p.style = "double"  -> IF p.char \in InDouble \ {Newline} THEN <<"\"", "\\", p.char, "\"">>
                              ELSE <<"\"", p.char, "\"">>
    [] p.style = "ansi"    -> IF p.char \in {"\\", "'"} THEN <<"$", "'", "\\", p.char, "'">>
                              ELSE IF p.char = Newline THEN <<"$", "'", "\\", "n", "'">>
                              ELSE <<"$", "'", p.char, "'">>
AsWritten(word) == FlattenSeq([i \in DOMAIN word |-> Written(word[i])])
AsRead(word) == FlattenSeq([i \in DOMAIN word |->
                  IF word[i].style = "escaped" /\ word[i].char = Newline THEN <<>>
                  ELSE <<word[i].char>>])
=============================================================================
