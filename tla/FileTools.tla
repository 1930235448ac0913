----------------------------- MODULE FileTools ------------------------------
(***************************************************************************)
(* The tools that read and change a workspace (_local_executor.py:         *)
(* _exec_read, _exec_ls, _exec_glob, _exec_pi_find, _exec_write,           *)
(* _exec_delete, _exec_fetch; _ripgrep.py), beside other programs that     *)
(* change it too.  Every answer is limited in size; the model that asked   *)
(* knows only what the answer says of that.  A file is read page by page,  *)
(* and directories are opened one after the other.                         *)
(*                                                                         *)
(* A path is a sequence of names, a text a sequence of lines, the output   *)
(* of ripgrep a sequence of lines of the kinds its reader tells apart.     *)
(***************************************************************************)
EXTENDS Integers, Sequences, FiniteSets, SequencesExt, FiniteSetsExt

CONSTANTS Path,        \* the paths below the working directory
          Content,     \* the texts each file may have
          Read,        \* the paths that are read page by page
          Skipped,     \* names of directories that are not searched
          Cap,         \* how many files a search collects
          GlobLimit,   \* how many of them glob returns
          Limits,      \* limits of a reading or finding; NoLimit is none
          GrepLimit, HardLimit,   \* CLIENT_LIMIT_LINES, HARD_MAX_OUTPUT_LINES
          Outputs,     \* what ripgrep may print
          FetchLimit,  \* FETCH_MAX_BYTES
          Chunks,      \* sizes of the pieces a page may come in
          MaxDepth,    \* how deep ls goes
          MaxChanges   \* bound: changes while directories are searched

VARIABLES files,       \* what is at each path
          paged,       \* a file that is read page by page
          walk,        \* directories that are searched one by one
          probed,      \* supports_cursor_ignore: what is cached
          answer       \* the last answer of another tool, and what it is about

fileToolVars == <<files, paged, walk, probed, answer>>

Absent == [is |-> "absent"]
Dir == [is |-> "dir"]
File(text) == [is |-> "file", text |-> text]
NoLimit == -1
NoAnswer == [tool |-> "none"]
Idle == [at |-> "idle", path |-> <<>>, limit |-> NoLimit, got |-> <<>>, changed |-> FALSE]

NoWalk == [tool |-> "none", changes |-> 0]

Init == /\ files = [p \in Path |-> Absent] /\ walk = NoWalk
        /\ paged = Idle /\ probed = "unknown" /\ answer = NoAnswer

Above(p, q) == IsStrictPrefix(p, q)
Below(p) == {q \in Path : Above(p, q) /\ files[q] # Absent}
\* the working directory itself is always there
Is(p) == IF p = <<>> THEN "dir" ELSE files[p].is
Smaller(n, m) == IF n < m THEN n ELSE m

-----------------------------------------------------------------------------
(* Changing the workspace *)
\* other processes may do the same, so that a change has no answer here
Becomes(new) ==
  /\ files' = new /\ answer' = NoAnswer /\ UNCHANGED probed
  /\ paged' = [paged EXCEPT !.changed = @ \/ (paged.at # "idle" /\ files'[paged.path] # files[paged.path])]
  /\ walk.changes < MaxChanges
  /\ walk' = IF walk = NoWalk THEN walk
              ELSE [walk EXCEPT !.changes = @ + 1,
                                !.ever = @ \cup {p \in Path : Above(walk.root, p) /\ new[p] # Absent},
                                !.steady = {p \in @ : new[p].is = files[p].is}]
\* _exec_write makes the directories above; a file there, or a directory at
\* the path, is an OSError
Write(p, text) ==
  /\ files[p] # Dir /\ \A q \in Path : Above(q, p) => files[q].is # "file"
  /\ Becomes([q \in Path |-> IF q = p THEN File(text) ELSE IF Above(q, p) THEN Dir ELSE files[q]])
\* _exec_delete: a directory only if it is empty
Delete(p) == /\ files[p] # Absent /\ Below(p) = {}
             /\ Becomes([files EXCEPT ![p] = Absent])

-----------------------------------------------------------------------------
(* _exec_read, which a model calls again where the page before ended *)
StartReading(p, limit) ==
  /\ paged.at \in {"idle", "done", "failed"}
  /\ paged' = [at |-> "reads", path |-> p, limit |-> limit, got |-> <<>>, changed |-> FALSE]
  /\ answer' = NoAnswer /\ UNCHANGED <<files, walk, probed>>
Sliced(lines, offset) == SubSeq(lines, offset + 1, Len(lines))
\* Mutant: a page that is exactly full counts as cut.
PageOfFull(lines, limit) ==
  IF limit = NoLimit THEN [lines |-> lines, truncated |-> FALSE]
  ELSE [lines |-> SubSeq(lines, 1, Smaller(limit, Len(lines))), truncated |-> Len(lines) > limit + 1]

Page(lines, limit) ==
  IF limit = NoLimit THEN [lines |-> lines, truncated |-> FALSE]
  ELSE [lines |-> SubSeq(lines, 1, Smaller(limit, Len(lines))), truncated |-> Len(lines) > limit]
ReadPage ==
  /\ paged.at = "reads"
  /\ paged' = IF files[paged.path].is # "file" THEN [paged EXCEPT !.at = "failed"]
               ELSE LET page == Page(Sliced(files[paged.path].text, Len(paged.got)), paged.limit)
                    IN  [paged EXCEPT !.got = @ \o page.lines,
                                       !.at = IF page.truncated THEN "reads" ELSE "done"]
  /\ UNCHANGED <<files, walk, probed, answer>>

-----------------------------------------------------------------------------
(* Searching *)
Answers(a) == answer' = a /\ UNCHANGED <<files, paged>>
Subset(size, set) == kSubset(Smaller(size, Cardinality(set)), set)
ToOpen(p) == IF Is(p) = "dir" THEN {p} ELSE {}

\* _glob_files starts at a directory, a file, or nothing, and ls not at nothing.
\* steady and ever: what is there all the time, and at any time
StartWalk(tool, root, limit) ==
  /\ tool = "ls" => Is(root) # "absent"
  /\ walk' = [tool |-> tool, root |-> root, limit |-> limit, left |-> ToOpen(root),
              found |-> IF tool # "ls" /\ Is(root) = "file" THEN {root} ELSE {},
              unopened |-> {}, unread |-> {}, steady |-> Below(root), ever |-> Below(root) \cup {root},
              changes |-> 0]
  /\ UNCHANGED <<files, paged, probed, answer>>

\* _glob_files collects the files outside of the skipped directories, up to a
\* number of them; ls names everything but what is hidden, and opens the
\* directories of the upper levels
Children(d) == {p \in Below(d) : Len(p) = Len(d) + 1}
Found(d) == IF walk.tool = "ls" THEN {p \in Children(d) : Last(p) \notin Skipped}
            ELSE {p \in Children(d) : Is(p) = "file" /\ ToSet(p) \cap Skipped = {}}
Deep(p) == walk.tool = "ls" /\ Len(p) - Len(walk.root) > MaxDepth
OpenDirectory(d) ==
  LET inside == {p \in (IF walk.tool = "ls" THEN Found(d) ELSE Children(d)) : Is(p) = "dir"} IN
  /\ Is(d) = "dir"
  /\ \E more \in IF walk.tool = "ls" THEN {Found(d)} ELSE Subset(Cap - Cardinality(walk.found), Found(d)) :
       LET full == walk.tool # "ls" /\ Cardinality(walk.found \cup more) = Cap
       IN  walk' = [walk EXCEPT !.found = @ \cup more, !.unopened = @ \cup {p \in inside : Deep(p)},
                                !.left = IF full THEN {} ELSE (@ \ {d}) \cup {p \in inside : ~Deep(p)}]
  /\ UNCHANGED <<files, paged, probed, answer>>

\* An OSError, or the directory is gone.  ls goes on as if it were empty; a
\* search passes over it or ends there, without an error in either case.
CannotOpen(d) ==
  /\ \E skipped \in IF walk.tool = "ls" THEN {{d}} ELSE {{d}, walk.left} :
       walk' = [walk EXCEPT !.left = @ \ skipped, !.unread = @ \cup skipped]
  /\ UNCHANGED <<files, paged, probed, answer>>

\* _exec_glob, and _exec_pi_find, which without a limit says nothing of the
\* files not collected, and _exec_ls
EndWalk ==
  /\ walk.left = {} /\ walk' = NoWalk
  /\ LET limit == IF walk.tool = "glob" THEN GlobLimit ELSE walk.limit
         reached == walk.tool # "ls" /\ limit # NoLimit /\ Cardinality(walk.found) > limit
     IN  \E kept \in IF reached THEN Subset(limit, walk.found) ELSE {walk.found} :
           Answers([tool |-> walk.tool, root |-> walk.root, kept |-> kept, truncated |-> reached,
                    unopened |-> walk.unopened, unread |-> walk.unread,
                    steady |-> walk.steady, ever |-> walk.ever])
  /\ UNCHANGED probed

(* Searching with ripgrep.  Its output is cut at a number of bytes, here   *)
(* of lines; an error counts only if there is no output.                   *)
Prefix(s, n) == SubSeq(s, 1, Smaller(n, Len(s)))
ParseContent(lines) ==
  LET records == SelectSeq(lines, LAMBDA l : l \in {"match", "context"})
      kept == Prefix(records, GrepLimit)
  IN  [kept |-> kept, matched |-> Len(SelectSeq(lines, LAMBDA l : l = "match")),
       truncated |-> Len(kept) >= GrepLimit /\ lines # <<>>, ripgrep |-> Len(lines) >= HardLimit]
ParseFiles(lines) ==
  LET names == SelectSeq(lines, LAMBDA l : l # "")
  IN  [kept |-> Prefix(names, GrepLimit), matched |-> Len(names),
       truncated |-> Len(names) > GrepLimit, ripgrep |-> Len(names) >= HardLimit]
ParseCount(lines) ==
  LET counts == SelectSeq(lines, LAMBDA l : l = "count")
  IN  [kept |-> Prefix(counts, GrepLimit), matched |-> Len(counts),
       truncated |-> Len(counts) > GrepLimit, ripgrep |-> Len(counts) >= HardLimit]
\* supports_cursor_ignore asks the program once; no answer in 5 s counts as no
Probe(result) == IF probed = "unknown" THEN result ELSE probed
Grep(mode, out, fails, result) ==
  /\ probed' = Probe(result) /\ UNCHANGED walk
  /\ IF fails /\ out = <<>> THEN Answers([tool |-> "grep error"])
     ELSE Answers([tool |-> "grep", mode |-> mode, out |-> out, ignores |-> probed' = "yes",
                   union |-> CASE mode = "content" -> ParseContent(out)
                               [] mode = "files_with_matches" -> ParseFiles(out)
                               [] mode = "count" -> ParseCount(out)])

-----------------------------------------------------------------------------
(* _exec_fetch reads pieces until it has enough *)
RECURSIVE Taken(_, _)
Taken(chunks, total) ==
  IF chunks = <<>> THEN [total |-> total, truncated |-> FALSE]
  ELSE LET remain == FetchLimit - total
       IN  IF remain <= 0 THEN [total |-> total, truncated |-> TRUE]
           ELSE IF Head(chunks) > remain THEN [total |-> total + remain, truncated |-> TRUE]
           ELSE Taken(Tail(chunks), total + Head(chunks))
Fetch(chunks) == /\ Answers([tool |-> "fetch", chunks |-> chunks, page |-> Taken(chunks, 0)])
                 /\ UNCHANGED <<walk, probed>>

\* bound: nothing else is asked while a file is read or directories are
\* searched, the two do not meet, and what does not look at the files of the
\* model is asked of an empty workspace
Asks == answer = NoAnswer /\ paged.at = "idle" /\ walk = NoWalk
Apart == Below(<<>>) = {}
Next == \/ \E p \in Path : Delete(p) \/ \E text \in Content[p] : Write(p, text)
        \/ walk = NoWalk /\ \E p \in Read, limit \in Limits : StartReading(p, limit)
        \/ ReadPage
        \/ Asks /\ \E root \in Path \cup {<<>>} :
                    \/ StartWalk("glob", root, NoLimit) \/ StartWalk("ls", root, NoLimit)
                    \/ \E limit \in Limits : StartWalk("find", root, limit)
        \/ walk # NoWalk /\ (EndWalk \/ \E d \in walk.left : OpenDirectory(d) \/ CannotOpen(d))
        \/ /\ Asks /\ Apart
           /\ \/ \E mode \in {"content", "files_with_matches", "count"}, out \in Outputs,
                    fails \in BOOLEAN, result \in {"yes", "no"} : Grep(mode, out, fails, result)
              \/ \E chunks \in Chunks : Fetch(chunks)
Spec == Init /\ [][Next]_fileToolVars

-----------------------------------------------------------------------------
\* What an answer lacks without saying so lies in a directory that could not
\* be opened: glob, find and ls name what was there all the time they searched,
\* and nothing that never was there, whatever changes meanwhile.  An answer that
\* was cut is full.  Pages of a file that nobody changed in between are the file.
\* find says nothing of what is beyond the collected files, and grep counts a
\* full answer as cut.
Missing(of) == {p \in of \ answer.kept : ~\E d \in answer.unread \cup answer.unopened : d = p \/ Above(d, p)}
AnswersAreWhole ==
  /\ paged.at = "done" /\ ~paged.changed => paged.got = files[paged.path].text
  /\ answer.tool \in {"glob", "find", "ls"} => answer.kept \subseteq answer.ever
  /\ answer.tool \in {"glob", "find"} =>
       /\ ~answer.truncated /\ (answer.tool = "find" => Cardinality(answer.ever) <= Cap)
            => Missing({p \in answer.steady : Is(p) = "file" /\ ToSet(p) \cap Skipped = {}}) = {}
       /\ answer.truncated => Cardinality(answer.ever) > Cardinality(answer.kept)
  /\ answer.tool = "ls" =>
       Missing({p \in answer.steady : ToSet(Sliced(p, Len(answer.root))) \cap Skipped = {}}) = {}
  /\ answer.tool = "grep" =>
       LET wanted == SelectSeq(answer.out, LAMBDA l : l \in CASE answer.mode = "content" -> {"match", "context"}
                                                          [] answer.mode = "count" -> {"count"}
                                                          [] OTHER -> {"match", "context", "count", "--"})
       IN  /\ IsPrefix(answer.union.kept, wanted)
           /\ ~answer.union.truncated => answer.union.kept = wanted
           /\ answer.union.truncated => Len(answer.union.kept) = GrepLimit
  /\ answer.tool = "fetch" =>
       LET size == FoldLeft(LAMBDA n, c : n + c, 0, answer.chunks)
       IN  answer.page = [total |-> Smaller(size, FetchLimit), truncated |-> size > FetchLimit]
=============================================================================
