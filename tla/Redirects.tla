------------------------------ MODULE Redirects ------------------------------
(***************************************************************************)
(* How parse_shell_command (_shell_parse.py) follows the redirections of a *)
(* command, to tell whether all of them lead to /dev/null or to what the   *)
(* command was given.  The statements of the command are visited from the  *)
(* outermost one inwards; each keeps an account of its own, from fresh     *)
(* descriptors on.  "real" is what the shell does meanwhile.               *)
(***************************************************************************)
EXTENDS Naturals

CONSTANT Fd          \* file descriptors, 0, 1 and 2 among them

VARIABLES kinds,     \* fds: what each descriptor is known to be
          allDevNull,  \* all_redirects_are_dev_null, so far
          real       \* what each descriptor is

redirectVars == <<kinds, allDevNull, real>>

Originals == {"original-stdin", "original-stdout", "original-stderr"}
Fresh == [fd \in Fd |-> CASE fd = 0 -> "original-stdin" [] fd = 1 -> "original-stdout"
                          [] fd = 2 -> "original-stderr" [] OTHER -> "none"]
Operators == {"<", ">", ">>", ">|", "<>", "<&", ">&", "&>", "&>>"}
\* what follows the operator: a descriptor, "-", /dev/null or another word
Targets == Fd \cup {10, 11, 12}
Dash == 10
DevNull == 11
Word == 12
Default == 20        \* no descriptor before the operator

TypeOK == /\ kinds \in [Fd -> Originals \cup {"dev-null", "unsafe", "none"}]
          /\ allDevNull \in BOOLEAN
          /\ real \in [Fd -> Originals \cup {"dev-null", "file", "text", "none"}]

Init == kinds = Fresh /\ allDevNull = TRUE /\ real = Fresh

-----------------------------------------------------------------------------
DestinationFds(operator, fd) ==
  IF operator \in {"&>", "&>>"} THEN {1, 2}
  ELSE IF fd # Default THEN {fd}
  ELSE IF operator \in {"<", "<>", "<&"} THEN {0} ELSE {1}
IsSafe(kind) == kind \in {"original-stdout", "original-stderr", "dev-null"}

\* Mutant: a copy is allowed unless what is copied is known to be unsafe.
LeadsUnlessUnsafe(operator, target) ==
  LET source == IF target \in Fd THEN kinds[target] ELSE "none" IN
  CASE operator \in {">&", "<&"} -> source
    [] OTHER -> IF target = DevNull THEN "dev-null" ELSE "unsafe"

\* the kind that the destinations get, "unsafe" if it is not to be allowed
Leads(operator, target) ==
  LET source == IF target \in Fd THEN kinds[target] ELSE "none" IN
  CASE operator = ">&" -> IF IsSafe(source) THEN source ELSE "unsafe"
    [] operator = "<&" -> IF source = "dev-null" THEN source ELSE "unsafe"
    [] OTHER -> IF target = DevNull THEN "dev-null" ELSE "unsafe"

\* what the shell does: a word after >& is a file for both outputs
Attached(operator, fd, target) ==
  LET both == operator = ">&" /\ target \in {DevNull, Word} /\ fd = Default
      moved == operator \in {"<&", ">&"} /\ target \in Fd \cup {Dash} IN
  [d \in Fd |->
     IF d \in (IF both THEN {1, 2} ELSE DestinationFds(operator, fd))
     THEN IF moved THEN (IF target = Dash THEN "none" ELSE real[target])
          ELSE IF target = DevNull THEN "dev-null" ELSE "file"
     ELSE real[d]]

FileRedirect(operator, fd, target) ==
  LET kind == Leads(operator, target) IN
  /\ kinds' = [d \in Fd |-> IF d \in DestinationFds(operator, fd) THEN kind ELSE kinds[d]]
  /\ allDevNull' = (allDevNull /\ kind # "unsafe")
  /\ real' = Attached(operator, fd, target)

\* a here-document counts as safe where it is fed to a named command
HereDocument(named) == /\ allDevNull' = (allDevNull /\ named)
                       /\ real' = [real EXCEPT ![0] = "text"]
                       /\ UNCHANGED kinds
\* anything else is not
OtherRedirect == allDevNull' = FALSE /\ UNCHANGED <<kinds, real>>

\* a statement within this one
Inner == kinds' = Fresh /\ UNCHANGED <<allDevNull, real>>

\* bound: nothing follows what settles the answer
Next == /\ allDevNull
        /\ \/ \E operator \in Operators, fd \in Fd \cup {Default}, target \in Targets :
                /\ operator \in {"&>", "&>>"} => fd = Default
                /\ FileRedirect(operator, fd, target)
           \/ \E named \in BOOLEAN : HereDocument(named)
           \/ OtherRedirect \/ Inner
Spec == Init /\ [][Next]_redirectVars

-----------------------------------------------------------------------------
(* However descriptors are opened, copied and closed, in whatever order    *)
(* and however deep: while all redirections are found to lead to /dev/null *)
(* or to what was given, no descriptor of any statement is a file, and one *)
(* that is known to be /dev/null is nothing but that or a here-document.   *)
DevNullIsSound ==
  /\ TypeOK
  /\ allDevNull => \A fd \in Fd : /\ real[fd] # "file"
                                  /\ kinds[fd] = "dev-null" => real[fd] \in {"dev-null", "text"}
=============================================================================
