--------------------------- MODULE SandboxHelper ----------------------------
(***************************************************************************)
(* The helper that runs sandboxed commands (_sandbox.py): the search for   *)
(* it, the preflight whose outcome a process remembers, and the files of   *)
(* policies that all processes write into one directory and that each of   *)
(* them clears of old ones from time to time.  The helper is external: it  *)
(* reads its policy when it starts.                                        *)
(***************************************************************************)
EXTENDS Naturals, Sequences, FiniteSets, SequencesExt

CONSTANTS Thread, Process,      \* threads make runtimes and run commands
          Sites,                \* what is installed where, and which thread runs where
          Workdir,              \* of all runtimes
          Interval, MaxAge,     \* POLICY_CLEANUP_INTERVAL_S, POLICY_MAX_AGE_S
          MaxNow                \* bound; each thread makes a runtime and runs one command

VARIABLES site,       \* a member of Sites
          tick,       \* time.time(), in intervals
          policies,   \* the files: who wrote them when
          cleaned,    \* _last_policy_cleanup of each process; 0 is never
          preflight,  \* _preflight_cache of each process: of one helper and workspace
          tasks,      \* where each thread is, its file, and what its runtime says
          passed      \* history: the processes in which a preflight has passed

sandboxVars == <<site, tick, policies, cleaned, preflight, tasks, passed>>

ProcessOf(t) == site.process[t]
\* directories are sequences of names; named is where the environment points to a
\* helper, path where the search path finds one
Init == /\ site \in Sites
        /\ tick = Interval /\ policies = {}
        /\ cleaned = [p \in Process |-> 0]
        /\ preflight = [p \in Process |-> "unknown"] /\ passed = {}
        /\ tasks = [t \in Thread |-> [at |-> "starts", job |-> "preflight", written |-> 0,
                                      requested |-> FALSE, runtime |-> "none"]]

-----------------------------------------------------------------------------
Above(dir) == {SubSeq(dir, 1, n) : n \in 0 .. Len(dir)}
Nearest(dirs) == CHOOSE d \in dirs : \A e \in dirs : Len(e) <= Len(d)
GitRoot(dir) == LET roots == Above(dir) \cap site.git IN IF roots = {} THEN {} ELSE {Nearest(roots)}
\* _excluded_dirs: the workspace and its repository
Excluded(workspace) == {workspace} \cup GitRoot(workspace)
UnderAny(dir, dirs) == \E d \in dirs : IsPrefix(d, dir)
\* locate_sdk_package_binary: what the user names, what is on the search path, the
\* packages above the program, then those above the interpreter that are not of
\* the workspace
Locate(workspace) ==
  LET ofProgram == Above(site.program) \cap site.helpers
      ofInterpreter == {d \in (Above(site.interpreter) \ Above(site.program)) \cap site.helpers :
                          ~UnderAny(d, Excluded(workspace))}
  IN  IF site.named # <<>> THEN <<[by |-> "user", dir |-> site.named[1]]>>
      ELSE IF site.path # <<>> THEN <<[by |-> "path", dir |-> site.path[1]]>>
      ELSE IF ofProgram # {} THEN <<[by |-> "program", dir |-> Nearest(ofProgram)]>>
      ELSE IF ofInterpreter # {} THEN <<[by |-> "interpreter", dir |-> Nearest(ofInterpreter)]>>
      ELSE <<>>

-----------------------------------------------------------------------------
\* Mutant: files live for one interval.
OldInInterval(f) == tick - f.at > Interval
\* _cleanup_old_policies
Old(f) == tick - f.at > MaxAge
\* _policy_dir: each process clears the directory once in an interval; a file that
\* cannot be looked at or deleted stays, and is not tried again before the next time
Due(p) == tick - cleaned[p] >= Interval
Kept(p) == IF Due(p) THEN {{f \in policies : ~Old(f)} \cup spared : spared \in SUBSET {f \in policies : Old(f)}}
           ELSE {policies}
PolicyDir(p) == cleaned' = IF Due(p) THEN [cleaned EXCEPT ![p] = tick] ELSE cleaned
To(t, at) == tasks' = [tasks EXCEPT ![t].at = at]

\* from_options; raise_if_requested_unsupported ends what was to use the runtime
Says(t, requested, answer) ==
  tasks' = [tasks EXCEPT ![t].at = IF requested /\ answer = "unsupported" THEN "over" ELSE "ready",
                         ![t].requested = requested, ![t].runtime = answer]
\* sandbox_supported: only Linux has a preflight, and only what asks for a sandbox
\* looks at it
Answer(p, requested) ==
  CASE Locate(Workdir) = <<>> \/ site.platform = "other" -> "unsupported"
    [] Locate(Workdir) # <<>> /\ site.platform = "linux" /\ requested -> preflight[p]
    [] OTHER -> "supported"
\* the preflight of a helper runs once, if it is not running already
NewRuntime(t, requested) ==
  /\ tasks[t].at = "starts"
  /\ LET answer == Answer(ProcessOf(t), requested)
     IN  IF answer = "unknown" THEN tasks' = [tasks EXCEPT ![t].at = "document", ![t].requested = requested]
         ELSE Says(t, requested, answer)
  /\ UNCHANGED <<site, tick, policies, cleaned, preflight, passed>>
\* run_sandboxed, run_sandboxed_argv: also where no sandbox was requested, if the
\* server names a policy
RunCommand(t) == /\ tasks[t].at = "ready" /\ Locate(Workdir) # <<>>
                 /\ tasks' = [tasks EXCEPT ![t].at = "document", ![t].job = "command"]
                 /\ UNCHANGED <<site, tick, policies, cleaned, preflight, passed>>
\* helper_cli_document names the directory, write_policy_file writes into it
HelperDocument(t) ==
  /\ tasks[t].at = "document" /\ To(t, "writes")
  /\ PolicyDir(ProcessOf(t)) /\ policies' \in Kept(ProcessOf(t))
  /\ UNCHANGED <<site, tick, preflight, passed>>
WritePolicyFile(t) ==
  /\ tasks[t].at = "writes"
  /\ PolicyDir(ProcessOf(t))
  /\ \E kept \in Kept(ProcessOf(t)) : policies' = kept \cup {[by |-> t, at |-> tick]}
  /\ tasks' = [tasks EXCEPT ![t].at = "spawns", ![t].written = tick]
  /\ UNCHANGED <<site, tick, preflight, passed>>
\* the directory cannot be made, or the file not written: there is no runtime, or the
\* command is answered with an error
NoPolicyFile(t) ==
  /\ tasks[t].at \in {"document", "writes"} /\ To(t, "over")
  /\ \/ UNCHANGED <<policies, cleaned>>
     \/ /\ tasks[t].at = "writes"
        /\ PolicyDir(ProcessOf(t)) /\ policies' \in Kept(ProcessOf(t))
  /\ UNCHANGED <<site, tick, preflight, passed>>

HasPolicy(t) == [by |-> t, at |-> tasks[t].written] \in policies
\* the helper starts; without its policy it fails, and it may fail or take too long
Preflighted(t, ok) ==
  /\ tasks[t].job = "preflight" /\ (ok => HasPolicy(t))
  /\ LET answer == IF ok THEN "supported" ELSE "unsupported"
     IN  /\ preflight' = [preflight EXCEPT ![ProcessOf(t)] = answer]
         /\ Says(t, tasks[t].requested, answer)
  /\ passed' = IF ok THEN passed \cup {ProcessOf(t)} ELSE passed
  /\ UNCHANGED <<site, tick, policies, cleaned>>
Ran(t) == /\ tasks[t].job = "command" /\ To(t, "over")
          /\ UNCHANGED <<site, tick, policies, cleaned, preflight, passed>>
Spawn(t) == /\ tasks[t].at = "spawns"
            /\ Ran(t) \/ \E ok \in BOOLEAN : Preflighted(t, ok)
Tick == /\ tick < MaxNow /\ tick' = tick + 1
        /\ UNCHANGED <<site, policies, cleaned, preflight, tasks, passed>>

Next == \/ \E t \in Thread : \/ \E requested \in BOOLEAN : NewRuntime(t, requested)
                             \/ RunCommand(t) \/ HelperDocument(t) \/ WritePolicyFile(t)
                             \/ NoPolicyFile(t) \/ Spawn(t)
        \/ Tick
Spec == Init /\ [][Next]_sandboxVars

-----------------------------------------------------------------------------
\* A helper that starts finds its policy, whoever clears the directory, unless the
\* file has come of age before.  Who asked for a sandbox goes on only where it counts
\* as supported, on Linux only after a preflight of this process has passed.  The
\* helper is not one that the workspace brings, unless the user named it, the search
\* path leads there, or the program lies below it.
HelperIsSound ==
  /\ \A t \in Thread :
       /\ tasks[t].at = "spawns" => HasPolicy(t) \/ tick - tasks[t].written > MaxAge
       /\ tasks[t].requested /\ (tasks[t].at = "ready" \/ tasks[t].job = "command")
            => /\ tasks[t].runtime = "supported"
               /\ site.platform = "linux" => ProcessOf(t) \in passed
  /\ LET helper == Locate(Workdir)
     IN  helper # <<>> /\ UnderAny(helper[1].dir, {Workdir} \cup GitRoot(Workdir))
           => helper[1].by \in {"user", "path"} \/ IsPrefix(helper[1].dir, site.program)
=============================================================================
