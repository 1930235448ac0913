------------------------------ MODULE History -------------------------------
(***************************************************************************)
(* What the runs of an agent leave for its reader: list_messages and       *)
(* get_usage (_local_runtime.py, over either store; _run_api.py).  Both go *)
(* through the runs in the order of their turns and read the log of one    *)
(* after the other, while executors of this or another process go on       *)
(* adding to them; after a forced send more than one of them is at work.   *)
(* Messages are given by pages, each of which is cut out of a reading of   *)
(* its own.                                                                *)
(***************************************************************************)
EXTENDS Naturals, Sequences, FiniteSets, SequencesExt, FiniteSetsExt

CONSTANTS MaxLogs, MaxEvents,   \* bounds: runs, and events of a run
          EventCap,    \* how many events of a run are read
          PageSize,    \* the size of a page
          Counts                \* what the service says a turn used: some of the
                                \* counters "input", "output", "cached", "reasoning"

VARIABLES logs,      \* the log of each run
          atWork,    \* the runs whose executor is
          reading,   \* the reader: what it asked, where it is, what it found so far
          pages,     \* the messages of the pages so far
          answered,  \* the answer of get_usage
          shifted    \* history: while pages are read, a run got a message behind which
                     \* there were messages of a later one

historyVars == <<logs, atWork, reading, pages, answered, shifted>>

Nothing == [at |-> "idle", runs |-> 0, next |-> 0, out |-> <<>>, since |-> <<>>, asks |-> <<>>]
Init == /\ logs = <<>> /\ atWork = {}
        /\ reading = Nothing /\ pages = <<>> /\ answered = <<>> /\ shifted = FALSE

-----------------------------------------------------------------------------
(* The counters of a turn *)

Get(f, k) == IF k \in DOMAIN f THEN f[k] ELSE 0
\* token_usage_from_turn_ended
FromTurnEnded(ended) ==
  IF DOMAIN ended = {} THEN <<>>
  ELSE <<[input |-> Get(ended, "input"), output |-> Get(ended, "output"), cached |-> Get(ended, "cached"),
          total |-> Get(ended, "input") + Get(ended, "output") + Get(ended, "cached"),
          reasoning |-> IF "reasoning" \in DOMAIN ended THEN <<ended["reasoning"]>> ELSE <<>>]>>
\* token_usage_from_mapping: a total of 0 counts as none
FromMapping(raw) ==
  [raw EXCEPT !.total = IF @ # 0 THEN @ ELSE raw.input + raw.output + raw.cached]
\* sum_token_usage, empty_token_usage
Zero == [input |-> 0, output |-> 0, cached |-> 0, total |-> 0, reasoning |-> <<>>]
Plus(a, b) ==
  [input |-> a.input + b.input, output |-> a.output + b.output, cached |-> a.cached + b.cached,
   total |-> a.total + b.total,
   reasoning |-> IF a.reasoning = <<>> THEN b.reasoning
                 ELSE IF b.reasoning = <<>> THEN a.reasoning
                 ELSE <<a.reasoning[1] + b.reasoning[1]>>]
SumUsage(usages) == FoldLeft(Plus, Zero, usages)

-----------------------------------------------------------------------------
(* The executors *)

\* the events of a run that a reading is given, of those with a number up to n
Listed(r, n) == [i \in 1 .. Min({Len(logs[r]), EventCap, n}) |-> <<r, i>>]
Of(type, r, n) == SelectSeq(Listed(r, n), LAMBDA e : logs[r][e[2]].type = type)
Put(r, type, ended) ==
  /\ logs' = [logs EXCEPT ![r] = Append(@, [type |-> type, ended |-> ended])]
  /\ shifted' = (reading.asks = "pages" /\
                   \/ shifted
                   \/ /\ type = "chat" /\ Len(logs[r]) < EventCap
                      /\ \E q \in r + 1 .. Len(logs) : Of("chat", q, MaxEvents) # <<>>)
\* send: a run and its message, also beside one that is still at work
StartsRun == /\ Len(logs) < MaxLogs
             /\ logs' = Append(logs, <<[type |-> "chat", ended |-> <<>>]>>)
             /\ atWork' = atWork \cup {Len(logs) + 1}
             /\ UNCHANGED <<reading, pages, answered, shifted>>
\* a message of the model or one that steered it, which are "chat", or anything else
Says(r, type) == /\ r \in atWork /\ Len(logs[r]) < MaxEvents
                 /\ Put(r, type, <<>>)
                 /\ UNCHANGED <<atWork, reading, pages, answered>>
\* turn_ended of _on_interaction; a turn that ends otherwise has no usage
TurnEnded(r, ended) ==
  /\ r \in atWork /\ Len(logs[r]) < MaxEvents
  /\ IF FromTurnEnded(ended) = <<>> THEN UNCHANGED <<logs, shifted>>
     ELSE Put(r, "usage", ended)
  /\ atWork' = atWork \ {r}
  /\ UNCHANGED <<reading, pages, answered>>

-----------------------------------------------------------------------------
(* The reader *)

\* the runs are listed, then their logs are read one by one; asks is <<>> for all
\* usages, or the one whose id was given
Starts(asks) == reading' = [at |-> "reads", runs |-> Len(logs), next |-> 1, out |-> <<>>,
                            since |-> [r \in DOMAIN logs |-> Len(logs[r])], asks |-> asks]
CollectUsage(asks) == /\ reading.at = "idle" /\ answered = <<>> /\ Starts(asks)
                      /\ UNCHANGED <<logs, atWork, pages, answered, shifted>>
ListMessages == /\ \/ reading.at = "idle" /\ answered = <<>>
                   \/ reading.at = "page"
                /\ Starts("pages")
                /\ UNCHANGED <<logs, atWork, pages, answered, shifted>>
Wanted(r) == IF reading.asks = "pages" THEN Of("chat", r, MaxEvents)
             ELSE SelectSeq(Of("usage", r, MaxEvents), LAMBDA e : reading.asks \in {<<>>, e})
ReadRun == /\ reading.at = "reads" /\ reading.next <= reading.runs
           /\ reading' = [reading EXCEPT !.out = @ \o Wanted(reading.next), !.next = @ + 1]
           /\ UNCHANGED <<logs, atWork, pages, answered, shifted>>
AllRead == reading.at = "reads" /\ reading.next > reading.runs
\* Mutant: the end of a page is counted from the start of all messages.
CutShort(out) == SubSeq(out, Len(pages) + 1, IF PageSize < Len(out) THEN PageSize ELSE Len(out))
\* out[offset : offset + limit], for a client that goes on behind what it has
Cut(out) ==
  SubSeq(out, Len(pages) + 1, IF Len(pages) + PageSize < Len(out) THEN Len(pages) + PageSize ELSE Len(out))
Page == /\ AllRead /\ reading.asks = "pages"
        /\ pages' = pages \o Cut(reading.out)
        /\ reading' = [reading EXCEPT !.at = IF Len(Cut(reading.out)) < PageSize THEN "done" ELSE "page"]
        /\ UNCHANGED <<logs, atWork, answered, shifted>>
Usages(entries) ==
  [i \in DOMAIN entries |-> FromMapping(FromTurnEnded(logs[entries[i][1]][entries[i][2]].ended)[1])]
Usage == /\ AllRead /\ reading.asks # "pages"
         /\ answered' = <<[runs |-> reading.out, total |-> SumUsage(Usages(reading.out)),
                           since |-> reading.since, asks |-> reading.asks]>>
         /\ reading' = Nothing
         /\ UNCHANGED <<logs, atWork, pages, shifted>>

Ids == {<<r, i>> : r \in DOMAIN logs, i \in 2 .. MaxEvents}
Next == \/ StartsRun
        \/ \E r \in DOMAIN logs : \/ \E type \in {"chat", "other"} : Says(r, type)
                                  \/ \E ended \in Counts : TurnEnded(r, ended)
        \/ CollectUsage(<<>>) \/ (\E id \in Ids : CollectUsage(id))
        \/ ListMessages \/ ReadRun \/ Page \/ Usage
Spec == Init /\ [][Next]_historyVars

-----------------------------------------------------------------------------
All(type, lengths) == FlattenSeq([r \in DOMAIN lengths |-> Of(type, r, lengths[r])])
\* However the logs grow meanwhile: the pages, one behind another, are the messages
\* of all runs, and none that was there is missing at the end, unless a run has got
\* a message behind which a later one had some.
PagesJoin ==
  reading.asks = "pages" /\ ~shifted =>
    /\ IsPrefix(pages, All("chat", [r \in DOMAIN logs |-> MaxEvents]))
    /\ reading.at = "done" => ToSet(All("chat", reading.since)) \subseteq ToSet(pages)
\* Each usage that there was is counted, once, and the sums are those of what the
\* service said, unless it is beyond the events of its run that are read.
UsageIsWhole ==
  answered # <<>> =>
    LET a == answered[1]
        Said(k) == FoldLeft(LAMBDA n, e : n + Get(logs[e[1]][e[2]].ended, k), 0, a.runs)
        reasoned == {e \in ToSet(a.runs) : "reasoning" \in DOMAIN logs[e[1]][e[2]].ended}
    IN  /\ \A i, j \in DOMAIN a.runs : i # j => a.runs[i] # a.runs[j]
        /\ \A e \in ToSet(All("usage", a.since)) : a.asks \in {<<>>, e} => e \in ToSet(a.runs)
        /\ a.asks # <<>> => ToSet(a.runs) \subseteq {a.asks}
        /\ a.total.input = Said("input") /\ a.total.output = Said("output")
        /\ a.total.total = Said("input") + Said("output") + Said("cached")
        /\ a.total.reasoning = IF reasoned = {} THEN <<>> ELSE <<Said("reasoning")>>
\* What list_messages and get_usage tell is what the logs say.
HistoryIsTold == PagesJoin /\ UsageIsWhole
=============================================================================
