---------------------------- MODULE BuiltinTools ----------------------------
(***************************************************************************)
(* The builtin tools of overloop (loop/src/tools/builtin.rs) on one file   *)
(* of the workspace, and the commands they leave behind.  The loop runs    *)
(* one tool at a time.                                                     *)
(***************************************************************************)
EXTENDS Integers, Sequences, SequencesExt, FiniteSetsExt

CONSTANTS MaxFileLines,  \* bound: lines of the file
          Limits,        \* values of the argument limit
          UsizeMax,      \* of usize
          GrepLimit,     \* 200 lines
          MaxMedia,      \* MAX_MEDIA_BYTES
          MaxSteps       \* bound: tools run

ASSUME BuiltinAssumption ==
    /\ UsizeMax \in Nat /\ MaxFileLines \in 0..UsizeMax /\ Limits \subseteq 0..UsizeMax

VARIABLES
    file,      \* lines of the file and its version; lines = -1: none
    pages,     \* history: the pages of a reading from the start: [of, offset, numbers]
    running,   \* commands that run on after their tool returned
    outcome,   \* of the last tool
    steps

toolsVars == <<file, pages, running, outcome, steps>>

BuiltinInit ==
    /\ file = [lines |-> -1, version |-> 0]
    /\ pages = <<>> /\ running = 0 /\ outcome = "none" /\ steps = 0

Panic == <<-1>>

Step == steps < MaxSteps /\ outcome # "panic" /\ steps' = steps + 1

PageInclusive(offset, limit) ==
    LET start == Min({offset, file.lines})
        end   == Min({((start + limit) % (UsizeMax + 1)) + 1, file.lines})
    IN  IF end < start THEN Panic ELSE [i \in 1..(end - start) |-> start + i]

(* The numbered lines of a page.  The sum wraps, and a slice that ends     *)
(* before its start panics.                                                *)
Page(offset, limit) ==
    LET start == Min({offset, file.lines})
        end   == Min({(start + limit) % (UsizeMax + 1), file.lines})
    IN  IF end < start THEN Panic ELSE [i \in 1..(end - start) |-> start + i]

(* tool_read: from the start, or from where the last page ended.  A file   *)
(* that is there may still not be readable as text.                        *)
ToolRead(offset, limit) ==
    /\ Step
    /\ LET page == Page(offset, limit)
           new  == [of |-> file, offset |-> offset, numbers |-> page]
       IN  \/ outcome' = "error" /\ UNCHANGED pages
           \/ /\ file.lines # -1 /\ page # Panic
              /\ outcome' = "ok"
              /\ pages' = IF offset = 0 THEN <<new>> ELSE Append(pages, new)
           \/ file.lines # -1 /\ page = Panic /\ outcome' = "panic" /\ UNCHANGED pages
    /\ UNCHANGED <<file, running>>

(* The number of the last line read. *)
Cursor == IF pages = <<>> THEN 0 ELSE Last(pages).offset + Len(Last(pages).numbers)

Rewrite(n) == file' = [lines |-> n, version |-> file.version + 1]

(* tool_write: the parent directory, then the whole file, which is         *)
(* truncated and then written: an error leaves it as it was (no directory, *)
(* no permission) or with a part of the new text (no space).               *)
ToolWrite(n) ==
    /\ Step
    /\ \/ Rewrite(n) /\ outcome' = "ok"
       \/ outcome' = "error" /\ UNCHANGED file
       \/ outcome' = "error" /\ \E k \in 0..n : Rewrite(k)
    /\ UNCHANGED <<pages, running>>

(* tool_exec: the shell is over and both pipes are closed, whatever it did *)
(* to the file (-1: removed it).  What it left in the background with the  *)
(* pipes redirected runs on.  Or bash could not be started.                *)
ToolExec(n) ==
    /\ Step
    /\ \/ outcome' = "ok" /\ (Rewrite(n) \/ UNCHANGED file) /\ running' \in {running, running + 1}
       \/ outcome' = "error" /\ UNCHANGED <<file, running>>
    /\ UNCHANGED pages

(* The timeout drops the future and not the process. *)
ToolExecTimesOut ==
    /\ Step
    /\ outcome' = "error"
    /\ running' = running + 1
    /\ UNCHANGED <<file, pages>>

(* A process that a tool left behind writes, or ends. *)
CommandWrites(n) ==
    /\ running > 0 /\ file.version < MaxSteps
    /\ Rewrite(n)
    /\ UNCHANGED <<running, pages, outcome, steps>>

CommandEnds ==
    /\ running > 0
    /\ running' = running - 1
    /\ UNCHANGED <<file, pages, outcome, steps>>

(* tool_glob and tool_grep: no matches, and errors of grep, look the same. *)
ToolSearch(matches) ==
    /\ Step
    /\ outcome' = IF matches = 0 THEN "no matches"
                  ELSE IF matches > GrepLimit THEN "first matches" ELSE "ok"
    /\ UNCHANGED <<file, pages, running>>

(* tool_read_media: the type, then the bytes, then their number. *)
ToolReadMedia(known, size) ==
    /\ Step
    /\ outcome' \in IF known /\ file.lines # -1 /\ size <= MaxMedia THEN {"ok", "error"} ELSE {"error"}
    /\ UNCHANGED <<file, pages, running>>

BuiltinNext ==
    \/ \E offset \in {0, Cursor}, limit \in Limits : ToolRead(offset, limit)
    \/ \E n \in 0..MaxFileLines : ToolWrite(n)
    \/ \E n \in -1..MaxFileLines : ToolExec(n) \/ CommandWrites(n)
    \/ ToolExecTimesOut \/ CommandEnds
    \/ \E matches \in 0..(GrepLimit + 1) : ToolSearch(matches)
    \/ \E known \in BOOLEAN, size \in {MaxMedia, MaxMedia + 1} : ToolReadMedia(known, size)

BuiltinSpec == BuiltinInit /\ [][BuiltinNext]_toolsVars

-----------------------------------------------------------------------------
(* The number of the last line of a page. *)
PageEnd(i) == pages[i].offset + Len(pages[i].numbers)

(* Reading on from where the last page ended skips and repeats no number,  *)
(* and every page shows lines that the file had when it was read, under    *)
(* their numbers; an empty page says that nothing was behind it.  Also in  *)
(* a file that tools and the processes they left behind rewrite between    *)
(* two pages, and with page sizes whose sum wraps (builtin.rs 27-36).      *)
PagesFitTogether ==
    pages # <<>> =>
        /\ pages[1].offset = 0
        /\ \A i \in 1..Len(pages) :
              /\ i > 1 => pages[i].offset = PageEnd(i - 1)
              /\ \A k \in 1..Len(pages[i].numbers) : pages[i].numbers[k] = pages[i].offset + k
              /\ pages[i].numbers # <<>> => PageEnd(i) <= pages[i].of.lines
              /\ pages[i].numbers = <<>> /\ 0 \notin Limits => pages[i].offset >= pages[i].of.lines

(* A reading that ended in an empty page while nobody wrote to the file    *)
(* has shown every line of it, once (builtin.rs 27-36).                    *)
ReadingIsWhole ==
    (/\ pages # <<>> /\ Last(pages).numbers = <<>> /\ 0 \notin Limits
     /\ \A i \in 1..Len(pages) : pages[i].of = file)
    => PageEnd(Len(pages)) = file.lines

(* Across several tools what the agent has read of a file fits together    *)
(* (builtin.rs 18-99).                                                     *)
BuiltinsOK == PagesFitTogether /\ ReadingIsWhole
=============================================================================
