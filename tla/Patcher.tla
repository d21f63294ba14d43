------------------------------- MODULE Patcher -------------------------------
(***************************************************************************)
(* The patcher of the real repository loop (real_loop/patcher.py) on a     *)
(* sandbox (file_tools.py, repo_adapter.py): a patch is checked as a whole *)
(* and written file by file; when its hunks do not fit, the line-edit      *)
(* fallback of real_runner.py is tried; the sandbox is rolled back at the  *)
(* end.                                                                    *)
(*                                                                         *)
(* A file is its sequence of lines, "" a blank one, each ended by the same *)
(* newline; a position counts the lines before it, as the code's indices   *)
(* do.  Patches are parsed: a diff that does not parse writes nothing.     *)
(***************************************************************************)
EXTENDS Integers, Sequences, FiniteSets, SequencesExt, FiniteSetsExt

CONSTANTS
  Files,       \* the paths inside the sandbox
  Baselines,   \* the sandboxes looked at, functions from Files to contents
  Patches,     \* sequences of [path, delete, hunks], a hunk is [start, lines]
  PlanTargets, \* the targets a plan may name, "" is none
  MaxPatches   \* bound: patches of one run

\* FilePatch and Hunk, as _parse_unified_diff makes them.
PatchHunk == [start : Nat, lines : Seq([op : STRING, text : STRING])]
PatchFile == [path : STRING, delete : BOOLEAN, hunks : Seq(PatchHunk)]

ASSUME PatchAssumption == Patches \subseteq Seq(PatchFile)
ASSUME BaselineAssumption == Baselines \subseteq [Files -> Seq(STRING)]

Absent == <<"absent">>
Binary == <<"binary">>

VARIABLES
  repo,      \* the sandbox
  baseline,  \* the snapshot of reset
  phase,     \* "idle", "applying", "mismatch" or "ended"
  patch,     \* the patch being applied
  target,    \* the target of its plan
  written,   \* how many of its file patches are written
  before,    \* history: the sandbox when the patch came
  outcome,   \* "none", "applied", "fallback", "rejected" or "raised"
  submitted  \* bound: patches so far

patchVars == <<repo, baseline, phase, patch, target, written, before, outcome, submitted>>

PatcherInit ==
  /\ baseline \in Baselines
  /\ repo = baseline
  /\ before = baseline
  /\ phase = "idle"
  /\ patch = << >>
  /\ target = ""
  /\ written = 0
  /\ outcome = "none"
  /\ submitted = 0
-----------------------------------------------------------------------------
Texts(lines, ops) ==
  FoldLeft(LAMBDA kept, line : IF line.op \in ops THEN Append(kept, line.text) ELSE kept,
           << >>, lines)

OldLines(hunk) == Texts(hunk.lines, {" ", "-"})
NewLines(hunk) == Texts(hunk.lines, {" ", "+"})
Removed(hunk)  == Texts(hunk.lines, {"-"})
Added(hunk)    == Texts(hunk.lines, {"+"})

\* The lines find stands in the sequence from position at on.
StandsAt(lines, at, find) ==
  /\ find = << >> \/ at + Len(find) <= Len(lines)
  /\ \A i \in DOMAIN find : lines[at + i] = find[i]

Slice(lines, from, to) == SubSeq(lines, from + 1, Min({to, Len(lines)}))

\* _resolve_hunk_start: where the header says, wherever that is, or else the first fit
\* after the lines consumed so far; at most one position.
HunkStarts(lines, hunk, minimum) ==
  LET preferred == Max({hunk.start - 1, 0})
      fits      == {at \in minimum..Len(lines) : StandsAt(lines, at, OldLines(hunk))}
  IN  IF StandsAt(lines, preferred, OldLines(hunk)) THEN {preferred}
      ELSE {at \in fits : at = Min(fits)}

\* Slip: the lines consumed are counted after the change, not before it.
ConsumedNew(hunk) == Len(NewLines(hunk))

Consumed(hunk) == Len(OldLines(hunk))

\* One hunk on top of the hunks before it.
AppliedHunk(lines, done, hunk) ==
  LET starts == HunkStarts(lines, hunk, done.source)
  IN  IF ~done.fits \/ starts = {} THEN [done EXCEPT !.fits = FALSE]
      ELSE LET start == CHOOSE at \in starts : TRUE
           IN  [ fits   |-> TRUE,
                 out    |-> done.out \o Slice(lines, done.source, start) \o NewLines(hunk),
                 source |-> start + Consumed(hunk) ]

\* _apply_file_patch of a file that stays, down to the text it writes.
Patched(lines, hunks) ==
  LET nothing == [fits |-> TRUE, out |-> << >>, source |-> 0]
      done    == FoldLeft(LAMBDA acc, hunk : AppliedHunk(lines, acc, hunk), nothing, hunks)
  IN  [done EXCEPT !.out = @ \o Slice(lines, done.source, Len(lines))]

Lines(content) == IF content = Absent THEN << >> ELSE content

\* What _apply_file_patch makes of the file; nothing if the hunks do not fit.
Outcomes(content, file_patch) ==
  IF file_patch.delete THEN {Absent}
  ELSE LET done == Patched(Lines(content), file_patch.hunks)
       IN  {out \in {done.out} : done.fits}

\* Slip: only the first path is looked at before files are written.
ReportableFirst(p) == p[1].path \in Files /\ repo[p[1].path] # Binary

\* _report_for does not raise: every path is inside and no file is binary.
Reportable(p) == \A i \in DOMAIN p : p[i].path \in Files /\ repo[p[i].path] # Binary
-----------------------------------------------------------------------------
\* _find_sequence, as the set of at most one position.
Found(lines, find) ==
  LET fits == {at \in 0..(Len(lines) - Len(find)) : StandsAt(lines, at, find)}
  IN  {at \in fits : find # << >> /\ at = Min(fits)}

\* _find_insertion_line: after the first line that is the last context before the
\* first addition.
InsertionLines(lines, hunk) ==
  LET additions == {i \in DOMAIN hunk.lines : hunk.lines[i].op = "+"}
      contexts  == {i \in DOMAIN hunk.lines :
                      hunk.lines[i].op = " " /\ (\A a \in additions : i < a)}
      fits      == {at \in DOMAIN lines : lines[at] = hunk.lines[Max(contexts)].text}
  IN  IF contexts = {} THEN {} ELSE {at \in fits : at = Min(fits)}

OneHunk(p) == Len(p) = 1 /\ Len(p[1].hunks) = 1

\* An insertion takes the place of the line after its context, which must be blank.
\* At the end of the file there is none, and the edit is out of range.
Overwritable(lines, at) == at < Len(lines) /\ lines[at + 1] = ""

\* apply_line_edits: the new lines take the place of n others.
Spliced(lines, at, n, new) == Slice(lines, 0, at) \o new \o Slice(lines, at + n, Len(lines))

\* convert_patch_to_line_edits and apply_line_edits: the file afterwards, or nothing.
LineEdited(lines, p) ==
  LET hunk    == p[1].hunks[1]
      removed == Removed(hunk)
      added   == Added(hunk)
      Edited(at, n) == Spliced(lines, at, n, added)
  IN  IF ~OneHunk(p) \/ Len(added) = 0 \/ Len(added) > 2 THEN {}
      ELSE IF Len(removed) = Len(added) THEN {Edited(at, Len(added)) : at \in Found(lines, removed)}
      ELSE IF removed # << >> THEN {}
      ELSE {Edited(at, 1) : at \in {a \in InsertionLines(lines, hunk) : Overwritable(lines, a)}}

\* _try_line_edit_fallback, where the target can be read.
Fallbacks(p) ==
  IF target \in Files /\ repo[target] # Binary /\ p[1].path = target
  THEN LineEdited(repo[target], p) ELSE {}

\* The target names a file of the sandbox that is not there: reading it raises an error
\* the fallback does not catch.
TargetMissing == target \in Files /\ repo[target] = Absent
-----------------------------------------------------------------------------
Submit(p, t) ==
  /\ phase = "idle" /\ outcome # "raised"
  /\ submitted < MaxPatches
  /\ submitted' = submitted + 1
  /\ patch' = p
  /\ target' = t
  /\ written' = 0
  /\ before' = repo
  /\ IF Reportable(p) THEN phase' = "applying" /\ outcome' = "none"
     ELSE phase' = "idle" /\ outcome' = "rejected"
  /\ UNCHANGED <<repo, baseline>>

\* The next file patch is written, or the whole patch is done.
ApplyFile ==
  /\ phase = "applying"
  /\ written < Len(patch)
  /\ \E content \in Outcomes(repo[patch[written + 1].path], patch[written + 1]) :
       repo' = [repo EXCEPT ![patch[written + 1].path] = content]
  /\ written' = written + 1
  /\ phase' = IF written' = Len(patch) THEN "idle" ELSE "applying"
  /\ outcome' = IF written' = Len(patch) THEN "applied" ELSE "none"
  /\ UNCHANGED <<baseline, patch, target, before, submitted>>

\* A hunk fits nowhere: the files before stay as they are written.
Mismatch ==
  /\ phase = "applying"
  /\ written < Len(patch)
  /\ Outcomes(repo[patch[written + 1].path], patch[written + 1]) = {}
  /\ phase' = "mismatch"
  /\ UNCHANGED <<repo, baseline, patch, target, written, before, outcome, submitted>>

FallbackRaises ==
  /\ phase = "mismatch"
  /\ TargetMissing
  /\ outcome' = "raised"
  /\ phase' = "idle"
  /\ UNCHANGED <<repo, baseline, patch, target, written, before, submitted>>

Fallback ==
  /\ phase = "mismatch"
  /\ ~TargetMissing
  /\ IF Fallbacks(patch) = {} THEN outcome' = "rejected" /\ UNCHANGED repo
     ELSE \E content \in Fallbacks(patch) :
            outcome' = "fallback" /\ repo' = [repo EXCEPT ![target] = content]
  /\ phase' = "idle"
  /\ UNCHANGED <<baseline, patch, target, written, before, submitted>>

\* rollback: the sandbox is cleared and its snapshot written again.
Restored(snapshot) == snapshot

RollBack ==
  /\ phase = "idle"
  /\ repo' = Restored(baseline)
  /\ phase' = "ended"
  /\ UNCHANGED <<baseline, patch, target, written, before, outcome, submitted>>

PatcherNext ==
  \/ \E p \in Patches, t \in PlanTargets : Submit(p, t)
  \/ ApplyFile
  \/ Mismatch
  \/ FallbackRaises
  \/ Fallback
  \/ RollBack

PatcherSpec == PatcherInit /\ [][PatcherNext]_patchVars
-----------------------------------------------------------------------------
Touched == {f \in Files : repo[f] # before[f]}

\* "Absolute paths and path traversal are rejected" and "binary files are rejected":
\* with such a file anywhere in it, a patch writes none of its files.
UnsafePatchWritesNothing ==
  phase # "ended" =>
    \A i \in DOMAIN patch :
      patch[i].path \notin Files \/ before[patch[i].path] = Binary => Touched = {}

\* The lines the patch adds to its one file, less the lines it removes: what the report
\* of the patch says it does.
Growth(hunks) ==
  FoldLeft(LAMBDA n, hunk : n + Len(Added(hunk)) - Len(Removed(hunk)), 0, hunks)

AppliedToOneFile == outcome = "applied" /\ Len(patch) = 1 /\ ~patch[1].delete /\ phase # "ended"

Grown ==
  LET f == patch[1].path
  IN  Len(repo[f]) = Len(Lines(before[f])) + Growth(patch[1].hunks)

\* The hunks as a diff has them: in order, none starting inside the one before.
InOrder(hunks) ==
  /\ \A i \in DOMAIN hunks : hunks[i].start >= 1
  /\ \A i \in DOMAIN hunks \ {1} :
       hunks[i].start >= hunks[i - 1].start + Len(OldLines(hunks[i - 1]))

\* "applies unified diffs": a patch does to the file what its report says, also when the
\* file has drifted away from the headers.
LinesAccountedFor == AppliedToOneFile /\ InOrder(patch[1].hunks) => Grown

\* Each hunk where its header says.
InPlace(lines, hunks) ==
  \A i \in DOMAIN hunks :
    hunks[i].start <= Len(lines) + 1 /\ StandsAt(lines, hunks[i].start - 1, OldLines(hunks[i]))

\* What the diff means, by splicing from the last hunk to the first.
Meant(lines, hunks) ==
  FoldRight(LAMBDA hunk, acc : Slice(acc, 0, hunk.start - 1) \o NewLines(hunk)
                                 \o Slice(acc, hunk.start - 1 + Len(OldLines(hunk)), Len(acc)),
            hunks, lines)

\* A patch made for the file as it is does exactly what it means.
FittingPatchIsExact ==
  AppliedToOneFile /\ InOrder(patch[1].hunks) /\ InPlace(Lines(before[patch[1].path]), patch[1].hunks) =>
    repo[patch[1].path] = Meant(Lines(before[patch[1].path]), patch[1].hunks)

=============================================================================
