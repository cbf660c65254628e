----------------------------- MODULE ApplyPatch -----------------------------
(***************************************************************************)
(* The tool apply_patch: the file patches of a unified diff are applied    *)
(* one after the other, each file read, changed in memory and written      *)
(* before the next one is read; a failure ends the call and undoes         *)
(* nothing.  A dry run goes the same way and writes nothing.  Between two  *)
(* files, and between the calls, other programs may change a file.         *)
(***************************************************************************)
EXTENDS Integers, Sequences, FiniteSets, SequencesExt

CONSTANTS
  Files,      \* paths in the workspace
  Lines,      \* what a line may say
  MaxScript,  \* bound on the lines of the edit script of a file
  MaxPair     \* the same where a patch is of two files

ASSUME ScriptAssumption == MaxScript \in Nat /\ MaxPair \in Nat

VARIABLES
  disk,       \* file -> its lines, or Absent
  patch,      \* the file patches of the diff
  call,       \* which call of the tool runs, and how it stands
  applied,    \* how many of its file patches the call applied
  foretold    \* what the dry run made of the files; Unknown when another program wrote since

patchVars == <<disk, patch, call, applied, foretold>>

Absent == <<"absent">>
Failed == <<"failed">>
Unknown == [f \in {} |-> Absent]

-----------------------------------------------------------------------------
(***************************************************************************)
(* What `diff -u` writes.  An edit script says of each line whether it is  *)
(* kept, removed or added: a line that begins with a space, a - or a +.    *)
(***************************************************************************)
Edits == [op : {"kept", "removed", "added"}, line : Lines]

Scripts(n) ==
  {s \in SeqOf(Edits, n) :
     /\ \E i \in DOMAIN s : s[i].op # "kept"
     /\ \A i \in 1..(Len(s) - 1) : ~(s[i].op = "added" /\ s[i + 1].op = "removed")}

\* After each number of edits, the lines so far of the file that has not the other's lines.
Sides(script, other) ==
  LET lines[n \in 0..Len(script)] ==
        IF n = 0 THEN <<>>
        ELSE IF script[n].op = other THEN lines[n - 1] ELSE Append(lines[n - 1], script[n].line)
  IN lines

OldLines(script) == Sides(script, "added")[Len(script)]
NewLines(script) == Sides(script, "removed")[Len(script)]

\* The positions of the script that are within so many lines of a change.
Shown(script, context) ==
  {i \in DOMAIN script :
     \E j \in DOMAIN script : script[j].op # "kept" /\ i - j \in (-context)..context}

OnlyAdds(lines) == \A k \in DOMAIN lines : lines[k].op = "added"

\* The hunk that begins at position i.  Its header has the number of its first old line
\* or, where it has none, of the line before it.
HunkAt(script, shown, i) ==
  LET last == CHOOSE j \in i..Len(script) : i..j \subseteq shown /\ j + 1 \notin shown
      lines == SubSeq(script, i, last)
      above == Len(Sides(script, "added")[i - 1])
  IN [old_start |-> IF OnlyAdds(lines) THEN above ELSE above + 1, lines |-> lines]

\* The numbers of the set up to N, in order.
InOrder(numbers, N) ==
  LET upto[n \in 0..N] ==
        IF n = 0 THEN <<>>
        ELSE IF n \in numbers THEN Append(upto[n - 1], n) ELSE upto[n - 1]
  IN upto[N]

Hunks(script, context) ==
  LET shown == Shown(script, context)
      starts == InOrder({i \in shown : i - 1 \notin shown}, Len(script))
  IN [k \in DOMAIN starts |-> HunkAt(script, shown, starts[k])]

-----------------------------------------------------------------------------
(***************************************************************************)
(* apply_hunks.  acc: the new lines so far, and source_index.              *)
(***************************************************************************)
Stuck == [result |-> Failed, source_index |-> -1]

\* require_line
LineIs(old, index, line) == index < Len(old) /\ old[index + 1] = line

ApplyLine(old, acc, edit) ==
  IF acc = Stuck \/ (edit.op # "added" /\ ~LineIs(old, acc.source_index, edit.line)) THEN Stuck
  ELSE [result |-> IF edit.op = "removed" THEN acc.result ELSE Append(acc.result, edit.line),
        source_index |-> IF edit.op = "added" THEN acc.source_index ELSE acc.source_index + 1]

\* Mutant: the line number of the header is taken for an index.
HunkStartAfter(hunk) == hunk.old_start

HunkStart(hunk) == IF hunk.old_start = 0 THEN 0 ELSE hunk.old_start - 1

\* old_lines[from:to]
Slice(old, from, to) == SubSeq(old, from + 1, Min({to, Len(old)}))

ApplyHunk(old, acc, hunk) ==
  IF acc = Stuck \/ HunkStart(hunk) < acc.source_index THEN Stuck
  ELSE LET after[k \in 0..Len(hunk.lines)] ==
             IF k = 0 THEN [result |-> acc.result \o Slice(old, acc.source_index, HunkStart(hunk)),
                            source_index |-> HunkStart(hunk)]
             ELSE ApplyLine(old, after[k - 1], hunk.lines[k])
       IN after[Len(hunk.lines)]

ApplyHunks(old, hunks) ==
  LET after[k \in 0..Len(hunks)] ==
        IF k = 0 THEN [result |-> <<>>, source_index |-> 0]
        ELSE ApplyHunk(old, after[k - 1], hunks[k])
      end == after[Len(hunks)]
  IN IF end = Stuck THEN Failed ELSE end.result \o Slice(old, end.source_index, Len(old))

-----------------------------------------------------------------------------
(***************************************************************************)
(* Calls of the tool.                                                      *)
(***************************************************************************)
\* A script makes a new file of nothing, removes the file, or changes it.
FilePatches(n) ==
  {[file |-> f, script |-> s, context |-> c, old_path |-> old, new_path |-> new] :
     f \in Files, s \in Scripts(n), c \in {0, 1}, old \in BOOLEAN, new \in BOOLEAN}

WellFormed(p) ==
  /\ p.old_path \/ p.new_path
  /\ ~p.old_path => OldLines(p.script) = <<>>
  /\ ~p.new_path => NewLines(p.script) = <<>>
  /\ p.context = 0 => Len(p.script) < MaxScript

\* Contents that are, or nearly are, what the script begins with.
Near(script) ==
  LET old == OldLines(script)
  IN {Absent, old} \cup {Append(old, l) : l \in Lines} \cup {<<l>> \o old : l \in Lines}

PatchInit ==
  /\ \/ \E p \in FilePatches(MaxScript) : WellFormed(p) /\ patch = <<p>>
     \/ \E p, q \in FilePatches(MaxPair) : WellFormed(p) /\ WellFormed(q) /\ patch = <<p, q>>
  /\ disk \in [Files -> UNION {Near(patch[i].script) : i \in DOMAIN patch}]
  /\ \A f \in Files : (\A i \in DOMAIN patch : patch[i].file # f) => disk[f] = Absent
  /\ call = [dry_run |-> TRUE, state |-> "none"]
  /\ applied = 0
  /\ foretold = Unknown

Execute(dry_run) ==
  /\ call.state # "running"
  /\ call.dry_run \/ call.state = "none"
  /\ call' = [dry_run |-> dry_run, state |-> "running"]
  /\ applied' = 0
  /\ foretold' = IF dry_run THEN disk ELSE foretold
  /\ UNCHANGED <<disk, patch>>

\* What the call makes of the file of a file patch.
Changed(p, current) ==
  IF ~p.old_path THEN ApplyHunks(<<>>, Hunks(p.script, p.context))
  ELSE IF current = Absent THEN Failed
  ELSE ApplyHunks(current, Hunks(p.script, p.context))

Written(p, current) == IF p.new_path THEN Changed(p, current) ELSE Absent

Foretold(p) ==
  [file \in DOMAIN foretold |-> IF file = p.file THEN Written(p, disk[file]) ELSE foretold[file]]

\* Mutant: a file to be removed is removed before its hunks are compared with it.
ApplyFileUnlinkFirst ==
  /\ call.state = "running"
  /\ applied < Len(patch)
  /\ LET p == patch[applied + 1] IN
       /\ IF Changed(p, disk[p.file]) = Failed
          THEN call' = [call EXCEPT !.state = "raised"] /\ UNCHANGED <<applied, foretold>>
          ELSE /\ applied' = applied + 1
               /\ foretold' = IF call.dry_run THEN Foretold(p) ELSE foretold
               /\ UNCHANGED call
       /\ disk' = IF call.dry_run \/ (p.new_path /\ Changed(p, disk[p.file]) = Failed) THEN disk
                  ELSE [disk EXCEPT ![p.file] = Written(p, @)]
  /\ UNCHANGED patch

ApplyFile ==
  /\ call.state = "running"
  /\ applied < Len(patch)
  /\ LET p == patch[applied + 1] IN
       IF Changed(p, disk[p.file]) = Failed
       THEN call' = [call EXCEPT !.state = "raised"] /\ UNCHANGED <<disk, applied, foretold>>
       ELSE /\ applied' = applied + 1
            /\ IF call.dry_run
               THEN foretold' = Foretold(p) /\ UNCHANGED disk
               ELSE disk' = [disk EXCEPT ![p.file] = Written(p, @)] /\ UNCHANGED foretold
            /\ UNCHANGED call
  /\ UNCHANGED patch

Finish ==
  /\ call.state = "running"
  /\ applied = Len(patch)
  /\ call' = [call EXCEPT !.state = "applied"]
  /\ UNCHANGED <<disk, patch, applied, foretold>>

\* Another program writes a file that the dry run looked at, or will.
Overwrite ==
  /\ \E f \in Files, l \in Lines : disk[f] # <<l>> /\ disk' = [disk EXCEPT ![f] = <<l>>]
  /\ foretold # Unknown
  /\ foretold' = Unknown
  /\ UNCHANGED <<patch, call, applied>>

PatchNext == Execute(TRUE) \/ Execute(FALSE) \/ ApplyFile \/ Finish \/ Overwrite

PatchSpec == PatchInit /\ [][PatchNext]_patchVars

-----------------------------------------------------------------------------
(***************************************************************************)
(* Properties.                                                             *)
(***************************************************************************)
\* A hunk without an old line is put where its header says only at the top of the file.
Placed(p) == \A k \in DOMAIN Hunks(p.script, p.context) :
               LET hunk == Hunks(p.script, p.context)[k]
               IN OnlyAdds(hunk.lines) => hunk.old_start = 0

\* A diff that is applied to the file it was made of makes the file it was made for,
\* whatever hunks it was cut into.
DiffsMakeTheNewFile ==
  \A i \in DOMAIN patch :
    LET script == patch[i].script
    IN Placed(patch[i]) => ApplyHunks(OldLines(script), Hunks(script, patch[i].context))
                             = NewLines(script)

\* Where no file is named twice and no other program wrote since, the call leaves the files
\* as the dry run foretold them, also where both of them fail at some file.
DryRunsForetell ==
  /\ ~call.dry_run /\ call.state \in {"raised", "applied"}
  /\ foretold # Unknown
  /\ Len(patch) = 2 => patch[1].file # patch[2].file
  => disk = foretold

=============================================================================
