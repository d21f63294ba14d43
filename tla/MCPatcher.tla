------------------------------ MODULE MCPatcher ------------------------------
(***************************************************************************)
(* Patcher for TLC: files of up to three lines; every hunk of up to two    *)
(* lines, pairs of hunks, and patches of two files.                        *)
(***************************************************************************)
EXTENDS Patcher

Text == {"", "a", "b"}
FileSet == {"app", "test"}

Contents == SeqOf(Text, 3)

BaselineSet ==
  {[f \in FileSet |-> IF f = "app" THEN app ELSE test] :
     app \in Contents, test \in {Absent, Binary, <<"a">>}}

Line(op, text) == [op |-> op, text |-> text]
Hunk(start, lines) == [start |-> start, lines |-> lines]
FilePatch(path, hunks) == [path |-> path, delete |-> FALSE, hunks |-> hunks]
Delete(path) == [path |-> path, delete |-> TRUE, hunks |-> << >>]

Change == <<Line("-", "a"), Line("+", "c")>>
Insert == <<Line(" ", "a"), Line("+", "c")>>
Create == <<Line("+", "c")>>
Drop   == <<Line(" ", "b"), Line("-", "a")>>
Kinds  == {Change, Insert, Create, Drop}

\* Hunks whose first line need not be there, though the rest is.
Misfits == {<<Line(" ", text)>> \o lines : text \in Text, lines \in {Change, Insert}}

AnyLine == {Line(op, text) : op \in {" ", "-"}, text \in Text} \cup {Line("+", "c")}

Single ==
  {<<FilePatch("app", <<Hunk(start, lines)>>)>> :
     start \in 0..4,
     lines \in (SeqOf(AnyLine, 2) \ {<< >>}) \cup Misfits}

Double ==
  {<<FilePatch("app", <<Hunk(i, first), Hunk(j, second)>>)>> :
     i \in 1..3, j \in 1..3, first \in Kinds, second \in Kinds}

TwoFiles ==
  {<<FilePatch("app", <<Hunk(1, lines)>>), other>> :
     lines \in Kinds,
     other \in {Delete("test"), FilePatch("test", <<Hunk(1, Change)>>),
                FilePatch("test", <<Hunk(1, Drop)>>), FilePatch("test", <<Hunk(1, Create)>>),
                FilePatch("outside", <<Hunk(1, Create)>>)}}

PatchSet == Single \cup TwoFiles \cup Double
=============================================================================
