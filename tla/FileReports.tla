---------------------------- MODULE FileReports ----------------------------
(***************************************************************************)
(* What is reported about the files of a job while the job goes on: the    *)
(* tail of a log (logs, logs --follow, get_job_logs, the captured logs of  *)
(* a result) and a declared artifact (its size, digest and content). Every *)
(* report takes several looks at the file, and the command writes between  *)
(* them; the three backends look in different orders.                      *)
(*                                                                         *)
(* A file is a sequence of bytes, of which only three kinds are told apart.*)
(* One file stands for the two log streams, for each captured log and for  *)
(* each artifact: they are read alike, one after the other.                *)
(***************************************************************************)
EXTENDS Integers, Sequences, FiniteSets, SequencesExt

CONSTANTS
  NoFile, NoRow, NoAnswer,
  Backends,    \* of "local", "ssh", "slurm"
  Kinds,       \* of "logs", "follow", "artifact"
  Tails,       \* the numbers of lines that are asked for
  Budget,      \* the bytes one stream may return
  MaxBytes     \* the length a file grows to (bound)

\* "x" is a byte of a line, "n" ends a line, "b" cannot be decoded.
Bytes == {"x", "n", "b"}

ASSUME ReportAssumption ==
  /\ Backends \subseteq {"local", "ssh", "slurm"}
  /\ Kinds \subseteq {"logs", "follow", "artifact"}
  /\ Tails \subseteq Nat /\ Budget \in Nat \ {0} /\ MaxBytes \in Nat
  /\ NoFile \notin Seq(Bytes) /\ NoRow \notin {"running", "exited", "stopped"}

VARIABLES
  file,      \* what the command has written, NoFile before it creates it
  command,   \* TRUE while it may write
  row,       \* "running", "exited", or "stopped" by a cancellation or timeout
  reader     \* the call that reports

fileVars == <<file, command, row, reader>>

FileTypeOK ==
  /\ file = NoFile \/ (file \in Seq(Bytes) /\ Len(file) <= MaxBytes)
  /\ command \in BOOLEAN
  /\ row \in {"running", "exited", "stopped"}
  /\ reader.kind \in Kinds /\ reader.backend \in Backends /\ reader.lines \in Tails
  /\ reader.at \in {"row", "size", "data", "content", "done"}
  /\ reader.row \in {NoRow, "running", "exited", "stopped"}
  /\ reader.size \in 0..MaxBytes

\* Mutant: get_job_logs with its two parts in the other order.
RowLast(kind) == "size"

\* A result is assembled from a row that has ended, and get_job_logs asks
\* for the status first; logs --follow begins with the logs.
FirstLook(kind) == IF kind = "follow" THEN "size" ELSE "row"

FileInit ==
  /\ file = NoFile
  /\ command = TRUE
  /\ row = "running"
  /\ \E kind \in Kinds, backend \in Backends, lines \in Tails :
       reader = [kind |-> kind, backend |-> backend, lines |-> lines,
                 at |-> FirstLook(kind), row |-> NoRow,
                 first |-> NoFile, size |-> 0, answer |-> NoAnswer]

-----------------------------------------------------------------------------
(* The job. *)

CreateFile ==
  /\ command /\ file = NoFile
  /\ file' = <<>>
  /\ UNCHANGED <<command, row, reader>>

Write ==
  /\ command /\ file # NoFile /\ Len(file) < MaxBytes
  /\ \E b \in Bytes : file' = Append(file, b)
  /\ UNCHANGED <<command, row, reader>>

CommandEnds ==
  /\ command
  /\ command' = FALSE
  /\ UNCHANGED <<file, row, reader>>

\* The exit of the command is recorded after it.
Exits ==
  /\ row = "running" /\ ~command
  /\ row' = "exited"
  /\ UNCHANGED <<file, command, reader>>

\* A cancellation or a timeout is recorded before the command is killed.
Stops ==
  /\ row = "running"
  /\ row' = "stopped"
  /\ UNCHANGED <<file, command, reader>>

-----------------------------------------------------------------------------
(* Tails. *)

LastBytes(s, n) == SubSeq(s, IF Len(s) > n THEN Len(s) - n + 1 ELSE 1, Len(s))

\* Where the lines of s begin; a last line without an end counts.
LineStarts(s) == {i \in 1..Len(s) : i = 1 \/ s[i - 1] = "n"}

LastLines(s, n) ==
  LET late == {i \in LineStarts(s) : Cardinality({k \in LineStarts(s) : k >= i}) <= n}
  IN  IF late = {} THEN <<>> ELSE SubSeq(s, Min(late), Len(s))

\* Bytes of the text that is made of s: a byte that cannot be decoded is
\* replaced by a character of three.
Encoded(s) == Len(s) + 2 * Cardinality({i \in 1..Len(s) : s[i] = "b"})

Answer(tail, cut, first) == [tail |-> tail, cut |-> cut, first |-> first, seen |-> file]

\* Mutant: without the limit of the read.
ReadToTheEnd(s, size) == SubSeq(s, (IF size > Budget THEN size - Budget ELSE 0) + 1, Len(s))

\* _tail_file: from where the budget began when the size was taken, and no
\* more than the budget.
LocalRead(s, size) ==
  LET from == IF size > Budget THEN size - Budget ELSE 0
      raw  == SubSeq(s, from + 1, IF Len(s) > from + Budget THEN from + Budget ELSE Len(s))
  IN  raw

LocalTail(s, size, n) ==
  LET raw == LocalRead(s, size) IN
  IF n = 0
  THEN Answer(<<>>, size > 0, reader.first)
  ELSE Answer(LastLines(raw, n),
              size > Len(raw) \/ Cardinality(LineStarts(raw)) > n, reader.first)

\* The shell takes the size, then tail -n and tail -c read to the end.
SSHTail(s, size, n) ==
  LET data == LastBytes(LastLines(s, n), Budget) IN
  Answer(data, size > Encoded(data), reader.first)

\* The transfer begins where the budget began and runs to the end, of which
\* the budget is kept; the lines are taken from that.
SlurmTail(s, size, n) ==
  LET from  == IF size > Budget THEN size - Budget ELSE 0
      data  == LastBytes(SubSeq(s, from + 1, Len(s)), Budget)
      known == IF size > from + Len(data) THEN size ELSE from + Len(data)
  IN  Answer(LastLines(data, n),
             known > Len(data) \/ Cardinality(LineStarts(data)) > n, reader.first)

TailAt(s, size) ==
  CASE reader.backend = "local" -> LocalTail(s, size, reader.lines)
    [] reader.backend = "ssh"   -> SSHTail(s, size, reader.lines)
    [] reader.backend = "slurm" -> SlurmTail(s, size, reader.lines)

-----------------------------------------------------------------------------
(* The reader. *)

Missing == [exists |-> FALSE]

\* status, or the row of a result; follow ends with a job that has ended,
\* and everybody else goes on with what is still to be read.
ReadRow ==
  /\ reader.at = "row"
  /\ reader.kind = "artifact" => row # "running"
  /\ reader' = [reader EXCEPT
       !.row = row,
       !.at = IF \/ reader.kind = "follow" /\ row = "running"
                 \/ reader.answer = NoAnswer
              THEN "size" ELSE "done"]
  /\ UNCHANGED <<file, command, row>>

AfterData == IF reader.kind = "follow" \/ reader.row = NoRow THEN "row" ELSE "done"

\* Whether there is a file, and its size.
TakeSize ==
  /\ reader.at = "size"
  /\ reader' =
       IF file = NoFile
       THEN [reader EXCEPT
               !.first = NoFile,
               !.answer = IF reader.kind = "artifact" THEN Missing ELSE Answer(<<>>, FALSE, NoFile),
               !.at = AfterData]
       ELSE [reader EXCEPT !.first = file, !.size = Len(file), !.answer = NoAnswer, !.at = "data"]
  /\ UNCHANGED <<file, command, row>>

TakeTail ==
  /\ reader.at = "data" /\ reader.kind # "artifact"
  /\ reader' = [reader EXCEPT !.answer = TailAt(file, reader.size), !.at = AfterData]
  /\ UNCHANGED <<file, command, row>>

\* The digest is of the file as it is then, whatever its size was.
TakeDigest ==
  /\ reader.at = "data" /\ reader.kind = "artifact"
  /\ reader' = [reader EXCEPT
       !.answer = [exists |-> TRUE, size |-> reader.size, digest |-> file, content |-> NoFile],
       !.at = IF reader.size <= Budget THEN "content" ELSE "done"]
  /\ UNCHANGED <<file, command, row>>

\* A small JSON file is read once more; over SFTP no more than the budget.
TakeContent ==
  /\ reader.at = "content"
  /\ reader' = [reader EXCEPT
       !.answer.content = IF reader.backend = "slurm" THEN LastBytes(file, Budget) ELSE file,
       !.at = "done"]
  /\ UNCHANGED <<file, command, row>>

FileNext ==
  \/ CreateFile \/ Write \/ CommandEnds \/ Exits \/ Stops
  \/ ReadRow \/ TakeSize \/ TakeTail \/ TakeDigest \/ TakeContent

FileSpec == FileInit /\ [][FileNext]_fileVars

-----------------------------------------------------------------------------
(* Properties. *)

\* The state is well typed, and a log tail that says it is whole is whole, and
\* one that says it is cut is cut, for every backend, budget and number of
\* lines, when the file did not change between the looks. While it grows a cut
\* is never invented, and a local tail that is not cut still begins where the
\* log begins. Over SSH bytes that cannot be decoded count three times, which
\* can hide a cut.
CutIsTold ==
  LET given == reader.answer
      seen  == IF given.seen = NoFile THEN <<>> ELSE given.seen
  IN
  /\ FileTypeOK
  /\ reader.kind # "artifact" /\ given # NoAnswer =>
    /\ given.cut => Len(given.tail) < Len(seen)
    /\ given.seen = given.first /\ (reader.backend = "ssh" => Encoded(given.tail) = Len(given.tail))
         => (given.cut <=> given.tail # seen)
    /\ reader.backend = "local" /\ ~given.cut => IsPrefix(given.tail, seen)

\* When the row said that the command had exited, the report is of the file
\* as the command left it: nothing is missing from the log that was read, and
\* size, digest and content of an artifact are of one file. (Of a cancelled
\* or timed out job this is not so: its command may still be writing.)
ExitedIsSettled ==
  reader.at = "done" /\ reader.row = "exited" /\ reader.kind # "follow" =>
    LET given == reader.answer IN
    IF reader.kind = "logs" THEN given.seen = file
    ELSE /\ given.exists <=> file # NoFile
         /\ given.exists => given.size = Len(file) /\ given.digest = file /\ given.content \in {NoFile, file}
=============================================================================
