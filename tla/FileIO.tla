-------------------------------- MODULE FileIO --------------------------------
(***************************************************************************)
(* Exercise 9: three scratch files written, read back, extended, measured  *)
(* and removed.  Any fopen and malloc may fail, and what fclose flushes    *)
(* may stop short (a full disk), which the code does not look at.          *)
(*                                                                         *)
(* A file is a sequence of pieces: piece <<i, k>> is the k-th part of its  *)
(* i-th line, row or record, so a cut may fall inside one.  A text line    *)
(* has two parts; a CSV row four: name, score and the ratio in two, the    *)
(* second with the newline; a binary record two, and the count, record 0,  *)
(* two as well.                                                            *)
(***************************************************************************)
EXTENDS Integers, Sequences, FiniteSetsExt, SequencesExt

CONSTANTS LINES,      \* lines write_text writes (3)
          ROWS,       \* rows and records (3)
          Faulty      \* whether fopen, malloc and flushing may fail

\* How much is written.
FileAssumption == LINES \in Nat /\ ROWS \in Nat

VARIABLES at,         \* the call main is in, or makes next
          files,      \* content of each scratch file that exists
          f,          \* the open stream: file and position, or Closed
          records,    \* read_binary's array: allocated elements, -1 for none
          count,      \* the count it read
          lines,      \* what each read_text has printed so far
          rows,       \* rows read_csv printed
          recs,       \* records read_binary printed
          sizes,      \* what file_size returned
          cut,        \* files that were flushed short
          status      \* "running", "exit(0)", "exit(1)"

vars == <<at, files, f, records, count, lines, rows, recs, sizes, cut, status>>

Closed == [file |-> "none", pos |-> 0]

\* The parts of item i, and of n items one after the other.
Pieces(i, parts) == [k \in 1 .. parts |-> <<i, k>>]
Items(first, n, parts) ==
    [j \in 1 .. n * parts |-> <<first + ((j - 1) \div parts), 1 + ((j - 1) % parts)>>]

main == <<"write_text", "read_text", "write_csv", "read_csv", "write_binary",
          "read_binary", "append_text", "read_text", "sizes", "remove">>

\* What each writing call hands to stdio; row 0 is the header, record 0 the count.
text_lines == Items(1, LINES, 2)
csv_rows == Items(0, ROWS + 1, 4)
bin_records == Items(0, ROWS + 1, 2)
appended_line == Items(LINES + 1, 1, 2)

Written == [write_text |-> text_lines, write_csv |-> csv_rows,
            write_binary |-> bin_records, append_text |-> appended_line]

FileOf(c) == IF c \in {"write_csv", "read_csv"} THEN "csv"
             ELSE IF c \in {"write_binary", "read_binary"} THEN "bin" ELSE "txt"

Init ==
    /\ at = 1
    /\ files = <<>>
    /\ f = Closed
    /\ records = -1 /\ count = 0
    /\ lines = <<>> /\ rows = <<>> /\ recs = <<>> /\ sizes = <<>>
    /\ cut = {}
    /\ status = "running"

call == main[at]
calls(c) == at <= Len(main) /\ status = "running" /\ call = c
returns == at' = at + 1
With(name, content) ==
    [x \in DOMAIN files \cup {name} |-> IF x = name THEN content ELSE files[x]]
exit_failure == status' = "exit(1)"

-----------------------------------------------------------------------------
\* fopen: "w" creates or truncates, "a" creates, "r" needs the file.
fopen ==
    /\ \E c \in DOMAIN Written \cup {"read_text", "read_csv", "read_binary"} : calls(c)
    /\ f = Closed
    /\ LET name == FileOf(call)
           read == call \notin DOMAIN Written
       IN \/ /\ read => name \in DOMAIN files
             /\ f' = [file |-> name, pos |-> 0]
             /\ files' = IF read \/ (call = "append_text" /\ name \in DOMAIN files)
                         THEN files ELSE With(name, <<>>)
             /\ lines' = IF call = "read_text" THEN Append(lines, <<>>) ELSE lines
             /\ UNCHANGED status
          \/ /\ Faulty \/ (read /\ name \notin DOMAIN files)
             /\ exit_failure
             /\ UNCHANGED <<f, files, lines>>
    /\ UNCHANGED <<at, records, count, rows, recs, sizes, cut>>

\* The fprintf and fwrite calls fill the buffer; fclose writes it out, as far
\* as the disk lets it, and its result is ignored.
write_out ==
    /\ \E c \in DOMAIN Written : calls(c)
    /\ f # Closed
    /\ \E k \in 0 .. Len(Written[call]) :
         /\ k < Len(Written[call]) => Faulty
         /\ files' = With(f.file, files[f.file] \o SubSeq(Written[call], 1, k))
         /\ cut' = IF k < Len(Written[call]) THEN cut \cup {f.file} ELSE cut
    /\ f' = Closed
    /\ returns
    /\ UNCHANGED <<records, count, lines, rows, recs, sizes, status>>

-----------------------------------------------------------------------------
rest == SubSeq(files[f.file], f.pos + 1, Len(files[f.file]))

\* fgets: up to and with the newline, the last part of a line, or to the end.
fgets(parts) ==
    LET ends == {k \in DOMAIN rest : rest[k][2] = parts}
    IN SubSeq(rest, 1, IF ends = {} THEN Len(rest) ELSE Min(ends))

skip(line) == f' = [f EXCEPT !.pos = @ + Len(line)]

fclose == f' = Closed /\ returns

read_text ==
    /\ calls("read_text") /\ f # Closed
    /\ IF rest # <<>>
       THEN /\ lines' = [lines EXCEPT ![Len(lines)] = @ \o fgets(2)]
            /\ skip(fgets(2)) /\ UNCHANGED at
       ELSE fclose /\ UNCHANGED lines
    /\ UNCHANGED <<files, records, count, rows, recs, sizes, cut, status>>

\* sscanf finds three fields: half a ratio is one.
parses(line) == Len(line) >= 3

\* The first line is skipped whatever it is; position 1 of an empty file says
\* that it was asked for.
read_csv ==
    /\ calls("read_csv") /\ f # Closed
    /\ IF rest # <<>> \/ f.pos = 0
       THEN /\ rows' = IF f.pos > 0 /\ parses(fgets(4)) THEN Append(rows, fgets(4)) ELSE rows
            /\ f' = [f EXCEPT !.pos = IF rest = <<>> THEN 1 ELSE @ + Len(fgets(4))]
            /\ UNCHANGED at
       ELSE fclose /\ UNCHANGED rows
    /\ UNCHANGED <<files, records, count, lines, recs, sizes, cut, status>>

\* fread(&count): all of it, none of it, or, from half an int, either value.
read_count ==
    /\ calls("read_binary") /\ f # Closed /\ f.pos = 0
    /\ count' \in CASE Len(rest) >= 2 -> {ROWS} [] Len(rest) = 0 -> {0} [] OTHER -> {0, ROWS}
    /\ f' = [f EXCEPT !.pos = 2]
    /\ UNCHANGED <<at, files, records, lines, rows, recs, sizes, cut, status>>

\* malloc(count * sizeof(Record)): NULL when it fails and, for no records, also
\* where malloc(0) is NULL; then fclose and exit(1).
alloc_records ==
    /\ calls("read_binary") /\ f.pos = 2 /\ records = -1
    /\ \/ records' = count /\ UNCHANGED <<f, status>>
       \/ (Faulty \/ count = 0) /\ f' = Closed /\ exit_failure /\ UNCHANGED records
    /\ UNCHANGED <<at, files, count, lines, rows, recs, sizes, cut>>

\* Wrong: as many records as the file announced are printed.
got_announced == count

\* fread counts whole records only.
got == Min({count, Len(rest) \div 2})

\* fread, the loop over what it got, free, fclose.
read_records ==
    /\ calls("read_binary") /\ records >= 0
    /\ recs' = [i \in 1 .. got |-> IF 2 * i <= Len(rest) THEN SubSeq(rest, 2 * i - 1, 2 * i)
                                                       ELSE <<"garbage">>]
    /\ records' = -1
    /\ fclose
    /\ UNCHANGED <<files, count, lines, rows, sizes, cut, status>>

-----------------------------------------------------------------------------
\* file_size: -1 when fopen fails, else what ftell says at the end.
file_size(name) == IF name \in DOMAIN files THEN Len(files[name]) ELSE -1

measure ==
    /\ calls("sizes") /\ returns
    /\ \E lost \in IF Faulty THEN SUBSET {"txt", "csv", "bin"} ELSE {{}} :
         sizes' = [name \in {"txt", "csv", "bin"} |->
                      IF name \in lost THEN -1 ELSE file_size(name)]
    /\ UNCHANGED <<files, f, records, count, lines, rows, recs, cut, status>>

clean_up ==
    /\ calls("remove") /\ returns
    /\ files' = <<>>
    /\ status' = "exit(0)"
    /\ UNCHANGED <<f, records, count, lines, rows, recs, sizes, cut>>

Ended == status # "running"

step == fopen \/ write_out \/ read_text \/ read_csv \/ read_count \/ alloc_records
        \/ read_records \/ measure \/ clean_up

Next == step \/ (Ended /\ UNCHANGED vars)

Spec == Init /\ [][Next]_vars

-----------------------------------------------------------------------------
(***************************************************************************)
(* Wherever a flush stopped, what is read back is the beginning of what    *)
(* was written.  Binary records are printed whole or not at all.  A text   *)
(* line that was cut is printed as far as it goes, and the appended line   *)
(* follows what is left of it.  A CSV row cut inside its last field still  *)
(* has three fields for sscanf, and is printed with the shortened number:  *)
(* only the last row can be such a one, and only after a short flush.      *)
(* Without one everything comes back.                                      *)
(***************************************************************************)
ReadBackFaithful ==
    /\ \A i \in DOMAIN recs : recs[i] = Pieces(i, 2)
    /\ \A i \in DOMAIN rows :
         \/ rows[i] = Pieces(i, 4)
         \/ i = Len(rows) /\ "csv" \in cut /\ rows[i] = Pieces(i, 3)
    /\ Len(lines) >= 1 => IsPrefix(lines[1], text_lines)
    /\ Len(lines) >= 2 => IsPrefix(lines[2], lines[1] \o appended_line)
    /\ status = "exit(0)" =>
         /\ "csv" \in cut \/ Len(rows) = ROWS
         /\ "bin" \in cut \/ Len(recs) = ROWS
         /\ \/ "txt" \in cut
            \/ /\ Len(lines[1]) = Len(text_lines)
               /\ Len(lines[2]) = Len(lines[1]) + Len(appended_line)

(***************************************************************************)
(* Appending keeps what was there: the second listing of the text begins   *)
(* with the pieces of the first, and its length is the size reported.      *)
(***************************************************************************)
AppendKeeps ==
    status = "exit(0)" =>
      /\ IsPrefix(lines[1], lines[2])
      /\ sizes["txt"] \in {-1, Len(lines[2])}

(***************************************************************************)
(* However the program ends no stream is open and nothing is allocated,    *)
(* and a normal end leaves no scratch file.                                *)
(***************************************************************************)
StreamsClosed ==
    /\ Ended => f = Closed /\ records = -1
    /\ status = "exit(0)" => files = <<>>

(***************************************************************************)
(* file_io.md: "fclose can fail (flush error) - always check on writes":   *)
(* between two calls, a file the program said it wrote holds what was      *)
(* written to it.                                                          *)
(***************************************************************************)
WroteMeansStored ==
    LET done == SubSeq(main, 1, at - 1)
        stored(name) ==
            FlattenSeq([i \in DOMAIN done |->
                IF done[i] \in DOMAIN Written /\ FileOf(done[i]) = name
                THEN Written[done[i]] ELSE <<>>])
    IN status = "running" /\ f = Closed
         => \A name \in DOMAIN files : files[name] = stored(name)
===============================================================================
