------------------------------ MODULE JsonlLog ------------------------------
(***************************************************************************)
(* An append-only JSONL file, as Python's text-mode `open(path, "a")`      *)
(* leaves it: a writer's rows pass through a buffer, closing the file      *)
(* flushes them, and a killed writer leaves any prefix of its bytes, so    *)
(* that the file may end inside a row or just before a row's newline.      *)
(*                                                                         *)
(* A file is a record: `lines`, the lines that end in a newline, each a    *)
(* row or JUNK (it does not parse), and `tail`, what follows the last      *)
(* newline: EMPTY, a whole row, or JUNK.                                   *)
(***************************************************************************)
EXTENDS Naturals, Sequences

CONSTANTS JUNK, EMPTY

ASSUME TwoMarks == JUNK # EMPTY

Files(Row) == [lines : Seq(Row \cup {JUNK}), tail : Row \cup {JUNK, EMPTY}]

EmptyFile == [lines |-> <<>>, tail |-> EMPTY]

\* Bytes appended after a tail make one line with it, which does not parse.
Glued(tail, row) == IF tail = EMPTY THEN row ELSE JUNK

\* All of `rows` reach the file: only the first can meet a tail.
Landed(file, rows) ==
    IF rows = <<>> THEN file
    ELSE [lines |-> Append(file.lines, Glued(file.tail, Head(rows))) \o Tail(rows),
          tail  |-> EMPTY]

\* The files that a writer killed with `rows` to write may leave: the first
\* `n` landed, and then nothing, part of the next one, or all but its newline.
KilledAfter(file, rows) ==
    UNION {LET whole == Landed(file, SubSeq(rows, 1, n)) IN
           IF n = Len(rows) THEN {whole}
           ELSE {whole,
                 [whole EXCEPT !.tail = JUNK],
                 [whole EXCEPT !.tail = Glued(whole.tail, rows[n + 1])]}
           : n \in 0..Len(rows)}

\* resume._iter_rows: the rows of the lines that parse, a last line without a
\* newline included.
RowsIn(file) ==
    ({file.lines[i] : i \in 1..Len(file.lines)} \cup {file.tail}) \ {JUNK, EMPTY}

\* Every line parses, as the strict readers (_load_traces_by_id, eval) need.
Parses(file) == /\ \A i \in 1..Len(file.lines) : file.lines[i] # JUNK
                /\ file.tail # JUNK

\* Of a line that was cut inside a character reading the file raises an error:
\* any JUNK may be one, and stays one.
MayNotDecode(file) == ~Parses(file)

\* The rows of a buffer.
Written(buf) == {buf[i] : i \in 1..Len(buf)}
=============================================================================
