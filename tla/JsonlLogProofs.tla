--------------------------- MODULE JsonlLogProofs ---------------------------
(***************************************************************************)
(* What the operators of JsonlLog do to any file and any rows: a writer    *)
(* that closes its file or is killed leaves the terminated lines there     *)
(* were, and adds no row but its own.  The pipelines that resume from such *)
(* files are proved from these facts alone.                                *)
(***************************************************************************)
EXTENDS JsonlLog, TLAPS, SequenceTheorems

\* The lines of the older file are the first lines of the newer one.
Kept(old, new) == /\ Len(old.lines) <= Len(new.lines)
                  /\ \A i \in 1..Len(old.lines) : new.lines[i] = old.lines[i]

LEMMA FileShape ==
    ASSUME NEW Row, NEW file \in Files(Row)
    PROVE  /\ file.lines \in Seq(Row \cup {JUNK}) /\ file.tail \in Row \cup {JUNK, EMPTY}
           /\ Len(file.lines) \in Nat
           /\ \A i \in 1..Len(file.lines) : file.lines[i] \in Row \cup {JUNK}
    BY ElementOfSeq, LenProperties DEF Files

LEMMA AnotherTail ==
    ASSUME NEW Row, NEW file \in Files(Row), NEW t \in Row \cup {JUNK, EMPTY}
    PROVE  /\ [file EXCEPT !.tail = t] \in Files(Row)
           /\ [file EXCEPT !.tail = t].lines = file.lines
           /\ [file EXCEPT !.tail = t].tail = t
    BY DEF Files

LEMMA NoFile ==
    ASSUME NEW Row
    PROVE  EmptyFile \in Files(Row) /\ RowsIn(EmptyFile) = {} /\ Parses(EmptyFile)
<1>1. <<>> \in Seq(Row \cup {JUNK}) /\ Len(<<>>) = 0
    BY EmptySeq
<1> QED BY <1>1, TwoMarks DEF EmptyFile, Files, RowsIn, Parses

-----------------------------------------------------------------------------
(* Closing a file.                                                         *)

LEMMA LandedShape ==
    ASSUME NEW Row, NEW file \in Files(Row), NEW rows \in Seq(Row), rows # <<>>
    PROVE  LET new == Landed(file, rows)
               n   == Len(file.lines)
           IN  /\ new \in Files(Row) /\ new.tail = EMPTY
               /\ Len(new.lines) = n + Len(rows)
               /\ \A i \in 1..n : new.lines[i] = file.lines[i]
               /\ new.lines[n + 1] = Glued(file.tail, rows[1])
               /\ \A i \in 2..Len(rows) : new.lines[n + i] = rows[i]
<1> DEFINE Line == Row \cup {JUNK}
           n    == Len(file.lines)
           mid  == Append(file.lines, Glued(file.tail, Head(rows)))
           all  == mid \o Tail(rows)
<1>1. file.lines \in Seq(Line) /\ n \in Nat /\ Len(rows) \in Nat \ {0}
    BY FileShape, EmptySeq
<1>2. Head(rows) = rows[1] /\ rows[1] \in Row /\ Glued(file.tail, Head(rows)) \in Line
    BY <1>1, ElementOfSeq DEF Glued
<1>3. /\ Tail(rows) \in Seq(Line) /\ Len(Tail(rows)) = Len(rows) - 1
      /\ \A i \in 1..Len(rows) - 1 : Tail(rows)[i] = rows[i + 1]
    BY HeadTailProperties
<1>4. /\ mid \in Seq(Line) /\ Len(mid) = n + 1
      /\ \A i \in 1..n : mid[i] = file.lines[i]
      /\ mid[n + 1] = Glued(file.tail, rows[1])
    BY <1>1, <1>2, AppendProperties
<1> HIDE DEF mid
<1>5. /\ all \in Seq(Line) /\ Len(all) = n + Len(rows)
      /\ \A i \in 1..n + Len(rows) : all[i] = IF i <= n + 1 THEN mid[i] ELSE Tail(rows)[i - (n + 1)]
  <2>1. Len(mid) + Len(Tail(rows)) = n + Len(rows) /\ Len(mid) = n + 1
      BY <1>1, <1>3, <1>4
  <2>2. /\ all \in Seq(Line) /\ Len(all) = Len(mid) + Len(Tail(rows))
        /\ \A i \in 1..Len(mid) + Len(Tail(rows)) :
             all[i] = IF i <= Len(mid) THEN mid[i] ELSE Tail(rows)[i - Len(mid)]
      BY <1>3, <1>4, ConcatProperties
  <2> QED BY <2>1, <2>2
<1>6. Landed(file, rows) = [lines |-> all, tail |-> EMPTY]
    BY DEF Landed, mid
<1> HIDE DEF all
<1>7. \A i \in 1..n : all[i] = file.lines[i]
  <2>1. \A i \in 1..n : i \in 1..n + Len(rows) /\ i <= n + 1
      BY <1>1
  <2> QED BY <1>4, <1>5, <2>1
<1>8. all[n + 1] = Glued(file.tail, rows[1])
    BY <1>1, <1>4, <1>5
<1>9. \A i \in 2..Len(rows) : all[n + i] = rows[i]
  <2> SUFFICES ASSUME NEW i \in 2..Len(rows) PROVE all[n + i] = rows[i]
      OBVIOUS
  <2>1. /\ n + i \in 1..n + Len(rows) /\ ~(n + i <= n + 1) /\ (n + i) - (n + 1) = i - 1
        /\ i - 1 \in 1..Len(rows) - 1 /\ (i - 1) + 1 = i
      BY <1>1
  <2>2. all[n + i] = Tail(rows)[i - 1]
      BY <1>5, <2>1
  <2> QED BY <1>3, <2>1, <2>2
<1>10. [lines |-> all, tail |-> EMPTY] \in Files(Row)
    BY <1>5 DEF Files
<1> QED BY <1>5, <1>6, <1>7, <1>8, <1>9, <1>10

\* Closing keeps the lines, and adds no row but those written.
LEMMA LandedKeeps ==
    ASSUME NEW Row, NEW file \in Files(Row), NEW rows \in Seq(Row)
    PROVE  /\ Landed(file, rows) \in Files(Row)
           /\ Kept(file, Landed(file, rows))
           /\ RowsIn(Landed(file, rows)) \subseteq RowsIn(file) \cup Written(rows)
<1>1. CASE rows = <<>>
  <2>1. Landed(file, rows) = file
      BY <1>1 DEF Landed
  <2>2. Len(file.lines) \in Nat
      BY FileShape
  <2> QED BY <2>1, <2>2 DEF Kept
<1>2. CASE rows # <<>>
  <2> DEFINE new == Landed(file, rows)
             n   == Len(file.lines)
  <2>1. n \in Nat /\ Len(rows) \in Nat \ {0}
      BY <1>2, FileShape, EmptySeq
  <2>2. /\ new \in Files(Row) /\ new.tail = EMPTY
        /\ Len(new.lines) = n + Len(rows)
        /\ \A i \in 1..n : new.lines[i] = file.lines[i]
        /\ new.lines[n + 1] \in {rows[1], JUNK}
        /\ \A i \in 2..Len(rows) : new.lines[n + i] = rows[i]
      BY <1>2, LandedShape DEF Glued
  <2> HIDE DEF new
  <2>3. Kept(file, new)
      BY <2>1, <2>2 DEF Kept
  <2>4. ASSUME NEW i \in 1..n + Len(rows)
        PROVE  new.lines[i] \in RowsIn(file) \cup Written(rows) \cup {JUNK, EMPTY}
    <3>1. CASE i \in 1..n
        BY <2>2, <3>1 DEF RowsIn
    <3>2. CASE i = n + 1
        BY <2>1, <2>2, <3>2 DEF Written
    <3>3. CASE i \in n + 2..n + Len(rows)
      <4>1. i - n \in 2..Len(rows) /\ n + (i - n) = i
          BY <2>1, <3>3
      <4>2. new.lines[i] = rows[i - n]
          BY <2>2, <4>1
      <4>3. i - n \in 1..Len(rows)
          BY <2>1, <4>1
      <4> QED BY <4>2, <4>3 DEF Written
    <3> QED BY <2>1, <3>1, <3>2, <3>3
  <2>5. RowsIn(new) \subseteq RowsIn(file) \cup Written(rows)
      BY <2>2, <2>4, ZenonT(60) DEF RowsIn
  <2> QED BY <2>2, <2>3, <2>5 DEF new
<1> QED BY <1>1, <1>2

\* After whole lines, closing adds exactly the rows written.
LEMMA LandedAfterLine ==
    ASSUME NEW Row, JUNK \notin Row, EMPTY \notin Row,
           NEW file \in Files(Row), NEW rows \in Seq(Row), file.tail = EMPTY
    PROVE  /\ RowsIn(Landed(file, rows)) = RowsIn(file) \cup Written(rows)
           /\ Landed(file, rows).tail = EMPTY
           /\ Parses(file) => Parses(Landed(file, rows))
<1>1. CASE rows = <<>>
    BY <1>1, EmptySeq DEF Landed, Written
<1>2. CASE rows # <<>>
  <2> DEFINE new == Landed(file, rows)
             n   == Len(file.lines)
  <2>1. n \in Nat /\ Len(rows) \in Nat \ {0} /\ \A i \in 1..Len(rows) : rows[i] \in Row
      BY <1>2, FileShape, EmptySeq, ElementOfSeq
  <2>2. /\ new.tail = EMPTY
        /\ Len(new.lines) = n + Len(rows)
        /\ \A i \in 1..n : new.lines[i] = file.lines[i]
        /\ \A i \in 1..Len(rows) : new.lines[n + i] = rows[i]
    <3>1. new.lines[n + 1] = rows[1]
        BY <1>2, LandedShape DEF Glued
    <3>2. \A i \in 1..Len(rows) : i = 1 \/ i \in 2..Len(rows)
        BY <2>1
    <3> QED BY <1>2, <3>1, <3>2, LandedShape
  <2> HIDE DEF new
  <2>3. \A i \in 1..n + Len(rows) : i \in 1..n \/ (i - n \in 1..Len(rows) /\ n + (i - n) = i)
      BY <2>1
  <2>4. \A i \in 1..n : i \in 1..n + Len(rows)
      BY <2>1
  <2>5. \A i \in 1..Len(rows) : n + i \in 1..n + Len(rows) /\ rows[i] \notin {JUNK, EMPTY}
      BY <2>1
  <2>6. ASSUME NEW r PROVE r \in RowsIn(new) <=> r \in RowsIn(file) \cup Written(rows)
    <3>1. ASSUME r \in RowsIn(new) PROVE r \in RowsIn(file) \cup Written(rows)
      <4>1. r \notin {JUNK, EMPTY} /\ \E i \in 1..n + Len(rows) : r = new.lines[i]
          BY <2>2, <3>1 DEF RowsIn
      <4>2. PICK i \in 1..n + Len(rows) : r = new.lines[i]
          BY <4>1
      <4>3. CASE i \in 1..n
          BY <2>2, <4>1, <4>2, <4>3 DEF RowsIn
      <4>4. CASE i - n \in 1..Len(rows) /\ n + (i - n) = i
        <5>1. r = rows[i - n]
            BY <2>2, <4>2, <4>4
        <5> QED BY <4>4, <5>1 DEF Written
      <4> QED BY <2>3, <4>3, <4>4
    <3>2. r \in RowsIn(file) => r \in RowsIn(new)
        BY <2>2, <2>4 DEF RowsIn
    <3>3. r \in Written(rows) => r \in RowsIn(new)
        BY <2>2, <2>5, ZenonT(60) DEF RowsIn, Written
    <3> QED BY <3>1, <3>2, <3>3
  <2>7. Parses(file) => Parses(new)
    <3> SUFFICES ASSUME Parses(file), NEW i \in 1..n + Len(rows) PROVE new.lines[i] # JUNK
        BY <2>2, TwoMarks DEF Parses
    <3>1. CASE i \in 1..n
        BY <2>2, <3>1 DEF Parses
    <3>2. CASE i - n \in 1..Len(rows) /\ n + (i - n) = i
      <4>1. new.lines[i] = rows[i - n]
          BY <2>2, <3>2
      <4> QED BY <2>5, <3>2, <4>1
    <3> QED BY <2>3, <3>1, <3>2
  <2> QED BY <2>2, <2>6, <2>7 DEF new
<1> QED BY <1>1, <1>2

-----------------------------------------------------------------------------
(* Being killed.                                                           *)

LEMMA FirstRows ==
    ASSUME NEW Row, NEW rows \in Seq(Row), NEW n \in 0..Len(rows)
    PROVE  /\ SubSeq(rows, 1, n) \in Seq(Row)
           /\ Len(SubSeq(rows, 1, n)) = n
           /\ \A i \in 1..n : SubSeq(rows, 1, n)[i] = rows[i]
           /\ Written(SubSeq(rows, 1, n)) \subseteq Written(rows)
<1>1. Len(rows) \in Nat /\ \A i \in 1..Len(rows) : rows[i] \in Row
    BY LenProperties, ElementOfSeq
<1>2. /\ SubSeq(rows, 1, n) \in Seq(Row)
      /\ Len(SubSeq(rows, 1, n)) = n
      /\ \A i \in 1..n : SubSeq(rows, 1, n)[i] = rows[i]
    BY <1>1, SubSeqProperties
<1> QED BY <1>1, <1>2 DEF Written

\* The shape of what a killed writer leaves: some of its rows landed, and then
\* nothing, a torn row, or a row without its newline.
LEMMA KilledShape ==
    ASSUME NEW Row, NEW file \in Files(Row), NEW rows \in Seq(Row),
           NEW new \in KilledAfter(file, rows)
    PROVE  \E n \in 0..Len(rows) :
             LET whole == Landed(file, SubSeq(rows, 1, n))
             IN  \/ new = whole
                 \/ n < Len(rows) /\ new = [whole EXCEPT !.tail = JUNK]
                 \/ n < Len(rows) /\ new = [whole EXCEPT !.tail = Glued(whole.tail, rows[n + 1])]
<1>1. Len(rows) \in Nat
    BY LenProperties
<1> QED BY <1>1 DEF KilledAfter

LEMMA KilledKeeps ==
    ASSUME NEW Row, NEW file \in Files(Row), NEW rows \in Seq(Row),
           NEW new \in KilledAfter(file, rows)
    PROVE  /\ new \in Files(Row)
           /\ Kept(file, new)
           /\ RowsIn(new) \subseteq RowsIn(file) \cup Written(rows)
<1>1. PICK n \in 0..Len(rows) :
        LET whole == Landed(file, SubSeq(rows, 1, n))
        IN  \/ new = whole
            \/ n < Len(rows) /\ new = [whole EXCEPT !.tail = JUNK]
            \/ n < Len(rows) /\ new = [whole EXCEPT !.tail = Glued(whole.tail, rows[n + 1])]
    BY KilledShape
<1> DEFINE whole == Landed(file, SubSeq(rows, 1, n))
<1>2. /\ whole \in Files(Row) /\ Kept(file, whole)
      /\ RowsIn(whole) \subseteq RowsIn(file) \cup Written(rows)
    BY FirstRows, LandedKeeps
<1>3. Len(rows) \in Nat /\ (n < Len(rows) => rows[n + 1] \in Row /\ rows[n + 1] \in Written(rows))
    BY LenProperties, ElementOfSeq DEF Written
<1>4. new = whole \/ \E t \in Written(rows) \cup {JUNK} : t \in Row \cup {JUNK} /\ new = [whole EXCEPT !.tail = t]
    BY <1>1, <1>3 DEF Glued
<1> HIDE DEF whole
<1>5. CASE new = whole
    BY <1>2, <1>5
<1>6. ASSUME NEW t \in Written(rows) \cup {JUNK}, t \in Row \cup {JUNK}, new = [whole EXCEPT !.tail = t]
      PROVE  /\ new \in Files(Row) /\ Kept(file, new)
             /\ RowsIn(new) \subseteq RowsIn(file) \cup Written(rows)
  <2>1. new \in Files(Row) /\ new.lines = whole.lines /\ new.tail = t
    <3>1. t \in Row \cup {JUNK, EMPTY}
        BY <1>6
    <3> QED BY <1>2, <1>6, <3>1, AnotherTail, ZenonT(60)
  <2> QED BY <1>2, <1>6, <2>1 DEF Kept, RowsIn
<1> QED BY <1>4, <1>5, <1>6

-----------------------------------------------------------------------------
(* What is lost: at most the row after the last newline, and the first row *)
(* written after it.                                                       *)

LEMMA LandedLoses ==
    ASSUME NEW Row, JUNK \notin Row, EMPTY \notin Row,
           NEW file \in Files(Row), NEW rows \in Seq(Row), rows # <<>>
    PROVE  LET new == Landed(file, rows)
           IN  /\ \A r \in RowsIn(file) : r # file.tail => r \in RowsIn(new)
               /\ \A i \in 1..Len(rows) : i > 1 \/ file.tail = EMPTY => rows[i] \in RowsIn(new)
<1> DEFINE new == Landed(file, rows)
           n   == Len(file.lines)
<1>1. n \in Nat /\ Len(rows) \in Nat \ {0} /\ \A i \in 1..Len(rows) : rows[i] \in Row
    BY FileShape, EmptySeq, ElementOfSeq
<1>2. /\ Len(new.lines) = n + Len(rows)
      /\ \A i \in 1..n : new.lines[i] = file.lines[i]
      /\ new.lines[n + 1] = Glued(file.tail, rows[1])
      /\ \A i \in 2..Len(rows) : new.lines[n + i] = rows[i]
    BY LandedShape
<1> HIDE DEF new
<1>3. ASSUME NEW r \in RowsIn(file), r # file.tail PROVE r \in RowsIn(new)
  <2>1. PICK i \in 1..n : r = file.lines[i]
      BY <1>3 DEF RowsIn
  <2>2. i \in 1..n + Len(rows) /\ r = new.lines[i]
      BY <1>1, <1>2, <2>1
  <2> QED BY <1>2, <1>3, <2>2 DEF RowsIn
<1>4. ASSUME NEW i \in 1..Len(rows), i > 1 \/ file.tail = EMPTY PROVE rows[i] \in RowsIn(new)
  <2>1. n + i \in 1..n + Len(rows) /\ (i = 1 \/ i \in 2..Len(rows))
      BY <1>1
  <2>2. new.lines[n + i] = rows[i]
      BY <1>2, <1>4, <2>1 DEF Glued
  <2>3. rows[i] \notin {JUNK, EMPTY}
      BY <1>1
  <2> QED BY <1>2, <2>1, <2>2, <2>3 DEF RowsIn
<1> QED BY <1>3, <1>4 DEF new

\* A killed writer has landed some `n` rows.  Of the next one the file may end
\* in all but the newline.
Torn(file, rows, n, new) ==
    /\ RowsIn(new) \subseteq RowsIn(file) \cup {rows[i] : i \in 1..n}
                             \cup (IF n < Len(rows) THEN {rows[n + 1]} ELSE {})
    /\ \A r \in RowsIn(file) : r # file.tail => r \in RowsIn(new)
    /\ \A i \in 1..n : i > 1 \/ file.tail = EMPTY => rows[i] \in RowsIn(new)
    /\ \/ new = file
       \/ new.tail \in {JUNK, EMPTY}
       \/ n < Len(rows) /\ new.tail = rows[n + 1]

LEMMA LandedTorn ==
    ASSUME NEW Row, JUNK \notin Row, EMPTY \notin Row,
           NEW file \in Files(Row), NEW rows \in Seq(Row)
    PROVE  Torn(file, rows, Len(rows), Landed(file, rows))
<1>1. Len(rows) \in Nat
    BY LenProperties
<1>2. RowsIn(Landed(file, rows)) \subseteq RowsIn(file) \cup {rows[i] : i \in 1..Len(rows)}
    BY LandedKeeps DEF Written
<1>3. CASE rows = <<>>
  <2>1. Len(rows) = 0 /\ Landed(file, rows) = file
      BY <1>3, EmptySeq DEF Landed
  <2> QED BY <1>2, <2>1 DEF Torn
<1>4. CASE rows # <<>>
  <2>1. Landed(file, rows).tail = EMPTY
      BY <1>4, LandedShape
  <2> QED BY <1>1, <1>2, <1>4, <2>1, LandedLoses DEF Torn
<1> QED BY <1>3, <1>4

LEMMA KilledLoses ==
    ASSUME NEW Row, JUNK \notin Row, EMPTY \notin Row,
           NEW file \in Files(Row), NEW rows \in Seq(Row),
           NEW new \in KilledAfter(file, rows)
    PROVE  \E n \in 0..Len(rows) : Torn(file, rows, n, new)
<1>1. PICK n \in 0..Len(rows) :
        LET whole == Landed(file, SubSeq(rows, 1, n))
        IN  \/ new = whole
            \/ n < Len(rows) /\ new = [whole EXCEPT !.tail = JUNK]
            \/ n < Len(rows) /\ new = [whole EXCEPT !.tail = Glued(whole.tail, rows[n + 1])]
    BY KilledShape
<1> DEFINE sub   == SubSeq(rows, 1, n)
           whole == Landed(file, sub)
<1>2. sub \in Seq(Row) /\ Len(sub) = n /\ n \in Nat /\ \A i \in 1..n : sub[i] = rows[i]
    BY FirstRows, LenProperties
<1>3. Torn(file, sub, n, whole) /\ whole \in Files(Row)
    BY <1>2, LandedTorn, LandedKeeps
<1>4. whole = file \/ whole.tail = EMPTY
  <2>1. CASE sub = <<>>
      BY <2>1 DEF Landed
  <2>2. CASE sub # <<>>
      BY <1>2, <2>2, LandedShape, ZenonT(60)
  <2> QED BY <2>1, <2>2
<1>5. n < Len(rows) => rows[n + 1] \in Row
    BY <1>2, LenProperties, ElementOfSeq
<1> HIDE DEF whole, sub
<1>6. /\ RowsIn(whole) \subseteq RowsIn(file) \cup {rows[i] : i \in 1..n}
      /\ \A r \in RowsIn(file) : r # file.tail => r \in RowsIn(whole)
      /\ \A i \in 1..n : i > 1 \/ file.tail = EMPTY => rows[i] \in RowsIn(whole)
      /\ whole = file \/ whole.tail \in {JUNK, EMPTY}
    BY <1>2, <1>3 DEF Torn
<1>7. CASE new = whole
    BY <1>6, <1>7 DEF Torn
<1>8. ASSUME NEW t \in Row \cup {JUNK}, new = [whole EXCEPT !.tail = t], n < Len(rows),
             t = JUNK \/ t = rows[n + 1]
      PROVE  Torn(file, rows, n, new)
  <2>1. new.lines = whole.lines /\ new.tail = t
    <3>1. t \in Row \cup {JUNK, EMPTY}
        OBVIOUS
    <3> QED BY <1>3, <1>8, <3>1, AnotherTail
  <2>2. RowsIn(new) \subseteq RowsIn(whole) \cup ({t} \ {JUNK})
      BY <2>1 DEF RowsIn
  <2>3. \A r \in RowsIn(whole) : r # whole.tail => r \in RowsIn(new)
      BY <2>1 DEF RowsIn
  <2>4. \A r \in RowsIn(file) : r # file.tail => r \in RowsIn(new)
    <3> SUFFICES ASSUME NEW r \in RowsIn(file), r # file.tail PROVE r \in RowsIn(new)
        OBVIOUS
    <3>1. r \in RowsIn(whole) /\ r \notin {JUNK, EMPTY}
        BY <1>6 DEF RowsIn
    <3> QED BY <1>4, <2>3, <3>1
  <2>5. \A i \in 1..n : i > 1 \/ file.tail = EMPTY => rows[i] \in RowsIn(new)
    <3> SUFFICES ASSUME NEW i \in 1..n, i > 1 \/ file.tail = EMPTY PROVE rows[i] \in RowsIn(new)
        OBVIOUS
    <3>1. sub # <<>>
        BY <1>2, EmptySeq
    <3>2. whole.tail = EMPTY
        BY <1>2, <3>1, LandedShape DEF whole
    <3>3. rows[i] \in RowsIn(whole) /\ rows[i] \notin {JUNK, EMPTY}
        BY <1>6 DEF RowsIn
    <3> QED BY <2>3, <3>2, <3>3
  <2> QED BY <1>6, <1>8, <2>1, <2>2, <2>4, <2>5 DEF Torn
<1>9. CASE n < Len(rows) /\ new = [whole EXCEPT !.tail = JUNK]
    BY <1>8, <1>9
<1>10. CASE n < Len(rows) /\ new = [whole EXCEPT !.tail = Glued(whole.tail, rows[n + 1])]
  <2>1. /\ Glued(whole.tail, rows[n + 1]) \in Row \cup {JUNK}
        /\ Glued(whole.tail, rows[n + 1]) \in {JUNK, rows[n + 1]}
      BY <1>5, <1>10 DEF Glued
  <2> QED BY <1>8, <1>10, <2>1
<1> QED BY <1>1, <1>7, <1>9, <1>10 DEF whole, sub

-----------------------------------------------------------------------------
(* The rows that a process has buffered.                                   *)

LEMMA AppendRow ==
    ASSUME NEW Row, NEW rows \in Seq(Row), NEW row \in Row
    PROVE  /\ Append(rows, row) \in Seq(Row)
           /\ Len(rows) \in Nat /\ Len(Append(rows, row)) = Len(rows) + 1
           /\ \A i \in 1..Len(rows) : Append(rows, row)[i] = rows[i]
           /\ Append(rows, row)[Len(rows) + 1] = row
           /\ Written(Append(rows, row)) = Written(rows) \cup {row}
<1>1. Len(rows) \in Nat
    BY LenProperties
<1>2. /\ Append(rows, row) \in Seq(Row) /\ Len(Append(rows, row)) = Len(rows) + 1
      /\ \A i \in 1..Len(rows) : Append(rows, row)[i] = rows[i]
      /\ Append(rows, row)[Len(rows) + 1] = row
    BY AppendProperties
<1>3. \A i \in 1..Len(rows) + 1 : i \in 1..Len(rows) \/ i = Len(rows) + 1
    BY <1>1
<1>4. \A i \in 1..Len(rows) : i \in 1..Len(rows) + 1
    BY <1>1
<1>5. Len(rows) + 1 \in 1..Len(rows) + 1
    BY <1>1
<1> QED BY <1>1, <1>2, <1>3, <1>4, <1>5 DEF Written

LEMMA NothingWritten ==
    ASSUME NEW Row
    PROVE  Written(<<>>) = {} /\ <<>> \in Seq(Row) /\ Len(<<>>) = 0
    BY EmptySeq DEF Written
=============================================================================
