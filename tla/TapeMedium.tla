----------------------------- MODULE TapeMedium -----------------------------
(* The linear medium behind both tape backends (FolderTapeBackend,         *)
(* SimhTapeBackend): a sequence of blocks and tape marks, and a head that  *)
(* counts the items already passed.  A block is a label (its identifier    *)
(* and the name it carries) or a block of data.  Reading, overwriting,     *)
(* spacing and READ POSITION are the same walk in both backends.           *)
EXTENDS Integers, Sequences, FiniteSets, SequencesExt

Block(kind, name) == [kind |-> kind, name |-> name]
Mark == Block("mark", "")
IsMark(item) == item.kind = "mark"

(* The marks among the items after the lo-th, up to the hi-th.             *)
MarksIn(items, lo, hi) == {i \in (lo + 1)..hi : IsMark(items[i])}

(* Where tape files begin: at load point and behind every mark.            *)
FileStarts(items) == {0} \cup MarksIn(items, 0, Len(items))

NthUp(S, n) == CHOOSE s \in S : Cardinality({t \in S : t <= s}) = n
NthDown(S, n) == CHOOSE s \in S : Cardinality({t \in S : s <= t}) = n

StartOf(items, head) == Max({s \in FileStarts(items) : s <= head})

(* The item that ends the tape file the head is in: its mark, or the place *)
(* behind the last item.                                                   *)
EndOf(items, head) ==
    Min(MarksIn(items, head, Len(items)) \cup {Len(items) + 1})

(* The blocks from the head to the end of the file it is in.               *)
RestOfFile(items, head) == SubSeq(items, head + 1, EndOf(items, head) - 1)

Advanced(items, head) == IF head < Len(items) THEN head + 1 ELSE head

ReadResult(items, head) ==
    CASE head >= Len(items)     -> "EndOfData"
      [] head < Len(items)      -> IF IsMark(items[head + 1]) THEN "TapeMark" ELSE "Ok"

(* A write erases everything ahead of the head.                            *)
Overwritten(items, head, written) == SubSeq(items, 1, head) \o written

SpaceFiles(items, head, count) ==
    LET ahead  == MarksIn(items, head, Len(items))
        behind == {s \in FileStarts(items) : s < head}
    IN CASE count = 0 -> [head |-> head, spaced |-> 0]
         [] count > 0 /\ count <= Cardinality(ahead)
              -> [head |-> NthUp(ahead, count), spaced |-> count]
         [] count > 0 /\ count > Cardinality(ahead)
              -> [head |-> Len(items), spaced |-> Cardinality(ahead)]
         [] count < 0 /\ -count <= Cardinality(behind)
              -> [head |-> NthDown(behind, -count), spaced |-> -count]
         [] count < 0 /\ -count > Cardinality(behind)
              -> [head |-> 0, spaced |-> Cardinality(behind)]

(* Spacing records stops at the marks around the file.                     *)
SpaceRecords(items, head, count) ==
    LET ahead  == EndOf(items, head) - 1 - head
        behind == head - StartOf(items, head)
        moved  == IF count >= 0 THEN Min({count, ahead}) ELSE Min({-count, behind})
    IN [head |-> IF count >= 0 THEN head + moved ELSE head - moved, spaced |-> moved]

ReadPosition(items, head) ==
    [fileNumber      |-> Cardinality(MarksIn(items, 0, head)),
     blockNumber     |-> head - StartOf(items, head),
     atTapeMark      |-> head < Len(items) /\ IsMark(items[head + 1]),
     beginningOfTape |-> head = 0,
     endOfData       |-> head = Len(items)]

(* restoreTapePosition: where the head ends and whether it is accepted.    *)
RestoreTapePosition(items, wanted) ==
    LET file  == SpaceFiles(items, 0, wanted.fileNumber)
        block == SpaceRecords(items, file.head, wanted.blockNumber)
    IN CASE file.spaced # wanted.fileNumber -> [ok |-> FALSE, head |-> file.head]
         [] file.spaced = wanted.fileNumber /\ block.spaced # wanted.blockNumber
              -> [ok |-> FALSE, head |-> block.head]
         [] file.spaced = wanted.fileNumber /\ block.spaced = wanted.blockNumber
              -> [ok   |-> ReadPosition(items, block.head) = wanted,
                  head |-> block.head]

(* The tape files of the medium: what flush writes and inspectTape lists.  *)
(* A last run of blocks without a mark is a file too.                      *)
TapeFiles(items) ==
    LET marks == SelectSeq([i \in DOMAIN items |-> i], LAMBDA i : IsMark(items[i]))
        open  == IF items = <<>> \/ IsMark(Last(items)) THEN <<>> ELSE <<Len(items) + 1>>
        ends  == marks \o open
    IN [n \in DOMAIN ends |->
           SubSeq(items, IF n = 1 THEN 1 ELSE ends[n - 1] + 1, ends[n] - 1)]

=============================================================================
