----------------------------- MODULE ModelFiles -----------------------------
(***************************************************************************)
(* The tensor files of os/custom/custom_model_format.py: save_file writes  *)
(* a header with the place of every tensor and then the tensors' data over *)
(* the file; a loader stats the file, maps it, parses the header, compares *)
(* the sizes and then cuts tensors, or rows of them, out of the mapping.   *)
(* The saver may be killed, and may save again while a loader is open.     *)
(*                                                                         *)
(* A file is a sequence of cells: one for the size of the header, one for  *)
(* each entry of it, and one for each element of the data, marked with the *)
(* save, the tensor and the place it is from.  One saver at a time; no     *)
(* tensor is called "__metadata__", and metadata are left out.             *)
(***************************************************************************)
EXTENDS Integers, Sequences, FiniteSets, SequencesExt

CONSTANTS
  Models,       \* what may be saved: sequences of tensors [rows, width]
  RowSlices,    \* the slices of rows asked for: <<start, stop, step>>
  MaxSaves, MaxReads

\* Negative numbers in a slice are left out.
ASSUME ModelFilesAssumption ==
    Models \subseteq Seq([rows : Nat, width : Nat]) /\ RowSlices \subseteq Nat \X Nat \X Nat

VARIABLES
  modelFile,    \* the cells of the file
  unsaved,      \* the cells that the saver has yet to write
  saved,        \* what each save so far was of
  handle,       \* the loader, with the number of saves begun when it looked at the size
  reads,        \* how many reads were made
  gaveCells         \* the last read: the tensor, its rows and the cells they gave

modelFileVars == <<modelFile, unsaved, saved, handle, reads, gaveCells>>

NoHandle == [at |-> "closed", seen |-> 0, size |-> 0, length |-> 0, parsed |-> FALSE, infos |-> << >>, start |-> 0]
NoRead == [of |-> 0, rows |-> << >>, cells |-> << >>]

ModelFilesInit ==
    /\ modelFile = << >> /\ unsaved = << >> /\ saved = << >>
    /\ handle = NoHandle /\ reads = 0 /\ gaveCells = NoRead

-----------------------------------------------------------------------------
\* The sum of the first k sizes, for each k.
SumsOf(sizes) == LET sum[k \in 0..Len(sizes)] == IF k = 0 THEN 0 ELSE sum[k - 1] + sizes[k] IN sum

\* Tensors lie one behind the other, in the order of the header.
Offset(m, i) == SumsOf([k \in DOMAIN m |-> m[k].rows * m[k].width])[i]

HeaderCells(m) ==
    <<[is |-> "size", n |-> Len(m)]>> \o
    [i \in DOMAIN m |-> [is |-> "info", rows |-> m[i].rows, width |-> m[i].width,
                         from |-> Offset(m, i - 1), to |-> Offset(m, i)]]

TensorCells(s, m, i) ==
    [p \in 1..(m[i].rows * m[i].width) |-> [is |-> "data", save |-> s, of |-> i, place |-> p]]

FileCells(s, m) == HeaderCells(m) \o FlattenSeq([i \in DOMAIN m |-> TensorCells(s, m, i)])

\* from_bytes: "File too small", "File truncated", or the entries.
HeaderFits(cells) == Len(cells) > 0 /\ Len(cells) >= 1 + cells[1].n
Entries(cells) == [i \in 1..cells[1].n |-> cells[1 + i]]

-----------------------------------------------------------------------------
\* save_file: what it refuses it refuses before open(..., 'wb') empties the file ...
SaveBegins(m) ==
    /\ unsaved = << >> /\ Len(saved) < MaxSaves
    /\ modelFile' = << >> /\ unsaved' = FileCells(Len(saved) + 1, m) /\ saved' = Append(saved, m)
    /\ UNCHANGED <<handle, reads, gaveCells>>

\* ... and what it writes gets there bit by bit.
SaveWrites ==
    /\ \E n \in 1..Len(unsaved) :
         /\ modelFile' = modelFile \o SubSeq(unsaved, 1, n)
         /\ unsaved' = SubSeq(unsaved, n + 1, Len(unsaved))
    /\ UNCHANGED <<saved, handle, reads, gaveCells>>

SaverKilled ==
    /\ unsaved # << >> /\ unsaved' = << >>
    /\ UNCHANGED <<modelFile, saved, handle, reads, gaveCells>>

-----------------------------------------------------------------------------
\* What a loader sees through its mapping, which is as long as the file was when it was made.
Mapped == SubSeq(modelFile, 1, IF handle.length < Len(modelFile) THEN handle.length ELSE Len(modelFile))

\* open, in its steps: the size ...
Stats ==
    /\ handle.at = "closed" /\ saved # << >>
    /\ handle' = [NoHandle EXCEPT !.at = "sized", !.seen = Len(saved), !.size = Len(modelFile)]
    /\ gaveCells' = NoRead /\ UNCHANGED <<modelFile, unsaved, saved, reads>>

\* ... the mapping, which an empty file refuses ...
Maps ==
    /\ handle.at = "sized"
    /\ handle' = [handle EXCEPT !.at = IF modelFile = << >> THEN "failed" ELSE "mapped", !.length = Len(modelFile)]
    /\ UNCHANGED <<modelFile, unsaved, saved, reads, gaveCells>>

\* ... the header, and the size it asks for.  A loader whose open failed keeps its file: the
\* next open returns at once, and it reads like one that is open.
Parses ==
    /\ handle.at = "mapped"
    /\ IF ~HeaderFits(Mapped) THEN handle' = [handle EXCEPT !.at = "failed"]
       ELSE LET infos == Entries(Mapped)
                start == 1 + Len(infos)
                end == IF infos = << >> THEN 0 ELSE Last(infos).to
            IN handle' = [handle EXCEPT !.parsed = TRUE, !.infos = infos, !.start = start,
                                        !.at = IF handle.size = start + end THEN "open" ELSE "failed"]
    /\ UNCHANGED <<modelFile, unsaved, saved, reads, gaveCells>>

\* A file that became shorter than its mapping ends the process that reads behind its end.
Lost ==
    /\ handle.at \in {"mapped", "open", "failed"} /\ Len(modelFile) < handle.length
    /\ handle' = NoHandle /\ gaveCells' = NoRead
    /\ UNCHANGED <<modelFile, unsaved, saved, reads>>

Closes ==
    /\ handle.at \in {"open", "failed"}
    /\ handle' = NoHandle /\ gaveCells' = NoRead /\ UNCHANGED <<modelFile, unsaved, saved, reads>>

\* The cells of some rows of a tensor, as far as the mapping goes.
RowCells(info, row) ==
    LET from == handle.start + info.from + row * info.width
    IN SubSeq(Mapped, from + 1, IF from + info.width < Len(Mapped) THEN from + info.width ELSE Len(Mapped))

\* What does not fill the shape is refused by reshape.
Gives(i, rows) ==
    LET cells == FlattenSeq([k \in DOMAIN rows |-> RowCells(handle.infos[i], rows[k])])
    IN gaveCells' = IF Len(cells) = Len(rows) * handle.infos[i].width
                THEN [of |-> i, rows |-> rows, cells |-> cells] ELSE NoRead

CanRead == handle.at \in {"open", "failed"} /\ handle.parsed /\ reads < MaxReads

GetTensor(i) ==
    /\ CanRead /\ i \in DOMAIN handle.infos
    /\ Gives(i, [r \in 1..handle.infos[i].rows |-> r - 1])
    /\ reads' = reads + 1 /\ UNCHANGED <<modelFile, unsaved, saved, handle>>

\* range(start or 0, stop or shape[0], step or 1); an empty one is refused.
GetSlice(i, slice) ==
    /\ CanRead /\ i \in DOMAIN handle.infos
    /\ LET stop == IF slice[2] = 0 THEN handle.infos[i].rows ELSE slice[2]
           step == IF slice[3] = 0 THEN 1 ELSE slice[3]
           count == IF stop > slice[1] THEN (stop - slice[1] + step - 1) \div step ELSE 0
       IN IF count = 0 THEN gaveCells' = NoRead
          ELSE Gives(i, [k \in 1..count |-> slice[1] + (k - 1) * step])
    /\ reads' = reads + 1 /\ UNCHANGED <<modelFile, unsaved, saved, handle>>

\* load_file is an open, get_tensor of each name and a close.
ModelFilesNext ==
    \/ \E m \in Models : SaveBegins(m)
    \/ SaveWrites \/ SaverKilled
    \/ Stats \/ Maps \/ Parses \/ Lost \/ Closes
    \/ \E i \in DOMAIN handle.infos : GetTensor(i) \/ \E slice \in RowSlices : GetSlice(i, slice)

ModelFilesSpec == ModelFilesInit /\ [][ModelFilesNext]_modelFileVars

-----------------------------------------------------------------------------
\* Nobody began to save since the loader looked at the size.
Calm == handle.at # "closed" /\ handle.seen = Len(saved)

\* "File may be corrupted or truncated": a file that passed the comparison of sizes is a
\* whole save, however the saver was interrupted, and inspect's sum is its size.
OpenIsWhole ==
    Calm /\ handle.at = "open" =>
        /\ modelFile = FileCells(Len(saved), Last(saved))
        /\ LET sizes == [k \in DOMAIN handle.infos |-> handle.infos[k].to - handle.infos[k].from]
           IN handle.start + SumsOf(sizes)[Len(sizes)] = Len(modelFile)

\* Rows that are rows of the tensor are read as they were saved, also by a loader whose
\* open failed.
RowsAsSaved ==
    Calm /\ gaveCells.of # 0 =>
        LET t == Last(saved)[gaveCells.of] IN
        \A k \in DOMAIN gaveCells.rows : gaveCells.rows[k] < t.rows =>
            \A c \in 1..t.width :
                gaveCells.cells[(k - 1) * t.width + c] =
                    [is |-> "data", save |-> Len(saved), of |-> gaveCells.of, place |-> gaveCells.rows[k] * t.width + c]

\* The same of all rows that get_slice gives: false, a stop beyond the shape reads on into
\* the next tensor.
SlicesStayInside == Calm /\ gaveCells.of # 0 => \A k \in DOMAIN gaveCells.rows : gaveCells.rows[k] < Last(saved)[gaveCells.of].rows
=============================================================================
