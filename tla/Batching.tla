------------------------------- MODULE Batching -------------------------------
(***************************************************************************)
(* Two small algorithms of the loop: how the documents of a block are cut  *)
(* into request bodies (split_batches), and which buffered blocks an       *)
(* iteration checks (check_buffer).  A document is the length of its line, *)
(* newline included.                                                       *)
(***************************************************************************)
EXTENDS Naturals, SequencesExt

Size(lines) == FoldLeft(LAMBDA n, line : n + line, 0, lines)

\* Faulty variant: the newline at the limit is forgotten.
IsFullLoose(batch, line, max_docs, max_bytes) ==
  batch # <<>> /\ (Len(batch) >= max_docs \/ Size(batch) + line > max_bytes + 1)

\* A batch takes one line whatever its length.
IsFull(batch, line, max_docs, max_bytes) ==
  batch # <<>> /\ (Len(batch) >= max_docs \/ Size(batch) + line > max_bytes)

split_batches(lines, max_docs, max_bytes) ==
  LET Add(acc, line) ==
        IF IsFull(acc.current, line, max_docs, max_bytes)
        THEN [batches |-> Append(acc.batches, acc.current), current |-> <<line>>]
        ELSE [acc EXCEPT !.current = Append(@, line)]
      end == FoldLeft(Add, [batches |-> <<>>, current |-> <<>>], lines)
  IN  IF end.current = <<>> THEN end.batches ELSE Append(end.batches, end.current)

-----------------------------------------------------------------------------
\* Faulty variant: the slots are as far apart as the iterations.
SlotSevenApart(iteration, slot) == iteration * 7 + slot * 7

Slot(iteration, slot) == iteration * 7 + slot * 13

\* The indexes (from 0) of the blocks checked: the newest, and a window that
\* moves with the iterations.
SampleIndexes(len, recheck_sample_size, iteration) ==
  {len - 1} \cup
  {Slot(iteration, slot - 1) % len : slot \in 1..(recheck_sample_size - 1)}
=============================================================================
