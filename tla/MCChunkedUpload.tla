---------------------------- MODULE MCChunkedUpload ----------------------------
(* Instances of ChunkedUpload: files of three and two units, cut into chunks of one or two. *)
EXTENDS ChunkedUpload, SequencesExt

TwoVersions == <<3, 2>>

\* Chunk by chunk in the order of the offsets, as the code does it: markRangeAsDone.
MarkRangeAsDone(C, size) ==
  FoldLeft(LAMBDA r, c : IF Fits(c, r.n, size) THEN [n |-> r.n + c.len, K |-> r.K \cup {c}] ELSE r,
           [n |-> 0, K |-> {}], SetToSortSeq(C, LAMBDA c, d : c.start < d.start))

\* Directories of up to three chunks: Reuses says which are kept, and up to where, in the same way.
ASSUME ReusesIsMarkRangeAsDone ==
  \A D \in SUBSET (0 .. 3), size \in 0 .. 4 : \A len \in [D -> 0 .. 3] :
    LET C == {[start |-> s, len |-> len[s]] : s \in D}
    IN Cardinality(D) <= 3 =>
       \A K \in SUBSET C, n \in 0 .. size :
         Reuses(C, size, K, n) <=> MarkRangeAsDone(C, size) = [n |-> n, K |-> K]
=============================================================================
