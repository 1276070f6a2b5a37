---------------------------- MODULE DataSplitter ----------------------------
(***************************************************************************)
(* data_splitter.py cuts the input file into chunk files of a fixed size,  *)
(* each of which begins data_overlap bytes before the end of the last, so  *)
(* that a match across a cut is whole in one of them.  A part of the file  *)
(* is where it begins, from zero, and how long it is.                      *)
(***************************************************************************)
EXTENDS Integers, Sequences

CONSTANT OVERLAPPING    \* data_overlap, and loader.py's constant: 100

ASSUME OverlappingAssumption == OVERLAPPING \in Nat \ {0} /\ OVERLAPPING % 4 = 0

VARIABLES
    file,               \* the length of the input file and chunk_size
    data_chunk,         \* the part of it read last
    data_chunk_length,  \* and what the loop's condition looks at
    chunks              \* the chunk files written

splitterVars == <<file, data_chunk, data_chunk_length, chunks>>

AtMost(a, b) == IF a < b THEN a ELSE b

\* data_f.read(chunk_size) at position p.
Read(p) == [from |-> p, len |-> AtMost(file.chunk_size, file.length - p)]

\* The position of the file after the read.
Tell == data_chunk.from + data_chunk.len

SplitterInit ==
    /\ data_chunk = Read(0)
    /\ data_chunk_length = data_chunk.len
    /\ chunks = <<>>

\* Mutant of BackJump: the next chunk begins where this one ends.
BackJump_None == Tell

BackJump == IF Tell < OVERLAPPING THEN 0 ELSE Tell - OVERLAPPING

\* An iteration: the chunk is written, and the next one is read.
WriteChunk ==
    /\ data_chunk_length > 0
    /\ chunks' = Append(chunks, data_chunk)
    /\ data_chunk' = Read(BackJump)
    /\ data_chunk_length' = data_chunk'.len - OVERLAPPING
    /\ file' = file

SplitterDone == data_chunk_length <= 0

\* Interval [p, p + len) of the file is within the part.
Within(p, len, part) == part.from <= p /\ p + len <= part.from + part.len

\* If a chunk is larger than the overlap, a match of up to one byte more than
\* the overlap is whole in one of the chunks; otherwise all but the first chunk
\* of the file is never tested.
ChunksCover ==
    SplitterDone =>
        \A len \in 1 .. OVERLAPPING + 1 : \A p \in 0 .. file.length - len :
            \/ \E k \in DOMAIN chunks : Within(p, len, chunks[k])
            \/ (file.chunk_size <= OVERLAPPING /\ p + len > file.chunk_size)
=============================================================================
