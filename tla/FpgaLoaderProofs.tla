-------------------------- MODULE FpgaLoaderProofs --------------------------
(***************************************************************************)
(* data_splitter.py leaves no match short enough across a cut, and what    *)
(* loader.py counts is there and what it misses escapes the cores: for     *)
(* every overlap, file, chunk size, number of cores and expressions.       *)
(***************************************************************************)
EXTENDS FpgaLoader, FiniteSetTheorems, TLAPS

\* Where the chunk written last ends; no chunk has been written at zero.
End == IF chunks = <<>> THEN 0 ELSE chunks[Len(chunks)].from + chunks[Len(chunks)].len

\* Every match of up to one byte more than the overlap that ends by e is whole
\* in a chunk.
CoveredTo(e) ==
    \A len \in 1 .. OVERLAPPING + 1 : \A p \in 0 .. file.length - len :
        p + len <= e => \E k \in DOMAIN chunks : Within(p, len, chunks[k])

FileOK == file.length \in Nat \ {0} /\ file.chunk_size \in Nat \ {0}

ReadOK ==
    /\ data_chunk \in [from : Nat, len : Nat] /\ data_chunk.from <= file.length
    /\ data_chunk.len = AtMost(file.chunk_size, file.length - data_chunk.from)
    /\ chunks \in Seq([from : Nat, len : Nat])

\* What has been read begins an overlap before the end of what is written.
SplitInv ==
    /\ FileOK
    /\ ReadOK
    /\ CoveredTo(End)
    /\ chunks = <<>> => data_chunk.from = 0 /\ data_chunk_length = data_chunk.len
    /\ chunks # <<>> =>
          /\ End \in Nat /\ End <= file.length
          /\ AtMost(file.chunk_size, file.length) <= End
          /\ data_chunk.from = IF End < OVERLAPPING THEN 0 ELSE End - OVERLAPPING
          /\ data_chunk_length = data_chunk.len - OVERLAPPING

\* Before anything is written there is nothing to cover.
LEMMA SplitterStarts == Init => SplitInv
  <1>1. SUFFICES ASSUME Init PROVE SplitInv
    OBVIOUS
  <1>2. FileOK
    BY <1>1, LoaderAssumption DEF Init, FileOK
  <1>3. ReadOK
    <2>1. data_chunk = [from |-> 0, len |-> AtMost(file.chunk_size, file.length - 0)]
      BY <1>1 DEF Init, SplitterInit, Read
    <2>2. AtMost(file.chunk_size, file.length - 0) \in Nat
      BY <1>2 DEF FileOK, AtMost
    <2>3. chunks \in Seq([from : Nat, len : Nat])
      BY <1>1 DEF Init, SplitterInit
    <2>4. QED
      BY <2>1, <2>2, <2>3, <1>2 DEF FileOK, ReadOK
  <1>4. CoveredTo(End)
    BY <1>1, OverlappingAssumption DEF Init, SplitterInit, End, CoveredTo
  <1>5. chunks = <<>> /\ data_chunk.from = 0 /\ data_chunk_length = data_chunk.len
    BY <1>1 DEF Init, SplitterInit, Read
  <1>6. QED
    BY <1>2, <1>3, <1>4, <1>5 DEF SplitInv

\* Writing what was read covers what ends by its end: a match that ends later
\* than the last chunk begins after the point the splitter jumped back to.
LEMMA WritingCovers ==
    ASSUME SplitInv, WriteChunk
    PROVE  SplitInv'
  <1> DEFINE d == data_chunk
  <1>1. /\ chunks' = Append(chunks, d) /\ file' = file
        /\ data_chunk' = Read(BackJump)
        /\ data_chunk_length' = data_chunk'.len - OVERLAPPING
        /\ data_chunk_length > 0
    BY DEF WriteChunk
  <1>2. FileOK /\ ReadOK /\ OVERLAPPING \in Nat \ {0}
    BY OverlappingAssumption DEF SplitInv
  <1>3. FileOK'
    BY <1>1, <1>2 DEF FileOK
  <1>4. d.from \in Nat /\ d.len \in Nat /\ d.from + d.len <= file.length
    BY <1>2 DEF ReadOK, FileOK, AtMost
  <1>5. /\ chunks' \in Seq([from : Nat, len : Nat]) /\ Len(chunks') = Len(chunks) + 1
        /\ \A k \in DOMAIN chunks : k \in DOMAIN chunks' /\ chunks'[k] = chunks[k]
        /\ chunks'[Len(chunks')] = d /\ Len(chunks') \in DOMAIN chunks'
        /\ chunks' # <<>>
    <2>1. chunks \in Seq([from : Nat, len : Nat]) /\ d \in [from : Nat, len : Nat]
      BY <1>2 DEF ReadOK
    <2>2. chunks' = Append(chunks, d)
      BY <1>1
    <2> HIDE DEF d
    <2>3. Len(chunks) \in Nat /\ DOMAIN chunks = 1 .. Len(chunks)
      BY <2>1
    <2>4. /\ chunks' \in Seq([from : Nat, len : Nat]) /\ Len(chunks') = Len(chunks) + 1
          /\ chunks'[Len(chunks) + 1] = d
          /\ \A k \in 1 .. Len(chunks) : chunks'[k] = chunks[k]
      BY <2>1, <2>2
    <2>5. DOMAIN chunks' = 1 .. Len(chunks) + 1
      BY <2>4
    <2>6. chunks' # <<>>
      BY <2>3, <2>4
    <2>7. QED
      BY <2>3, <2>4, <2>5, <2>6
  <1>6. End' = d.from + d.len
    BY <1>5 DEF End
  <1>7. data_chunk'.from = IF End' < OVERLAPPING THEN 0 ELSE End' - OVERLAPPING
    <2>1. Tell = End'
      BY <1>6 DEF Tell
    <2>2. data_chunk'.from = BackJump
      BY <1>1 DEF Read
    <2>3. QED
      BY <2>1, <2>2 DEF BackJump
  <1>8. ReadOK'
    <2>1. data_chunk'.from \in Nat /\ data_chunk'.from <= file.length
      BY <1>2, <1>4, <1>6, <1>7 DEF FileOK
    <2>2. data_chunk' = [from |-> BackJump,
                         len |-> AtMost(file.chunk_size, file.length - BackJump)]
      BY <1>1 DEF Read
    <2>3. AtMost(file.chunk_size, file.length - BackJump) \in Nat
      BY <1>2, <2>1, <2>2 DEF FileOK, AtMost
    <2>4. QED
      BY <1>1, <1>5, <2>1, <2>2, <2>3 DEF ReadOK
  <1>9. CoveredTo(End)'
    <2>1. SUFFICES ASSUME NEW len \in 1 .. OVERLAPPING + 1, NEW p \in 0 .. file.length - len,
                          p + len <= End'
                   PROVE  \E k \in DOMAIN chunks' : Within(p, len, chunks'[k])
      BY <1>1 DEF CoveredTo
    <2>2. CASE p + len <= End
      <3>1. PICK k \in DOMAIN chunks : Within(p, len, chunks[k])
        BY <2>2 DEF SplitInv, CoveredTo
      <3>2. QED
        BY <3>1, <1>5
    <2>3. CASE ~(p + len <= End)
      <3>1. d.from <= p
        <4>1. CASE chunks = <<>>
          BY <4>1, <1>2, <1>4 DEF SplitInv, FileOK
        <4>2. CASE chunks # <<>>
          BY <4>2, <2>3, <1>2 DEF SplitInv, FileOK
        <4>3. QED BY <4>1, <4>2
      <3>2. Within(p, len, d)
        BY <3>1, <2>1, <1>6 DEF Within
      <3>3. QED
        BY <3>2, <1>5
    <2>4. QED BY <2>2, <2>3
  <1>10. AtMost(file.chunk_size, file.length) <= End'
    <2>1. CASE chunks = <<>>
      BY <2>1, <1>2, <1>6 DEF SplitInv, ReadOK, FileOK, AtMost
    <2>2. CASE chunks # <<>>
      <3>1. End \in Nat /\ AtMost(file.chunk_size, file.length) <= End
        BY <2>2 DEF SplitInv
      <3>2. End <= End'
        BY <2>2, <1>1, <1>2, <1>4, <1>6 DEF SplitInv
      <3>3. QED
        BY <3>1, <3>2, <1>2, <1>4, <1>6 DEF FileOK, AtMost
    <2>3. QED BY <2>1, <2>2
  <1>11. QED
    BY <1>1, <1>3, <1>4, <1>5, <1>6, <1>7, <1>8, <1>9, <1>10 DEF SplitInv, FileOK

\* Nothing after the splitting writes a chunk.
LEMMA SplitStays ==
    ASSUME SplitInv, [Next]_vars
    PROVE  SplitInv'
  <1>1. CASE SplitStep
    BY <1>1, WritingCovers DEF SplitStep
  <1>2. ASSUME UNCHANGED splitterVars PROVE SplitInv'
    BY <1>2 DEF splitterVars, SplitInv, FileOK, ReadOK, CoveredTo, End
  <1>3. QED
    BY <1>1, <1>2 DEF Next, EndSplit, Prepare, LoadCore, Start, CoreCompletes, Poll,
       Collect, Ended, vars

\* When the loop ends, all that the splitter's overlap promises has been written.
LEMMA SplitPromise == SplitInv => ChunksCover
  <1>1. SUFFICES ASSUME SplitInv, SplitterDone,
                        NEW len \in 1 .. OVERLAPPING + 1, NEW p \in 0 .. file.length - len,
                        ~(file.chunk_size <= OVERLAPPING /\ p + len > file.chunk_size)
                 PROVE  \E k \in DOMAIN chunks : Within(p, len, chunks[k])
    BY DEF ChunksCover
  <1>2. FileOK /\ ReadOK /\ OVERLAPPING \in Nat \ {0}
    BY <1>1, OverlappingAssumption DEF SplitInv
  <1>3. chunks # <<>>
    BY <1>1, <1>2 DEF SplitInv, SplitterDone, ReadOK, FileOK, AtMost
  <1>4. p + len <= End
    <2>1. /\ End \in Nat /\ AtMost(file.chunk_size, file.length) <= End
          /\ data_chunk.from = IF End < OVERLAPPING THEN 0 ELSE End - OVERLAPPING
          /\ data_chunk.len <= OVERLAPPING
      BY <1>1, <1>2, <1>3 DEF SplitInv, SplitterDone, ReadOK
    <2>2. CASE file.chunk_size <= OVERLAPPING
      BY <2>1, <2>2, <1>1, <1>2 DEF FileOK, AtMost
    <2>3. CASE file.chunk_size > OVERLAPPING
      <3>1. file.length <= data_chunk.from + OVERLAPPING
        BY <2>1, <2>3, <1>2 DEF ReadOK, FileOK, AtMost
      <3>2. QED
        BY <2>1, <2>3, <3>1, <1>1, <1>2 DEF FileOK, AtMost
    <2>4. QED BY <2>2, <2>3, <1>2 DEF FileOK
  <1>5. QED
    BY <1>1, <1>4 DEF SplitInv, CoveredTo

\* For every overlap, file and chunk size larger than the overlap, a match of up
\* to one byte more than the overlap is whole in a chunk file
\* (data_splitter.py:12-22).
THEOREM SplitterCovers == Spec => []ChunksCover
  <1>1. Init => SplitInv
    BY SplitterStarts
  <1>2. SplitInv /\ [Next]_vars => SplitInv'
    BY SplitStays
  <1>3. SplitInv => ChunksCover
    BY SplitPromise
  <1>4. QED
    BY <1>1, <1>2, <1>3, PTL DEF Spec
-----------------------------------------------------------------------------
(* Arithmetic.                                                               *)

\* A quotient times the divisor is what is divided, but for less than the
\* divisor.
LEMMA Quotient ==
    ASSUME NEW n \in Nat \ {0}, NEW m \in Nat
    PROVE  /\ m \div n \in Nat
           /\ n * (m \div n) <= m /\ m < n * (m \div n) + n
  OBVIOUS

\* The memories have room for the chunk and the overlaps of the slices, and the
\* part that is searched has room for a slice.
LEMMA BatchArithmetic ==
    ASSUME NEW n \in Nat \ {0}, NEW m \in Nat, NEW o \in Nat, o >= 4
    PROVE  LET batch == (m \div (4 * n)) + o
           IN  /\ batch \in Nat /\ o <= batch
               /\ batch <= (m \div n) + o
               /\ 4 * batch * n >= m + o
  <1> DEFINE a == m \div (4 * n)
             b == m \div n
  <1>1. 4 * n \in Nat \ {0}
    OBVIOUS
  <1>2. a \in Nat /\ b \in Nat /\ (4 * n) * a <= m /\ m < (4 * n) * a + 4 * n /\ m < n * b + n
    BY <1>1, Quotient
  <1> HIDE DEF a, b
  <1>3. n * (4 * a) < n * (b + 1)
    BY <1>2
  <1>4. 4 * a < b + 1
    BY <1>2, <1>3
  <1>5. 4 * (a + o) * n = (4 * n) * a + 4 * n + 4 * n * (o - 1)
    BY <1>2
  <1>6. n * (o - 1) >= o - 1
    OBVIOUS
  <1>7. 4 * (a + o) * n >= m + o
    BY <1>2, <1>5, <1>6
  <1> QED
    BY <1>2, <1>4, <1>7 DEF a, b

-----------------------------------------------------------------------------
(* The chunk files, and where the script is.                                 *)

\* The first chunk is as much of the file as fits one; the others are longer
\* than the overlap, or the splitter's loop would have ended.
ChunksOK ==
    /\ \A c \in DOMAIN chunks :
          /\ chunks[c] \in Parts
          /\ c = 1 => chunks[c].len = AtMost(file.chunk_size, file.length)
          /\ c > 1 => chunks[c].len > OVERLAPPING
    /\ phase # "split" => chunks # <<>>

\* The expression and the chunk in hand.
Places ==
    /\ job \in Jobs /\ file = job.file
    /\ phase # "done" => n_execution < Len(job.regex)
    /\ phase \notin {"split", "done"} => chunk < Len(chunks)
    /\ phase = "split" => n_execution = 0 /\ chunk = 0
    /\ phase = "done" => chunk = 0 /\ n_execution = Len(job.regex)
    /\ polled # 0 => repetitions < MaxPolls
    /\ phase = "poll" => core_data = number_of_cores

\* What the file and the size of a chunk have at least, if the script does not
\* fail.
Long == AtMost(file.chunk_size, file.length) + 3 >= OVERLAPPING

\* The script fails at the first slice of the first chunk, or not at all.
Fate ==
    /\ \/ chunk > 0 \/ n_execution > 0 \/ phase \in {"poll", "done"}
       \/ phase = "load" /\ core_data > 0
       => Long
    /\ phase = "failed" => ~Long /\ chunk = 0
    /\ phase = "load" =>
          IF core_data = 0 THEN data_counter = 0
          ELSE OVERLAPPING <= data_counter /\ data_counter <= char_counter + OVERLAPPING + 3

-----------------------------------------------------------------------------
(* What the cores' memories hold.                                            *)

\* What a core can find: its words are words of the chunk in hand.
WordsOfChunk ==
    /\ DOMAIN memory = Cores /\ DOMAIN data_address = Cores
    /\ phase \in {"load", "poll"} =>
         \A k \in Cores : \A a \in DOMAIN memory[k] :
            a <= init_data_n + SearchedPast =>
               /\ memory[k][a].len <= 4
               /\ Within(memory[k][a].from, memory[k][a].len, ChunkFile)

\* Where the slice of core k begins, if there is so much of the chunk.
StartOf(k) == IF k = 0 THEN 0 ELSE 4 * batch_size * k - OVERLAPPING

\* Word a of core k is there to be searched: it is neither the last the memory
\* has room for nor the last of the chunk.
Inner(k, a) == a + 1 < batch_size /\ StartOf(k) + 4 * (a + 1) < char_counter

\* The cores after the first are given more only of a chunk that does not fit
\* the first.
Given(k) == k = 0 \/ 4 * batch_size < char_counter

Loaded(k) ==
    Given(k) =>
        \A a \in Nat : Inner(k, a) =>
            /\ a \in DOMAIN memory[k]
            /\ memory[k][a] = [from |-> ChunkFile.from + StartOf(k) + 4 * a, len |-> 4]
            /\ phase = "load" => a # data_address[k]

Slices ==
    /\ phase = "load" => \A k \in 0 .. core_data - 1 : Loaded(k)
    /\ phase = "poll" => \A k \in Cores : Loaded(k)
    /\ phase = "load" /\ core_data > 0 /\ Given(1) =>
          \/ data_counter = 4 * batch_size * core_data
          \/ /\ data_counter >= char_counter + OVERLAPPING
             /\ 4 * batch_size * core_data - OVERLAPPING >= char_counter

-----------------------------------------------------------------------------
(* What the cores find and the host counts.                                  *)

\* A core that is complete has found a match if its memory holds one, and the
\* host has read so of those it saw complete.
Answers ==
    /\ phase = "load" => found = {}
    /\ phase = "poll" =>
          /\ result \subseteq found
          /\ \A k \in Cores :
                /\ k \in found => search[k] = "complete"
                /\ search[k] = "complete" =>
                      (k \in found <=> \E match \in job.regex[n_execution + 1] : Holds(memory[k], match))
          /\ \A k \in arrayCompleted : search[k] = "complete" /\ (k \in found => k \in result)

\* The chunks up to the c-th in which expression e matches.
MatchedUpTo(e, c) ==
    { i \in 1 .. c : \E o \in job.regex[e] : Within(o.from, o.len, chunks[i]) }

Counts ==
    /\ match_count \in Nat /\ output \in Seq(Nat) /\ Len(output) = n_execution
    /\ phase = "split" => match_count = 0
    /\ phase \notin {"split", "done"} =>
          match_count <= Cardinality(MatchedUpTo(n_execution + 1, chunk))
    /\ phase = "split" => counted = {}
    /\ OnlyRealMatches

\* What every step of the script and of the cores keeps.
LoaderInv ==
    /\ SplitInv /\ TypeOK /\ ChunksOK /\ Places /\ Fate
    /\ WordsOfChunk /\ Slices /\ Answers /\ Counts /\ MissedOnlyThere

-----------------------------------------------------------------------------
(* Slices.                                                                   *)

\* The sizes of a chunk and of what a core is given of it.
Sizes ==
    /\ OVERLAPPING \in Nat /\ OVERLAPPING >= 4 /\ OVERLAPPING % 4 = 0
    /\ number_of_cores \in Nat \ {0} /\ SearchedPast \in Nat /\ ClearedPast \in Nat
    /\ SearchedPast < ClearedPast
    /\ chunk + 1 \in DOMAIN chunks /\ ChunkFile \in Parts
    /\ char_counter \in Nat \ {0} /\ init_data_n \in Nat /\ batch_size \in Nat
    /\ OVERLAPPING <= batch_size /\ batch_size <= init_data_n
    /\ 4 * batch_size * number_of_cores >= char_counter + OVERLAPPING

\* The chunk in hand, its slices and its cores have sizes that fit each other.
LEMMA ChunkSizes ==
    ASSUME LoaderInv, phase \notin {"split", "done"}
    PROVE  Sizes
  <1>1. OVERLAPPING \in Nat /\ OVERLAPPING >= 4 /\ OVERLAPPING % 4 = 0
    BY OverlappingAssumption
  <1>2. number_of_cores \in Nat \ {0} /\ SearchedPast \in Nat /\ ClearedPast \in Nat
        /\ SearchedPast < ClearedPast
    BY LoaderAssumption DEF LoaderInv, Places, number_of_cores
  <1>3. chunks \in Seq([from : Nat, len : Nat]) /\ chunk \in Nat /\ chunk < Len(chunks)
    BY DEF LoaderInv, SplitInv, ReadOK, TypeOK, Places
  <1>4. chunk + 1 \in DOMAIN chunks
    BY <1>3
  <1>5. ChunkFile \in Parts
    BY <1>4 DEF LoaderInv, ChunksOK, ChunkFile
  <1>6. char_counter \in Nat \ {0}
    BY <1>5 DEF Parts, char_counter
  <1>7. init_data_n \in Nat
    BY <1>1, <1>2, <1>6 DEF init_data_n
  <1>8. /\ batch_size \in Nat /\ OVERLAPPING <= batch_size /\ batch_size <= init_data_n
        /\ 4 * batch_size * number_of_cores >= char_counter + OVERLAPPING
    BY <1>1, <1>2, <1>6, BatchArithmetic DEF batch_size, init_data_n
  <1> QED
    BY <1>1, <1>2, <1>4, <1>5, <1>6, <1>7, <1>8 DEF Sizes

\* Words of four bytes are read until there is no room or nothing left.
LEMMA WordArithmetic ==
    ASSUME NEW cc \in Nat, NEW b \in Nat, NEW s \in Nat, s <= cc + 3
    PROVE  LET w == AtMost(b, (cc - s + 3) \div 4)
           IN  /\ w \in Nat /\ w <= b /\ 4 * w <= cc - s + 3
               /\ w = b \/ 4 * w >= cc - s
  BY DEF AtMost

\* Where a slice begins, and the words that are read for it.
LEMMA SliceFacts ==
    ASSUME LoaderInv, phase = "load"
    PROVE  /\ SliceStart \in Nat /\ SliceStart <= char_counter + 3
           /\ core_data # 0 => SliceStart = data_counter - OVERLAPPING
           /\ data_counter \in Nat
           /\ SliceWords \in Nat /\ SliceWords <= batch_size
           /\ 4 * SliceWords <= char_counter - SliceStart + 3
           /\ SliceWords = batch_size \/ 4 * SliceWords >= char_counter - SliceStart
           /\ \A a \in 0 .. SliceWords - 1 :
                 /\ SliceWord(a) \in Parts /\ SliceWord(a).len <= 4
                 /\ Within(SliceWord(a).from, SliceWord(a).len, ChunkFile)
  <1>1. Sizes
    BY ChunkSizes
  <1>2. SliceStart \in Nat /\ SliceStart <= char_counter + 3 /\ data_counter \in Nat
        /\ (core_data # 0 => SliceStart = data_counter - OVERLAPPING)
    BY <1>1 DEF Sizes, LoaderInv, Fate, TypeOK, SliceStart, Sought
  <1>3. /\ SliceWords \in Nat /\ SliceWords <= batch_size
        /\ 4 * SliceWords <= char_counter - SliceStart + 3
        /\ SliceWords = batch_size \/ 4 * SliceWords >= char_counter - SliceStart
    BY <1>1, <1>2, WordArithmetic DEF Sizes, SliceWords
  <1>4. ASSUME NEW a \in 0 .. SliceWords - 1
        PROVE  /\ SliceWord(a) \in Parts /\ SliceWord(a).len <= 4
               /\ Within(SliceWord(a).from, SliceWord(a).len, ChunkFile)
    <2>1. 4 * a < char_counter - SliceStart
      BY <1>1, <1>2, <1>3 DEF Sizes
    <2>2. ChunkFile.from \in Nat /\ char_counter = ChunkFile.len
      BY <1>1 DEF Sizes, Parts, char_counter
    <2>3. SliceWord(a).from = ChunkFile.from + SliceStart + 4 * a
          /\ SliceWord(a).len \in 1 .. 4 /\ SliceWord(a).len <= char_counter - SliceStart - 4 * a
      BY <1>1, <1>2, <2>1 DEF Sizes, SliceWord, AtMost
    <2>4. SliceWord(a) \in Parts
      BY <1>2, <2>2, <2>3 DEF SliceWord, Parts
    <2> QED
      BY <1>1, <1>2, <2>2, <2>3, <2>4 DEF Within, Sizes
  <1> QED
    BY <1>2, <1>3, <1>4

-----------------------------------------------------------------------------
(* Where the script is.                                                      *)

\* Only the splitter writes chunks, and only collecting moves to another.
LEMMA Moves ==
    ASSUME [Next]_vars
    PROVE  /\ job' = job /\ file' = file
           /\ phase # "split" => UNCHANGED splitterVars
           /\ ~Collect => UNCHANGED <<n_execution, chunk>>
           /\ phase' = "split" => phase = "split"
           /\ SplitStep \/ UNCHANGED splitterVars
  BY DEF Next, SplitStep, WriteChunk, EndSplit, Prepare, LoadCore, Start, CoreCompletes, Poll,
     Collect, Ended, vars, splitterVars, position

\* The chunk in hand is the same until it has been collected.
LEMMA SameChunk ==
    ASSUME [Next]_vars, phase # "split", ~Collect
    PROVE  /\ chunks' = chunks /\ number_of_cores' = number_of_cores /\ Cores' = Cores
           /\ ChunkFile' = ChunkFile /\ char_counter' = char_counter
           /\ init_data_n' = init_data_n /\ batch_size' = batch_size
           /\ UNCHANGED <<n_execution, chunk, job, file>>
  <1>1. UNCHANGED <<n_execution, chunk, job, file, chunks>>
    BY Moves DEF splitterVars
  <1> QED
    BY <1>1 DEF number_of_cores, Cores, ChunkFile, char_counter, init_data_n, batch_size

\* Every step keeps ChunksOK.
LEMMA ChunksStay ==
    ASSUME LoaderInv, [Next]_vars
    PROVE  ChunksOK'
  <1>1. CASE SplitStep
    <2>1. /\ phase' = "split" /\ file' = file /\ chunks' = Append(chunks, data_chunk)
          /\ data_chunk_length > 0
      BY <1>1 DEF SplitStep, WriteChunk
    <2>2. /\ FileOK /\ ReadOK /\ OVERLAPPING \in Nat \ {0}
          /\ chunks \in Seq([from : Nat, len : Nat])
      BY OverlappingAssumption DEF LoaderInv, SplitInv, ReadOK
    <2>3. data_chunk \in Parts
      <3>1. data_chunk \in [from : Nat, len : Nat]
        BY <2>2 DEF ReadOK
      <3>2. data_chunk.len > 0
        BY <2>1, <2>2, <3>1 DEF LoaderInv, SplitInv
      <3> QED
        BY <3>1, <3>2 DEF Parts
    <2>4. chunks = <<>> => data_chunk.len = AtMost(file.chunk_size, file.length)
      BY <2>2 DEF LoaderInv, SplitInv, ReadOK, FileOK
    <2>5. chunks # <<>> => data_chunk.len > OVERLAPPING
      BY <2>1, <2>2 DEF LoaderInv, SplitInv, ReadOK
    <2>6. \A c \in DOMAIN chunks' :
             \/ c \in DOMAIN chunks /\ chunks'[c] = chunks[c]
             \/ c = Len(chunks) + 1 /\ chunks'[c] = data_chunk
      <3>1. DOMAIN chunks' = 1 .. Len(chunks) + 1 /\ DOMAIN chunks = 1 .. Len(chunks)
            /\ Len(chunks) \in Nat
        BY <2>1, <2>2
      <3>2. \A c \in DOMAIN chunks : chunks'[c] = chunks[c]
        BY <2>1, <2>2
      <3>3. chunks'[Len(chunks) + 1] = data_chunk
        BY <2>1, <2>2
      <3>4. \A c \in DOMAIN chunks' : c \in DOMAIN chunks \/ c = Len(chunks) + 1
        BY <3>1
      <3> QED
        BY <3>2, <3>3, <3>4
    <2>7. ASSUME NEW c \in DOMAIN chunks'
          PROVE  /\ chunks'[c] \in Parts
                 /\ c = 1 => chunks'[c].len = AtMost(file.chunk_size, file.length)
                 /\ c > 1 => chunks'[c].len > OVERLAPPING
      <3>1. CASE c \in DOMAIN chunks /\ chunks'[c] = chunks[c]
        BY <3>1 DEF LoaderInv, ChunksOK
      <3>2. CASE c = Len(chunks) + 1 /\ chunks'[c] = data_chunk
        BY <3>2, <2>2, <2>3, <2>4, <2>5
      <3> QED
        BY <3>1, <3>2, <2>6
    <2> QED
      BY <2>1, <2>7 DEF ChunksOK, AtMost
  <1>2. CASE EndSplit
    <2>1. chunks # <<>>
      BY <1>2 DEF EndSplit, LoaderInv, SplitInv, SplitterDone, ReadOK, FileOK, AtMost
    <2> QED
      BY <1>2, <2>1 DEF EndSplit, splitterVars, LoaderInv, ChunksOK, AtMost
  <1>3. CASE UNCHANGED splitterVars /\ ~EndSplit
    <2>1. phase' # "split" => phase # "split"
      BY <1>3 DEF Next, SplitStep, WriteChunk, EndSplit, Prepare, LoadCore, Start, CoreCompletes,
         Poll, Collect, Ended, vars, splitterVars, LoaderInv, SplitInv, ReadOK
    <2> QED
      BY <1>3, <2>1 DEF splitterVars, LoaderInv, ChunksOK, AtMost
  <1> QED
    BY <1>1, <1>2, <1>3, Moves

\* Every step keeps Places.
LEMMA PlacesStay ==
    ASSUME LoaderInv, [Next]_vars
    PROVE  Places'
  <1> USE DEF LoaderInv, Places
  <1>1. job' = job /\ file' = file
    BY Moves
  <1>2. job.regex \in Seq(SUBSET Parts) /\ job.regex # <<>>
    BY LoaderAssumption
  <1>3. chunks \in Seq([from : Nat, len : Nat])
    BY DEF SplitInv, ReadOK
  <1>4. CASE SplitStep
    BY <1>1, <1>4 DEF SplitStep, position, polling, loading
  <1>5. CASE EndSplit
    BY <1>1, <1>3, <1>5, ChunksStay DEF EndSplit, position, polling, loading, splitterVars, ChunksOK
  <1>6. CASE Prepare
    BY <1>1, <1>6 DEF Prepare, position, polling, splitterVars
  <1>7. CASE LoadCore
    BY <1>1, <1>7 DEF LoadCore, position, polling, splitterVars
  <1>8. CASE Start
    BY <1>1, <1>8 DEF Start, position, loading, splitterVars, number_of_cores
  <1>9. CASE \E k \in Cores : CoreCompletes(k)
    BY <1>1, <1>9 DEF CoreCompletes, position, loading, polling, splitterVars, number_of_cores
  <1>10. CASE Poll
    <2>1. number_of_cores \in Nat \ {0} /\ polled \in Cores /\ repetitions \in Nat
          /\ MaxPolls \in Nat
      BY <1>10, LoaderAssumption DEF number_of_cores, TypeOK
    <2>2. polled' # 0 => repetitions < MaxPolls
      BY <1>10, <2>1 DEF Poll, Polling, Cores
    <2>3. polled' # 0 => repetitions' = repetitions
      BY <1>10 DEF Poll
    <2> QED
      BY <1>1, <1>10, <2>2, <2>3 DEF Poll, position, loading, splitterVars, number_of_cores
  <1>11. CASE Collect
    <2>1. n_execution \in Nat /\ chunk \in Nat /\ n_execution < Len(job.regex) /\ chunk < Len(chunks)
      BY <1>11 DEF Collect, TypeOK
    <2>2. n_execution' \in Nat /\ n_execution' <= Len(job.regex) /\ chunk' < Len(chunks)
      BY <1>2, <1>3, <1>11, <2>1 DEF Collect
    <2>3. n_execution' = Len(job.regex) => chunk' = 0
      BY <1>11, <2>1 DEF Collect
    <2> QED
      BY <1>1, <1>2, <1>11, <2>2, <2>3 DEF Collect, loading, polling, splitterVars
  <1>12. CASE UNCHANGED vars
    BY <1>12 DEF vars, position, loading, polling, splitterVars, number_of_cores
  <1> QED
    BY <1>4, <1>5, <1>6, <1>7, <1>8, <1>9, <1>10, <1>11, <1>12 DEF Next, Ended

\* The chunk in hand is too short exactly when it is the first of a file that
\* is too short.
LEMMA ShortChunk ==
    ASSUME LoaderInv, phase \notin {"split", "done"}
    PROVE  (char_counter + 3 < OVERLAPPING) <=> (chunk = 0 /\ ~Long)
  <1>1. Sizes
    BY ChunkSizes
  <1>2. CASE chunk = 0
    <2>1. char_counter = AtMost(file.chunk_size, file.length)
      BY <1>1, <1>2 DEF Sizes, LoaderInv, ChunksOK, ChunkFile, char_counter
    <2> QED
      BY <1>1, <1>2, <2>1 DEF Sizes, Long
  <1>3. CASE chunk # 0
    <2>1. char_counter > OVERLAPPING
      BY <1>1, <1>3 DEF Sizes, LoaderInv, TypeOK, ChunksOK, ChunkFile, char_counter
    <2> QED
      BY <1>1, <1>3, <2>1 DEF Sizes
  <1> QED
    BY <1>2, <1>3

\* Every step keeps Fate.
LEMMA FateStays ==
    ASSUME LoaderInv, [Next]_vars
    PROVE  Fate'
  <1>1. file' = file /\ Long' = Long
    BY Moves DEF Long, AtMost
  <1>2. CASE SplitStep
    BY <1>1, <1>2 DEF SplitStep, position, LoaderInv, Fate, Places
  <1>3. CASE EndSplit
    BY <1>1, <1>3 DEF EndSplit, position, LoaderInv, Fate, Places
  <1>4. CASE Prepare
    BY <1>1, <1>4 DEF Prepare, position, LoaderInv, Fate
  <1>5. CASE LoadCore
    <2>1. phase = "load" /\ data_counter' = data_counter + 4 * SliceWords
          /\ core_data' = core_data + 1
          /\ phase' = IF data_counter' - OVERLAPPING < 0 THEN "failed" ELSE "load"
      BY <1>5 DEF LoadCore, Sought
    <2>2. Sizes /\ char_counter' = char_counter /\ UNCHANGED <<n_execution, chunk>>
      BY <2>1, <1>5, ChunkSizes, SameChunk DEF LoadCore, Collect
    <2>3. core_data \in Nat
      BY <2>2 DEF LoaderInv, TypeOK, Sizes
    <2>4. CASE core_data = 0
      <3>1. data_counter = 0 /\ SliceStart = 0
        BY <2>1, <2>4 DEF LoaderInv, Fate, SliceStart
      <3>2. data_counter' \in Nat /\ data_counter' <= char_counter + 3
            /\ (data_counter' < OVERLAPPING <=> char_counter + 3 < OVERLAPPING)
        BY <2>1, <2>2, <3>1 DEF Sizes, SliceWords, AtMost
      <3>3. data_counter' < OVERLAPPING <=> chunk = 0 /\ ~Long
        BY <2>1, <3>2, ShortChunk
      <3>4. CASE data_counter' < OVERLAPPING
        <4>1. phase' = "failed" /\ ~Long' /\ chunk' = 0
          BY <1>1, <2>1, <2>2, <3>2, <3>3, <3>4 DEF Sizes
        <4>2. ~(chunk' > 0 \/ n_execution' > 0)
          BY <2>1, <2>2, <3>3, <3>4 DEF LoaderInv, Fate
        <4> QED
          BY <4>1, <4>2 DEF Fate
      <3>5. CASE ~(data_counter' < OVERLAPPING)
        <4>1. phase' = "load" /\ core_data' = 1 /\ OVERLAPPING <= data_counter'
              /\ data_counter' <= char_counter' + OVERLAPPING + 3
          BY <2>1, <2>2, <2>4, <3>2, <3>5 DEF Sizes
        <4>2. Long'
          BY <1>1, <2>1, <2>2, <3>3, <3>5 DEF LoaderInv, Fate, TypeOK
        <4> QED
          BY <4>1, <4>2 DEF Fate
      <3> QED
        BY <3>4, <3>5
    <2>5. CASE core_data # 0
      <3>1. SliceStart = data_counter - OVERLAPPING /\ SliceWords \in Nat /\ data_counter \in Nat
            /\ 4 * SliceWords <= char_counter - SliceStart + 3
        BY <2>1, <2>5, SliceFacts
      <3>2. Long /\ OVERLAPPING <= data_counter
        BY <2>1, <2>3, <2>5 DEF LoaderInv, Fate
      <3>3. OVERLAPPING <= data_counter' /\ data_counter' <= char_counter + OVERLAPPING + 3
        BY <2>1, <2>2, <3>1, <3>2 DEF Sizes
      <3> QED
        BY <1>1, <2>1, <2>2, <2>3, <2>5, <3>1, <3>2, <3>3 DEF Fate, Sizes
    <2> QED
      BY <2>4, <2>5
  <1>6. CASE Start
    <2>1. Long
      BY <1>6, ChunkSizes DEF Start, LoaderInv, Fate, Sizes
    <2> QED
      BY <1>1, <1>6, <2>1 DEF Start, Fate
  <1>7. CASE \E k \in Cores : CoreCompletes(k)
    BY <1>1, <1>7 DEF CoreCompletes, position, LoaderInv, Fate
  <1>8. CASE Poll
    BY <1>1, <1>8 DEF Poll, Polling, position, LoaderInv, Fate
  <1>9. CASE Collect
    BY <1>1, <1>9 DEF Collect, LoaderInv, Fate
  <1>10. CASE UNCHANGED vars
    <2>1. char_counter' = char_counter
      BY <1>10 DEF vars, position, splitterVars, char_counter, ChunkFile
    <2> QED
      BY <1>1, <1>10, <2>1 DEF vars, position, loading, LoaderInv, Fate
  <1> QED
    BY <1>2, <1>3, <1>4, <1>5, <1>6, <1>7, <1>8, <1>9, <1>10 DEF Next, Ended

-----------------------------------------------------------------------------
(* The cores' memories.                                                      *)

\* Loading changes the memory of one core: the words of its slice are there,
\* and what it had above them.
LEMMA LoadedWords ==
    ASSUME LoaderInv, LoadCore
    PROVE  /\ core_data \in Cores /\ memory' = [memory EXCEPT ![core_data] = Filled(memory[core_data])]
           /\ \A k \in Cores : k # core_data =>
                 memory'[k] = memory[k] /\ data_address'[k] = data_address[k]
           /\ data_address'[core_data] = SliceWords - 1
           /\ \A a \in DOMAIN memory'[core_data] :
                 \/ a \in 0 .. SliceWords - 1 /\ memory'[core_data][a] = SliceWord(a)
                 \/ a \in DOMAIN memory[core_data] /\ memory'[core_data][a] = memory[core_data][a]
           /\ \A a \in 0 .. SliceWords - 1 :
                 a \in DOMAIN memory'[core_data] /\ memory'[core_data][a] = SliceWord(a)
           /\ DOMAIN memory' = Cores /\ DOMAIN data_address' = Cores
  <1>1. Sizes /\ phase = "load" /\ core_data < number_of_cores /\ core_data \in 0 .. number_of_cores
    BY ChunkSizes DEF LoadCore, LoaderInv, TypeOK
  <1>2. core_data \in Cores
    BY <1>1 DEF Cores, Sizes
  <1>3. DOMAIN memory = Cores /\ DOMAIN data_address = Cores
    BY DEF LoaderInv, WordsOfChunk
  <1>4. memory' = [memory EXCEPT ![core_data] = Filled(memory[core_data])]
        /\ data_address' = [data_address EXCEPT ![core_data] = SliceWords - 1]
    BY DEF LoadCore
  <1>5. memory'[core_data] = Filled(memory[core_data])
    BY <1>2, <1>3, <1>4
  <1>6. SliceWords \in Nat /\ \A a \in DOMAIN memory[core_data] : a \in Nat
    BY <1>1, <1>2, SliceFacts DEF LoaderInv, TypeOK
  <1>7. \A a \in DOMAIN memory'[core_data] :
           \/ a \in 0 .. SliceWords - 1 /\ memory'[core_data][a] = SliceWord(a)
           \/ a \in DOMAIN memory[core_data] /\ memory'[core_data][a] = memory[core_data][a]
    BY <1>5, <1>6 DEF Filled
  <1>8. \A a \in 0 .. SliceWords - 1 :
           a \in DOMAIN memory'[core_data] /\ memory'[core_data][a] = SliceWord(a)
    BY <1>5, <1>6 DEF Filled
  <1> QED
    BY <1>2, <1>3, <1>4, <1>7, <1>8

\* Before a search a word of each core may become zero, and no other.
LEMMA StartedWords ==
    ASSUME LoaderInv, Start
    PROVE  /\ DOMAIN memory' = Cores
           /\ \A k \in Cores :
                 /\ \A a \in DOMAIN memory'[k] :
                       a \in DOMAIN memory[k] /\ memory'[k][a] = memory[k][a]
                 /\ \A a \in DOMAIN memory[k] : a # data_address[k] => a \in DOMAIN memory'[k]
  <1>1. DOMAIN memory = Cores
    BY DEF LoaderInv, WordsOfChunk
  <1>2. CASE memory' = memory
    BY <1>1, <1>2
  <1>3. CASE memory' = [k \in Cores |-> Restrict(memory[k], DOMAIN memory[k] \ {data_address[k]})]
    BY <1>1, <1>3 DEF Restrict
  <1> QED
    BY <1>2, <1>3 DEF Start

\* What is cleared is more than what is searched.
LEMMA PreparedWords ==
    ASSUME LoaderInv, Prepare
    PROVE  /\ DOMAIN memory' = Cores /\ DOMAIN data_address' = Cores
           /\ \A k \in Cores : \A a \in DOMAIN memory'[k] :
                 /\ a \in DOMAIN memory[k] /\ memory'[k][a] = memory[k][a]
                 /\ a > init_data_n + SearchedPast
  <1>1. Sizes
    BY ChunkSizes DEF Prepare
  <1>2. memory' = [k \in Cores |-> Cleared(memory[k], init_data_n + ClearedPast)]
        /\ DOMAIN data_address' = Cores
    BY DEF Prepare
  <1>3. \A k \in Cores : \A a \in DOMAIN memory'[k] :
           a \in DOMAIN memory[k] /\ memory'[k][a] = memory[k][a] /\ a >= init_data_n + ClearedPast
    BY <1>2 DEF Cleared, Restrict
  <1>4. \A k \in Cores : \A a \in DOMAIN memory[k] : a \in Nat
    BY DEF LoaderInv, TypeOK
  <1>5. \A a \in Nat : a >= init_data_n + ClearedPast => a > init_data_n + SearchedPast
    BY <1>1 DEF Sizes
  <1> QED
    BY <1>2, <1>3, <1>4, <1>5

\* The words are parts of the file.
WordsOK == \A k \in Cores : \A a \in DOMAIN memory[k] : a \in Nat /\ memory[k][a] \in Parts

\* Every step keeps WordsOK.
LEMMA WordsOKStay ==
    ASSUME LoaderInv, [Next]_vars
    PROVE  WordsOK'
  <1> USE DEF WordsOK
  <1>1. WordsOK /\ Cores' = Cores
    BY Moves DEF LoaderInv, TypeOK, Cores, number_of_cores
  <1>2. CASE UNCHANGED memory
    BY <1>1, <1>2
  <1>3. CASE Prepare
    BY <1>1, <1>3, PreparedWords
  <1>4. CASE Start
    BY <1>1, <1>4, StartedWords
  <1>5. CASE LoadCore
    <2>1. \A a \in 0 .. SliceWords - 1 : a \in Nat /\ SliceWord(a) \in Parts
      BY <1>5, SliceFacts DEF LoadCore
    <2>2. ASSUME NEW k \in Cores, NEW a \in DOMAIN memory'[k]
          PROVE  a \in Nat /\ memory'[k][a] \in Parts
      BY <1>1, <1>5, <2>1, LoadedWords
    <2> QED
      BY <1>1, <2>2
  <1> QED
    BY <1>2, <1>3, <1>4, <1>5 DEF Next, SplitStep, EndSplit, CoreCompletes, Poll, Collect, Ended,
       vars, registers

\* Every step keeps TypeOK.
LEMMA TypeStays ==
    ASSUME LoaderInv, [Next]_vars
    PROVE  TypeOK'
  <1> DEFINE Rest ==
        /\ phase \in {"split", "prepare", "load", "poll", "done", "failed"}
        /\ n_execution \in 0 .. Len(job.regex) /\ chunk \in Nat
        /\ core_data \in 0 .. number_of_cores /\ data_counter \in Nat
        /\ search \in [Cores -> {"idle", "searching", "complete"}]
        /\ found \subseteq Cores /\ arrayCompleted \subseteq Cores /\ result \subseteq Cores
        /\ polled \in Cores /\ repetitions \in 0 .. MaxPolls
  <1> SUFFICES Rest'
    BY WordsOKStay DEF TypeOK, WordsOK
  <1>1. job' = job /\ number_of_cores' = number_of_cores /\ Cores' = Cores
    BY Moves DEF number_of_cores, Cores
  <1>2. /\ number_of_cores \in Nat \ {0} /\ MaxPolls \in Nat \ {0}
        /\ job.regex \in Seq(SUBSET Parts) /\ job.regex # <<>>
    BY LoaderAssumption DEF LoaderInv, Places, number_of_cores
  <1>3. Rest
    BY DEF LoaderInv, TypeOK
  <1>4. 0 \in Cores
    BY <1>2 DEF Cores
  <1>5. CASE SplitStep
    BY <1>1, <1>3, <1>5 DEF SplitStep, position, loading, polling
  <1>6. CASE EndSplit
    BY <1>1, <1>3, <1>6 DEF EndSplit, position, loading, polling
  <1>7. CASE Prepare
    BY <1>1, <1>2, <1>3, <1>7 DEF Prepare, position, polling
  <1>8. CASE LoadCore
    <2>1. SliceWords \in Nat /\ core_data \in Cores
      BY <1>8, SliceFacts, LoadedWords DEF LoadCore
    <2> QED
      BY <1>1, <1>2, <1>3, <1>8, <2>1 DEF LoadCore, position, polling, Cores
  <1>9. CASE Start
    BY <1>1, <1>2, <1>3, <1>4, <1>9 DEF Start, position, loading
  <1>10. CASE \E k \in Cores : CoreCompletes(k)
    BY <1>1, <1>3, <1>10 DEF CoreCompletes, position, loading, polling
  <1>11. CASE Poll
    <2>1. polled' \in Cores
      BY <1>1, <1>2, <1>3, <1>11 DEF Poll, Cores
    <2>2. repetitions' \in 0 .. MaxPolls
      BY <1>2, <1>3, <1>11 DEF Poll, Polling, Counted, LoaderInv, Places
    <2> QED
      BY <1>1, <1>3, <1>11, <2>1, <2>2 DEF Poll, position, loading
  <1>12. CASE Collect
    BY <1>1, <1>2, <1>3, <1>12 DEF Collect, loading, polling, LoaderInv, Places
  <1>13. CASE UNCHANGED vars
    BY <1>1, <1>3, <1>13 DEF vars, position, loading, polling
  <1> QED
    BY <1>5, <1>6, <1>7, <1>8, <1>9, <1>10, <1>11, <1>12, <1>13 DEF Next, Ended

\* Every step keeps WordsOfChunk.
LEMMA MemoryStays ==
    ASSUME LoaderInv, [Next]_vars
    PROVE  WordsOfChunk'
  <1>1. Cores' = Cores
    BY Moves DEF Cores, number_of_cores
  <1>2. CASE Prepare
    <2>1. init_data_n' = init_data_n
      BY <1>2, SameChunk DEF Prepare, Collect
    <2>2. SearchedPast \in Nat /\ init_data_n \in Nat
      BY <1>2, ChunkSizes DEF Prepare, Sizes
    <2>3. \A k \in Cores : \A a \in DOMAIN memory'[k] : a \in Nat
      BY <1>2, PreparedWords DEF LoaderInv, TypeOK
    <2> QED
      BY <1>1, <1>2, <2>1, <2>2, <2>3, PreparedWords DEF WordsOfChunk
  <1>3. CASE LoadCore
    <2>1. init_data_n' = init_data_n /\ ChunkFile' = ChunkFile /\ phase = "load"
      BY <1>3, SameChunk DEF LoadCore, Collect
    <2>2. \A a \in 0 .. SliceWords - 1 :
             SliceWord(a).len <= 4 /\ Within(SliceWord(a).from, SliceWord(a).len, ChunkFile)
      BY <2>1, SliceFacts
    <2>3. ASSUME NEW k \in Cores, NEW a \in DOMAIN memory'[k], a <= init_data_n + SearchedPast
          PROVE  memory'[k][a].len <= 4 /\ Within(memory'[k][a].from, memory'[k][a].len, ChunkFile)
      <3>1. CASE k # core_data
        BY <1>3, <2>1, <2>3, <3>1, LoadedWords DEF LoaderInv, WordsOfChunk
      <3>2. CASE k = core_data
        BY <1>3, <2>1, <2>2, <2>3, <3>2, LoadedWords DEF LoaderInv, WordsOfChunk
      <3> QED
        BY <3>1, <3>2
    <2>4. \A k \in Cores : \A a \in DOMAIN memory'[k] : a <= (init_data_n + SearchedPast)' =>
             (memory[k][a].len <= 4 /\ Within(memory[k][a].from, memory[k][a].len, ChunkFile))'
      BY <2>1, <2>3 DEF Within
    <2> QED
      BY <1>1, <1>3, <2>4, LoadedWords DEF WordsOfChunk
  <1>4. CASE Start
    <2>1. init_data_n' = init_data_n /\ ChunkFile' = ChunkFile /\ phase = "load"
          /\ data_address' = data_address
      BY <1>4, SameChunk DEF Start, Collect
    <2> QED
      BY <1>1, <1>4, <2>1, StartedWords DEF LoaderInv, WordsOfChunk, Within
  <1>5. CASE UNCHANGED registers /\ phase' \notin {"load", "poll"}
    BY <1>1, <1>5 DEF registers, LoaderInv, WordsOfChunk
  <1>6. CASE UNCHANGED registers /\ phase = "poll" /\ ~Collect
    <2>1. init_data_n' = init_data_n /\ ChunkFile' = ChunkFile
      BY <1>6, SameChunk
    <2> QED
      BY <1>1, <1>6, <2>1 DEF registers, LoaderInv, WordsOfChunk, Within
  <1>7. CASE UNCHANGED vars
    <2>1. init_data_n' = init_data_n /\ ChunkFile' = ChunkFile
      BY <1>7 DEF vars, position, splitterVars, init_data_n, char_counter, ChunkFile, number_of_cores
    <2> QED
      BY <1>1, <1>7, <2>1 DEF vars, registers, LoaderInv, WordsOfChunk, Within
  <1>8. CASE SplitStep \/ EndSplit
    BY <1>5, <1>8 DEF SplitStep, EndSplit
  <1>9. CASE (\E k \in Cores : CoreCompletes(k)) \/ Poll
    BY <1>6, <1>9 DEF CoreCompletes, Poll, Polling, Collect
  <1>10. CASE Collect
    BY <1>5, <1>10 DEF Collect
  <1> QED
    BY <1>2, <1>3, <1>4, <1>7, <1>8, <1>9, <1>10 DEF Next, Ended

\* A core that was given its slice has every word of it but the last.
LEMMA LoadedAfter ==
    ASSUME LoaderInv, LoadCore
    PROVE  /\ Given(core_data) => \A a \in Nat : Inner(core_data, a) =>
                 /\ a + 1 < SliceWords
                 /\ SliceWord(a) = [from |-> ChunkFile.from + StartOf(core_data) + 4 * a, len |-> 4]
           /\ Given(1) =>
                 \/ data_counter' = 4 * batch_size * (core_data + 1)
                 \/ /\ data_counter' >= char_counter + OVERLAPPING
                    /\ 4 * batch_size * (core_data + 1) - OVERLAPPING >= char_counter
  <1>1. Sizes /\ phase = "load" /\ core_data \in Cores /\ core_data \in Nat
    BY ChunkSizes, LoadedWords DEF LoadCore, Cores, Sizes
  <1>2. data_counter' = data_counter + 4 * SliceWords
    BY DEF LoadCore
  <1>3. CASE core_data = 0
    <2>1. SliceStart = 0 /\ StartOf(core_data) = 0 /\ data_counter = 0
      BY <1>1, <1>3 DEF SliceStart, StartOf, LoaderInv, Fate
    <2>2. SliceWords \in Nat /\ SliceWords <= batch_size
          /\ (SliceWords = batch_size \/ 4 * SliceWords >= char_counter)
      BY <1>1, <2>1, SliceFacts DEF Sizes
    <2>3. ASSUME NEW a \in Nat, Inner(core_data, a)
          PROVE  a + 1 < SliceWords /\ char_counter - 4 * a > 4
      BY <1>1, <2>1, <2>2, <2>3 DEF Inner, Sizes
    <2>4. ASSUME NEW a \in Nat, Inner(core_data, a)
          PROVE  SliceWord(a) = [from |-> ChunkFile.from + StartOf(core_data) + 4 * a, len |-> 4]
      BY <1>1, <2>1, <2>3, <2>4 DEF SliceWord, AtMost, Sizes
    <2>5. Given(1) => data_counter' = 4 * batch_size * (core_data + 1)
      <3>1. Given(1) => SliceWords = batch_size
        BY <1>1, <2>2 DEF Given, Sizes
      <3> QED
        BY <1>1, <1>2, <1>3, <2>1, <3>1 DEF Sizes
    <2> QED
      BY <2>3, <2>4, <2>5
  <1>4. CASE core_data # 0
    <2>1. Given(core_data) <=> Given(1)
      BY <1>4 DEF Given
    <2>2. SUFFICES ASSUME Given(1)
                   PROVE  /\ \A a \in Nat : Inner(core_data, a) =>
                                /\ a + 1 < SliceWords
                                /\ SliceWord(a) = [from |-> ChunkFile.from + StartOf(core_data) + 4 * a,
                                                   len |-> 4]
                          /\ \/ data_counter' = 4 * batch_size * (core_data + 1)
                             \/ /\ data_counter' >= char_counter + OVERLAPPING
                                /\ 4 * batch_size * (core_data + 1) - OVERLAPPING >= char_counter
      BY <2>1
    <2>3. data_counter \in Nat /\ SliceStart = data_counter - OVERLAPPING
          /\ SliceWords = AtMost(batch_size, (char_counter - (data_counter - OVERLAPPING) + 3) \div 4)
      BY <1>1, <1>4, SliceFacts DEF SliceWords
    <2>4. OVERLAPPING <= data_counter /\ data_counter <= char_counter + OVERLAPPING + 3
      BY <1>1, <1>4 DEF LoaderInv, Fate
    <2>5. \/ data_counter = 4 * batch_size * core_data
          \/ data_counter >= char_counter + OVERLAPPING
             /\ 4 * batch_size * core_data - OVERLAPPING >= char_counter
      BY <1>1, <1>4, <2>2 DEF LoaderInv, Slices
    <2>6. 4 * batch_size < char_counter
      BY <2>2 DEF Given
    <2> DEFINE q == 4 * batch_size * core_data
    <2>7. /\ OVERLAPPING \in Nat /\ OVERLAPPING >= 4 /\ batch_size \in Nat
          /\ OVERLAPPING <= batch_size /\ char_counter \in Nat \ {0}
          /\ core_data \in Nat /\ data_counter \in Nat
      BY <1>1, <2>3 DEF Sizes
    <2>8. q \in Nat /\ 4 * batch_size * (core_data + 1) = q + 4 * batch_size
          /\ StartOf(core_data) = q - OVERLAPPING
      BY <1>4, <2>7 DEF StartOf
    <2>9. SliceWords \in Nat /\ SliceWords <= batch_size
          /\ (SliceWords = batch_size
              \/ 4 * SliceWords >= char_counter - (data_counter - OVERLAPPING))
      BY <1>1, <2>3, SliceFacts
    <2>10. data_counter = q \/ (data_counter >= char_counter + OVERLAPPING
                               /\ q - OVERLAPPING >= char_counter)
      BY <2>5
    <2> HIDE DEF q
    <2>11. ASSUME NEW a \in Nat, Inner(core_data, a)
           PROVE  /\ a + 1 < SliceWords
                  /\ SliceWord(a) = [from |-> ChunkFile.from + StartOf(core_data) + 4 * a, len |-> 4]
      <3>1. a + 1 < batch_size /\ q - OVERLAPPING + 4 * (a + 1) < char_counter
        BY <2>8, <2>11 DEF Inner
      <3>2. /\ a + 1 < SliceWords /\ data_counter = q
            /\ char_counter - (data_counter - OVERLAPPING) - 4 * a > 4
        BY <2>7, <2>8, <2>9, <2>10, <3>1
      <3>3. SliceStart = StartOf(core_data) /\ char_counter - SliceStart - 4 * a > 4
        BY <2>3, <2>8, <3>2
      <3>4. AtMost(4, char_counter - SliceStart - 4 * a) = 4
        BY <2>3, <2>7, <3>3 DEF AtMost
      <3> QED
        BY <3>2, <3>3, <3>4 DEF SliceWord
    <2>12. \/ data_counter + 4 * SliceWords = q + 4 * batch_size
           \/ data_counter + 4 * SliceWords >= char_counter + OVERLAPPING
              /\ q + 4 * batch_size - OVERLAPPING >= char_counter
      BY <2>7, <2>8, <2>9, <2>10
    <2> QED
      <3>1. \/ data_counter' = q + 4 * batch_size
            \/ data_counter' >= char_counter + OVERLAPPING
               /\ q + 4 * batch_size - OVERLAPPING >= char_counter
        BY <1>2, <2>12
      <3> DEFINE next == 4 * batch_size * (core_data + 1)
      <3>2. next = q + 4 * batch_size
        BY <2>8
      <3> HIDE DEF next
      <3>3. \/ data_counter' = next
            \/ /\ data_counter' >= char_counter + OVERLAPPING
               /\ next - OVERLAPPING >= char_counter
        BY <2>7, <2>8, <3>1, <3>2
      <3> USE DEF next
      <3>4. \/ data_counter' = 4 * batch_size * (core_data + 1)
            \/ /\ data_counter' >= char_counter + OVERLAPPING
               /\ 4 * batch_size * (core_data + 1) - OVERLAPPING >= char_counter
        BY <3>3
      <3>5. \A a \in Nat : Inner(core_data, a) =>
                 /\ a + 1 < SliceWords
                 /\ SliceWord(a) = [from |-> ChunkFile.from + StartOf(core_data) + 4 * a, len |-> 4]
        BY <2>11
      <3> QED
        BY <3>4, <3>5
  <1> QED
    BY <1>3, <1>4

\* Every step keeps Slices.
LEMMA SlicesStay ==
    ASSUME LoaderInv, [Next]_vars
    PROVE  Slices'
  <1>1. Cores' = Cores
    BY Moves DEF Cores, number_of_cores
  <1>2. CASE phase' \notin {"load", "poll"}
    BY <1>2 DEF Slices
  <1>3. CASE Prepare
    BY <1>3 DEF Prepare, Slices
  <1>4. ASSUME UNCHANGED <<chunks, job, chunk>>
        PROVE  /\ ChunkFile' = ChunkFile /\ char_counter' = char_counter
               /\ batch_size' = batch_size
               /\ \A k \in Nat : StartOf(k)' = StartOf(k) /\ (Given(k)' <=> Given(k))
               /\ \A k \in Nat : \A a \in Nat : Inner(k, a)' <=> Inner(k, a)
    <2>1. ChunkFile' = ChunkFile /\ char_counter' = char_counter /\ batch_size' = batch_size
      BY <1>4 DEF ChunkFile, char_counter, batch_size, number_of_cores
    <2> QED
      BY <2>1 DEF StartOf, Given, Inner
  <1>5. CASE LoadCore
    <2>1. UNCHANGED <<chunks, job, chunk>> /\ phase = "load" /\ core_data' = core_data + 1
      BY <1>5 DEF LoadCore, position, splitterVars
    <2>2. core_data \in Nat /\ core_data \in Cores /\ number_of_cores \in Nat \ {0}
      BY <1>5, LoadedWords, ChunkSizes DEF Cores, Sizes, LoadCore
    <2>3. SUFFICES ASSUME phase' = "load"
                   PROVE  /\ \A k \in 0 .. core_data : Loaded(k)'
                          /\ Given(1) =>
                               \/ data_counter' = 4 * batch_size * (core_data + 1)
                               \/ /\ data_counter' >= char_counter + OVERLAPPING
                                  /\ 4 * batch_size * (core_data + 1) - OVERLAPPING >= char_counter
      <3>1. phase' # "poll"
        BY <1>5 DEF LoadCore
      <3> QED
        BY <1>4, <2>1, <2>2, <3>1 DEF Slices
    <2>4. ASSUME NEW k \in 0 .. core_data - 1 PROVE Loaded(k)'
      <3>1. Loaded(k) /\ k \in Cores /\ k # core_data /\ k \in Nat
        BY <2>1, <2>2 DEF LoaderInv, Slices, Cores
      <3>2. memory'[k] = memory[k] /\ data_address'[k] = data_address[k]
        BY <1>5, <3>1, LoadedWords
      <3> QED
        BY <1>4, <2>1, <2>3, <3>1, <3>2 DEF Loaded
    <2>5. ASSUME NEW k \in Nat, k = core_data PROVE Loaded(k)'
      <3>1. SUFFICES ASSUME Given(k), NEW a \in Nat, Inner(k, a)
                     PROVE  /\ a \in DOMAIN memory'[k]
                            /\ memory'[k][a] =
                                 [from |-> ChunkFile.from + StartOf(k) + 4 * a, len |-> 4]
                            /\ a # data_address'[k]
        BY <1>4, <2>1 DEF Loaded
      <3>2. a + 1 < SliceWords
            /\ SliceWord(a) = [from |-> ChunkFile.from + StartOf(k) + 4 * a, len |-> 4]
        BY <1>5, <2>5, <3>1, LoadedAfter
      <3>3. SliceWords \in Nat
        BY <2>1, SliceFacts
      <3>4. a \in 0 .. SliceWords - 1 /\ a # SliceWords - 1
        BY <3>2, <3>3
      <3> QED
        BY <1>5, <2>5, <3>2, <3>4, LoadedWords
    <2> QED
      BY <1>5, <2>2, <2>4, <2>5, LoadedAfter
  <1>6. CASE Start
    <2>1. UNCHANGED <<chunks, job, chunk>> /\ phase = "load" /\ phase' = "poll"
          /\ core_data = number_of_cores
      BY <1>6 DEF Start, position, splitterVars
    <2>2. number_of_cores \in Nat \ {0}
      BY <2>1, ChunkSizes DEF Sizes
    <2>3. ASSUME NEW k \in Cores PROVE Loaded(k)'
      <3>1. Loaded(k) /\ k \in Nat
        BY <2>1, <2>2 DEF LoaderInv, Slices, Cores
      <3> QED
        BY <1>4, <1>6, <2>1, <3>1, StartedWords DEF Loaded
    <2> QED
      BY <1>1, <2>1, <2>3 DEF Slices
  <1>7. CASE (\E k \in Cores : CoreCompletes(k)) \/ Poll \/ UNCHANGED vars
    <2>1. UNCHANGED <<chunks, job, chunk, phase, registers, core_data, data_counter>>
      BY <1>7 DEF CoreCompletes, Poll, vars, position, splitterVars, loading
    <2>2. \A k \in Nat : Loaded(k)' <=> Loaded(k)
      BY <1>4, <2>1 DEF Loaded, registers
    <2>3. number_of_cores' = number_of_cores /\ (phase = "load" => core_data \in Nat)
          /\ (phase \in {"load", "poll"} => number_of_cores \in Nat)
      BY <2>1, ChunkSizes DEF number_of_cores, LoaderInv, TypeOK, Sizes
    <2> QED
      BY <1>1, <1>4, <2>1, <2>2, <2>3 DEF Slices, LoaderInv, Cores
  <1> QED
    BY <1>2, <1>3, <1>5, <1>6, <1>7 DEF Next, Ended, SplitStep, EndSplit, Collect

-----------------------------------------------------------------------------
(* What the cores find.                                                      *)

\* An expression in hand, and its matches.
LEMMA MatchesInHand ==
    ASSUME LoaderInv, phase \notin {"split", "done"}
    PROVE  /\ n_execution \in Nat /\ n_execution + 1 \in DOMAIN job.regex
           /\ \A o \in job.regex[n_execution + 1] : o \in Parts /\ o.from \in Nat /\ o.len \in Nat \ {0}
  <1>1. job.regex \in Seq(SUBSET Parts)
    BY LoaderAssumption DEF LoaderInv, Places
  <1>2. n_execution \in Nat /\ n_execution + 1 \in DOMAIN job.regex
    BY <1>1 DEF LoaderInv, TypeOK, Places
  <1>3. job.regex[n_execution + 1] \subseteq Parts
    BY <1>1, <1>2
  <1> QED
    BY <1>2, <1>3 DEF Parts

\* A byte that is searched and is not zero is one of the chunk.
LEMMA ByteOfChunk ==
    ASSUME LoaderInv, phase = "poll", NEW k \in Cores, NEW i \in Nat, ByteAt(memory[k], i) # -1
    PROVE  ChunkFile.from <= ByteAt(memory[k], i)
           /\ ByteAt(memory[k], i) + 1 <= ChunkFile.from + ChunkFile.len
  <1> DEFINE a == i \div 4
             word == memory[k][a]
  <1>1. a \in DOMAIN memory[k] /\ a <= init_data_n + SearchedPast /\ i % 4 >= 4 - word.len
        /\ ByteAt(memory[k], i) = word.from + (i % 4) - (4 - word.len)
    BY DEF ByteAt
  <1>2. word \in Parts /\ word.len <= 4 /\ Within(word.from, word.len, ChunkFile)
    BY <1>1 DEF LoaderInv, TypeOK, WordsOfChunk
  <1>3. ChunkFile \in Parts
    BY ChunkSizes DEF Sizes
  <1>4. i % 4 \in 0 .. 3
    OBVIOUS
  <1> HIDE DEF a, word
  <1>5. word.from \in Nat /\ word.len \in Nat /\ ChunkFile.from \in Nat /\ ChunkFile.len \in Nat
    BY <1>2, <1>3 DEF Parts
  <1> QED
    BY <1>1, <1>2, <1>4, <1>5 DEF Within

\* A match that a core finds is one of the chunk.
LEMMA HeldIsReal ==
    ASSUME LoaderInv, phase = "poll", NEW k \in Cores, NEW o \in job.regex[n_execution + 1],
           Holds(memory[k], o)
    PROVE  Within(o.from, o.len, ChunkFile)
  <1>1. o.from \in Nat /\ o.len \in Nat \ {0}
    BY MatchesInHand
  <1>2. PICK a \in DOMAIN memory[k], b \in 0 .. 3 :
           \A d \in 0 .. o.len - 1 : ByteAt(memory[k], 4 * a + b + d) = o.from + d
    BY DEF Holds
  <1>3. a \in Nat
    BY DEF LoaderInv, TypeOK
  <1>4. ASSUME NEW d \in 0 .. o.len - 1
        PROVE  ChunkFile.from <= o.from + d /\ o.from + d + 1 <= ChunkFile.from + ChunkFile.len
    <2>1. 4 * a + b + d \in Nat /\ o.from + d # -1
      BY <1>1, <1>3
    <2> QED
      BY <1>2, <2>1, ByteOfChunk
  <1>5. ChunkFile.from \in Nat /\ ChunkFile.len \in Nat
    BY ChunkSizes DEF Sizes, Parts
  <1>6. ChunkFile.from <= o.from
    <2>1. ChunkFile.from <= o.from + 0
      BY <1>1, <1>4
    <2> QED
      BY <1>1, <1>5, <2>1
  <1>7. o.from + (o.len - 1) + 1 <= ChunkFile.from + ChunkFile.len
    BY <1>1, <1>4
  <1> QED
    BY <1>1, <1>5, <1>6, <1>7 DEF Within

\* Every step keeps Answers.
LEMMA AnswersStay ==
    ASSUME LoaderInv, [Next]_vars
    PROVE  Answers'
  <1>1. job' = job /\ Cores' = Cores
    BY Moves DEF Cores, number_of_cores
  <1>2. CASE phase' \notin {"load", "poll"}
    BY <1>2 DEF Answers
  <1>3. CASE Prepare
    BY <1>3 DEF Prepare, Answers
  <1>4. CASE LoadCore
    BY <1>4 DEF LoadCore, LoaderInv, Answers
  <1>5. CASE Start
    BY <1>1, <1>5 DEF Start, LoaderInv, Answers
  <1>6. ASSUME phase = "poll", UNCHANGED <<registers, position, splitterVars>>
        PROVE  \A k \in Cores :
                  (\E match \in job.regex[n_execution + 1] : Holds(memory[k], match))'
                  <=> \E match \in job.regex[n_execution + 1] : Holds(memory[k], match)
    <2>1. init_data_n' = init_data_n /\ memory' = memory /\ n_execution' = n_execution
      BY <1>1, <1>6 DEF registers, position, splitterVars, init_data_n, char_counter, ChunkFile, number_of_cores
    <2> QED
      BY <1>1, <2>1 DEF Holds, ByteAt
  <1> DEFINE Finds(k) == \E match \in job.regex[n_execution + 1] : Holds(memory[k], match)
  <1>7. ASSUME NEW k \in Cores, CoreCompletes(k)
        PROVE  Answers'
    <2>1. phase = "poll" /\ phase' = "poll" /\ search[k] = "searching"
          /\ search' = [search EXCEPT ![k] = "complete"]
          /\ found' = (IF Finds(k) THEN found \union {k} ELSE found)
          /\ result' = result /\ arrayCompleted' = arrayCompleted
      BY <1>7 DEF CoreCompletes, polling
    <2>2. \A j \in Cores : Finds(j)' <=> Finds(j)
      BY <1>6, <1>7, <2>1 DEF CoreCompletes
    <2> HIDE DEF Finds
    <2>3. /\ result \subseteq found
          /\ \A j \in Cores :
                /\ j \in found => search[j] = "complete"
                /\ search[j] = "complete" => (j \in found <=> Finds(j))
          /\ \A j \in arrayCompleted : search[j] = "complete" /\ (j \in found => j \in result)
          /\ DOMAIN search = Cores /\ arrayCompleted \subseteq Cores
      BY <2>1 DEF LoaderInv, Answers, TypeOK, Finds
    <2>4. /\ result' \subseteq found'
          /\ \A j \in Cores :
                /\ j \in found' => search'[j] = "complete"
                /\ search'[j] = "complete" => (j \in found' <=> Finds(j)')
          /\ \A j \in arrayCompleted' : search'[j] = "complete" /\ (j \in found' => j \in result')
      BY <2>1, <2>2, <2>3
    <2> QED
      BY <1>1, <2>1, <2>4 DEF Answers, Finds
  <1>8. CASE Poll
    <2>1. phase = "poll" /\ phase' = "poll" /\ found' = found /\ search' = search
          /\ \/ result' = result /\ arrayCompleted' = arrayCompleted
             \/ /\ polled \notin arrayCompleted
                /\ result' = IF polled \in found THEN result \union {polled} ELSE result \ {polled}
                /\ arrayCompleted' = IF search[polled] = "complete"
                                     THEN arrayCompleted \union {polled} ELSE arrayCompleted
      BY <1>8 DEF Poll, Polling
    <2>2. \A j \in Cores : Finds(j)' <=> Finds(j)
      BY <1>6, <1>8, <2>1 DEF Poll
    <2> HIDE DEF Finds
    <2>3. /\ result \subseteq found
          /\ \A j \in Cores :
                /\ j \in found => search[j] = "complete"
                /\ search[j] = "complete" => (j \in found <=> Finds(j))
          /\ \A j \in arrayCompleted : search[j] = "complete" /\ (j \in found => j \in result)
      BY <2>1 DEF LoaderInv, Answers, Finds
    <2>4. /\ result' \subseteq found'
          /\ \A j \in arrayCompleted' : search'[j] = "complete" /\ (j \in found' => j \in result')
      BY <2>1, <2>3
    <2> QED
      BY <1>1, <2>1, <2>2, <2>3, <2>4 DEF Answers, Finds
  <1>9. CASE UNCHANGED vars
    <2>1. UNCHANGED <<phase, registers, position, splitterVars, found, search, result, arrayCompleted>>
      BY <1>9 DEF vars, polling
    <2>2. phase = "poll" => \A j \in Cores : Finds(j)' <=> Finds(j)
      BY <1>6, <2>1
    <2> HIDE DEF Finds
    <2>3. phase = "poll" =>
            /\ result \subseteq found
            /\ \A j \in Cores :
                  /\ j \in found => search[j] = "complete"
                  /\ search[j] = "complete" => (j \in found <=> Finds(j))
            /\ \A j \in arrayCompleted : search[j] = "complete" /\ (j \in found => j \in result)
      BY DEF LoaderInv, Answers, Finds
    <2>4. phase = "load" => found = {}
      BY DEF LoaderInv, Answers
    <2> QED
      BY <1>1, <2>1, <2>2, <2>3, <2>4 DEF Answers, Finds
  <1> QED
    BY <1>2, <1>3, <1>4, <1>5, <1>7, <1>8, <1>9 DEF Next, Ended, SplitStep, EndSplit, Collect

-----------------------------------------------------------------------------
(* What the host counts.                                                     *)

\* One more chunk is one match more at most, and one more if the expression
\* matches in it.
LEMMA OneMore ==
    ASSUME NEW e, NEW c \in Nat
    PROVE  /\ Cardinality(MatchedUpTo(e, c)) \in Nat
           /\ Cardinality(MatchedUpTo(e, c)) <= Cardinality(MatchedUpTo(e, c + 1))
           /\ (\E o \in job.regex[e] : Within(o.from, o.len, chunks[c + 1])) =>
                 Cardinality(MatchedUpTo(e, c + 1)) = Cardinality(MatchedUpTo(e, c)) + 1
  <1> DEFINE M(i) == \E o \in job.regex[e] : Within(o.from, o.len, chunks[i])
             S == { i \in 1 .. c : M(i) }
             T == { i \in 1 .. c + 1 : M(i) }
  <1>1. MatchedUpTo(e, c) = S /\ MatchedUpTo(e, c + 1) = T
    BY DEF MatchedUpTo
  <1> HIDE DEF M
  <1>2. S \in SUBSET (1 .. c) /\ T \in SUBSET (1 .. c + 1) /\ S \in SUBSET T /\ c + 1 \notin S
        /\ (M(c + 1) => T = S \union {c + 1})
    OBVIOUS
  <1> HIDE DEF S, T
  <1>3. IsFiniteSet(1 .. c) /\ IsFiniteSet(1 .. c + 1)
    BY FS_Interval
  <1>4. IsFiniteSet(S) /\ IsFiniteSet(T)
    BY <1>2, <1>3, FS_Subset
  <1>5. Cardinality(S) \in Nat /\ Cardinality(S) <= Cardinality(T)
    BY <1>2, <1>4, FS_Subset, FS_CardinalityType
  <1>6. M(c + 1) => Cardinality(T) = Cardinality(S) + 1
    BY <1>2, <1>4, FS_AddElement
  <1> QED
    BY <1>1, <1>5, <1>6 DEF M

\* Before the first chunk no match is counted.
LEMMA NoneYet ==
    ASSUME NEW e
    PROVE  Cardinality(MatchedUpTo(e, 0)) = 0
  <1>1. MatchedUpTo(e, 0) = {}
    BY DEF MatchedUpTo
  <1> QED
    BY <1>1, FS_EmptySet

\* A chunk that is counted has been found by some core.
LEMMA MatchedIsReal ==
    ASSUME LoaderInv, phase = "poll", Matched
    PROVE  \E o \in job.regex[n_execution + 1] : Within(o.from, o.len, ChunkFile)
  <1>1. PICK k \in result : TRUE
    BY DEF Matched
  <1>2. k \in Cores /\ k \in found /\ search[k] = "complete"
    BY <1>1 DEF LoaderInv, TypeOK, Answers
  <1>3. \E o \in job.regex[n_execution + 1] : Holds(memory[k], o)
    BY <1>2 DEF LoaderInv, Answers
  <1> QED
    BY <1>2, <1>3, HeldIsReal

\* The parts of OnlyRealMatches.
CountedReal ==
    \A x \in counted :
        /\ x[2] + 1 \in 1 .. Len(chunks)
        /\ \E o \in job.regex[x[1] + 1] : Within(o.from, o.len, chunks[x[2] + 1])

OutputReal == \A e \in DOMAIN output : output[e] <= Cardinality(MatchedUpTo(e, Len(chunks)))

\* Matches are real if those counted so far are and those written are.
LEMMA OnlyRealParts == OnlyRealMatches <=> CountedReal /\ OutputReal
  BY DEF OnlyRealMatches, CountedReal, OutputReal, MatchedUpTo

\* Every step keeps Counts.
LEMMA CountsStay ==
    ASSUME LoaderInv, [Next]_vars
    PROVE  Counts'
  <1>1. job' = job /\ (~SplitStep => chunks' = chunks)
    BY Moves DEF splitterVars
  <1>2. match_count \in Nat /\ output \in Seq(Nat) /\ Len(output) = n_execution
        /\ CountedReal /\ OutputReal
    BY OnlyRealParts DEF LoaderInv, Counts
  <1>3. OnlyRealMatches' <=> CountedReal' /\ OutputReal'
    BY OnlyRealParts, PTL
  <1>4. CASE SplitStep
    <2>1. /\ phase' = "split" /\ match_count' = 0 /\ output' = output /\ n_execution' = n_execution
          /\ counted' = {} /\ n_execution = 0
      BY <1>4 DEF SplitStep, position, counts, LoaderInv, Counts, Places
    <2>2. DOMAIN output = {}
      BY <1>2, <2>1
    <2>3. CountedReal' /\ OutputReal'
      BY <2>1, <2>2 DEF CountedReal, OutputReal
    <2> QED
      BY <1>2, <1>3, <2>1, <2>3 DEF Counts
  <1>5. ASSUME UNCHANGED <<chunks, counted, output>>
        PROVE  OnlyRealMatches'
    BY <1>1, <1>2, <1>3, <1>5 DEF CountedReal, OutputReal, MatchedUpTo
  <1>6. CASE EndSplit
    <2>1. UNCHANGED <<chunks, counted, output, n_execution>> /\ match_count' = 0 /\ chunk' = 0
          /\ phase' = "prepare"
      BY <1>1, <1>6 DEF EndSplit, splitterVars, position, counts, LoaderInv, Counts, Places
    <2>2. Cardinality(MatchedUpTo(n_execution + 1, chunk)') = 0
      <3>1. MatchedUpTo(n_execution + 1, chunk)' = {}
        BY <2>1 DEF MatchedUpTo
      <3> QED
        BY <3>1, FS_EmptySet
    <2> QED
      BY <1>2, <1>5, <2>1, <2>2 DEF Counts
  <1>7. CASE Collect
    <2> DEFINE matches == IF Matched THEN match_count + 1 ELSE match_count
               lastChunk == chunk + 1 = Len(chunks)
    <2>1. /\ phase = "poll" /\ phase' \in {"prepare", "done"} /\ chunks' = chunks
          /\ chunk' = (IF lastChunk THEN 0 ELSE chunk + 1)
          /\ n_execution' = (IF lastChunk THEN n_execution + 1 ELSE n_execution)
          /\ match_count' = (IF lastChunk THEN 0 ELSE matches)
          /\ output' = (IF lastChunk THEN Append(output, matches) ELSE output)
          /\ counted' = (IF Matched THEN counted \union {<<n_execution, chunk>>} ELSE counted)
      BY <1>1, <1>7 DEF Collect, SplitStep
    <2>2. n_execution \in Nat /\ chunk \in Nat /\ chunk + 1 \in 1 .. Len(chunks)
          /\ match_count <= Cardinality(MatchedUpTo(n_execution + 1, chunk))
      <3>1. chunks \in Seq([from : Nat, len : Nat])
        BY DEF LoaderInv, SplitInv, ReadOK
      <3> QED
        BY <2>1, <3>1 DEF LoaderInv, TypeOK, Places, Counts
    <2>3. Matched => \E o \in job.regex[n_execution + 1] : Within(o.from, o.len, chunks[chunk + 1])
      BY <2>1, MatchedIsReal DEF ChunkFile
    <2>4. matches \in Nat /\ matches <= Cardinality(MatchedUpTo(n_execution + 1, chunk + 1))
      <3> DEFINE now == Cardinality(MatchedUpTo(n_execution + 1, chunk))
                 then == Cardinality(MatchedUpTo(n_execution + 1, chunk + 1))
      <3>1. now \in Nat /\ then \in Nat /\ now <= then /\ (Matched => then = now + 1) /\ match_count <= now
        BY <2>2, <2>3, OneMore
      <3> HIDE DEF now, then
      <3>2. matches \in Nat /\ matches <= then
        <4>1. match_count \in Nat
          BY <1>2
        <4>2. CASE Matched
          BY <3>1, <4>1, <4>2
        <4>3. CASE ~Matched
          BY <3>1, <4>1, <4>3
        <4> QED
          BY <4>2, <4>3
      <3> QED
        BY <3>2 DEF then
    <2> HIDE DEF matches
    <2>5. \A e, c : MatchedUpTo(e, c)' = MatchedUpTo(e, c)
      BY <1>1, <2>1 DEF MatchedUpTo
    <2>6. CountedReal'
      <3>1. ASSUME NEW x \in counted'
            PROVE  /\ x[2] + 1 \in 1 .. Len(chunks)
                   /\ \E o \in job.regex[x[1] + 1] : Within(o.from, o.len, chunks[x[2] + 1])
        <4>1. CASE x \in counted
          BY <1>2, <4>1 DEF CountedReal
        <4>2. CASE x = <<n_execution, chunk>> /\ Matched
          BY <2>2, <2>3, <4>2
        <4> QED
          BY <2>1, <4>1, <4>2
      <3> QED
        BY <1>1, <2>1, <3>1 DEF CountedReal
    <2>7. CASE lastChunk
      <3>1. /\ output' = Append(output, matches) /\ n_execution' = n_execution + 1 /\ chunk' = 0
            /\ match_count' = 0
        BY <2>1, <2>7
      <3>2. output' \in Seq(Nat) /\ Len(output') = n_execution + 1
            /\ output'[n_execution + 1] = matches
        BY <1>2, <2>2, <2>4, <3>1
      <3>3. \A e \in DOMAIN output' :
               e = n_execution + 1 \/ (e \in DOMAIN output /\ output'[e] = output[e])
        BY <1>2, <2>2, <2>4, <3>1
      <3>4. OutputReal'
        <4>1. ASSUME NEW e \in DOMAIN output'
              PROVE  output'[e] <= Cardinality(MatchedUpTo(e, Len(chunks)))
          BY <1>2, <2>4, <2>7, <3>2, <3>3, <4>1 DEF OutputReal
        <4> QED
          BY <1>1, <2>1, <4>1 DEF OutputReal, MatchedUpTo
      <3>5. match_count' <= Cardinality(MatchedUpTo(n_execution + 1, chunk)')
        <4>1. MatchedUpTo(n_execution + 1, chunk)' = {}
          BY <3>1 DEF MatchedUpTo
        <4> QED
          BY <3>1, <4>1, FS_EmptySet
      <3> QED
        BY <1>3, <2>1, <2>6, <3>1, <3>2, <3>4, <3>5 DEF Counts
    <2>8. CASE ~lastChunk
      <3>1. output' = output /\ n_execution' = n_execution /\ chunk' = chunk + 1
            /\ match_count' = matches
        BY <2>1, <2>8
      <3>2. OutputReal'
        BY <1>1, <1>2, <2>1, <3>1 DEF OutputReal, MatchedUpTo
      <3>3. MatchedUpTo(n_execution + 1, chunk)' = MatchedUpTo(n_execution + 1, chunk + 1)
        BY <1>1, <2>1, <3>1 DEF MatchedUpTo
      <3> QED
        BY <1>2, <1>3, <2>1, <2>4, <2>6, <3>1, <3>2, <3>3 DEF Counts
    <2> QED
      BY <2>7, <2>8
  <1>8. CASE UNCHANGED <<counts, position>> /\ phase \notin {"split", "done"} /\ ~SplitStep
    <2>1. MatchedUpTo(n_execution + 1, chunk)' = MatchedUpTo(n_execution + 1, chunk)
      BY <1>1, <1>8 DEF position, MatchedUpTo
    <2>2. phase' # "split"
      BY <1>8, Moves
    <2> QED
      BY <1>1, <1>2, <1>5, <1>8, <2>1, <2>2 DEF position, counts, LoaderInv, Counts
  <1>9. CASE UNCHANGED vars
    <2>1. MatchedUpTo(n_execution + 1, chunk)' = MatchedUpTo(n_execution + 1, chunk)
      BY <1>9 DEF vars, splitterVars, position, MatchedUpTo
    <2> QED
      BY <1>2, <1>5, <1>9, <2>1 DEF vars, splitterVars, position, counts, LoaderInv, Counts
  <1> QED
    BY <1>4, <1>6, <1>7, <1>8, <1>9 DEF Next, Ended, Prepare, LoadCore, Start, CoreCompletes,
       Poll, Polling, SplitStep

-----------------------------------------------------------------------------
(* What the cores do not find.                                               *)

\* A core that has every word of a match finds it.
LEMMA HeldIfLoaded ==
    ASSUME LoaderInv, phase = "poll", NEW k \in Cores, NEW o \in job.regex[n_execution + 1],
           Given(k), StartOf(k) \in Nat, ChunkFile.from + StartOf(k) <= o.from,
           \A a \in Nat : ChunkFile.from + StartOf(k) + 4 * a < o.from + o.len => Inner(k, a)
    PROVE  Holds(memory[k], o)
  <1>1. Sizes /\ o.from \in Nat /\ o.len \in Nat \ {0} /\ ChunkFile.from \in Nat
    BY ChunkSizes, MatchesInHand DEF Sizes, Parts
  <1>2. Loaded(k)
    BY DEF LoaderInv, Slices
  <1> DEFINE begin == ChunkFile.from + StartOf(k)
             r == o.from - begin
  <1>3. begin \in Nat /\ r \in Nat /\ o.from = begin + r
    BY <1>1
  <1>4. \A a \in Nat : begin + 4 * a < o.from + o.len =>
           /\ a \in DOMAIN memory[k] /\ memory[k][a] = [from |-> begin + 4 * a, len |-> 4]
           /\ a <= init_data_n + SearchedPast
    <2>1. ASSUME NEW a \in Nat, begin + 4 * a < o.from + o.len
          PROVE  /\ a \in DOMAIN memory[k] /\ memory[k][a] = [from |-> begin + 4 * a, len |-> 4]
                 /\ a <= init_data_n + SearchedPast
      <3>1. Inner(k, a)
        BY <2>1
      <3>2. a <= init_data_n + SearchedPast
        BY <1>1, <3>1 DEF Sizes, Inner
      <3> QED
        BY <1>2, <3>1, <3>2 DEF Loaded
    <2> QED
      BY <2>1
  <1> HIDE DEF begin, r
  <1>5. ASSUME NEW i \in Nat, begin + i < o.from + o.len
        PROVE  i \div 4 \in DOMAIN memory[k] /\ ByteAt(memory[k], i) = begin + i
    <2>1. i \div 4 \in Nat /\ i = 4 * (i \div 4) + (i % 4) /\ i % 4 \in 0 .. 3
      OBVIOUS
    <2> DEFINE a == i \div 4
               z == i % 4
    <2>2. a \in Nat /\ z \in 0 .. 3 /\ i = 4 * a + z
      BY <2>1
    <2>3. begin + 4 * a < o.from + o.len
      <3> HIDE DEF a, z
      <3> QED
        BY <1>1, <1>3, <1>5, <2>2
    <2>4. /\ a \in DOMAIN memory[k] /\ memory[k][a] = [from |-> begin + 4 * a, len |-> 4]
          /\ a <= init_data_n + SearchedPast
      BY <1>4, <2>2, <2>3
    <2>5. ByteAt(memory[k], i) = IF a \in DOMAIN memory[k] /\ a <= init_data_n + SearchedPast
                                      /\ z >= 4 - memory[k][a].len
                                 THEN memory[k][a].from + z - (4 - memory[k][a].len) ELSE -1
      BY DEF ByteAt
    <2> HIDE DEF a, z
    <2>6. memory[k][a].len = 4 /\ memory[k][a].from = begin + 4 * a
      BY <2>4
    <2>7. ByteAt(memory[k], i) = begin + i
      BY <1>3, <2>2, <2>4, <2>5, <2>6
    <2> QED
      BY <2>4, <2>7 DEF a
  <1>6. r \div 4 \in Nat /\ r % 4 \in 0 .. 3 /\ r = 4 * (r \div 4) + (r % 4)
    BY <1>3
  <1>7. r \div 4 \in DOMAIN memory[k]
    <2>1. begin + r < o.from + o.len
      BY <1>1, <1>3
    <2> QED
      BY <1>3, <1>5, <2>1
  <1>8. ASSUME NEW d \in 0 .. o.len - 1
        PROVE  ByteAt(memory[k], 4 * (r \div 4) + (r % 4) + d) = o.from + d
    <2>1. r + d \in Nat /\ begin + (r + d) = o.from + d /\ o.from + d < o.from + o.len
      BY <1>1, <1>3
    <2>2. ByteAt(memory[k], r + d) = o.from + d
      BY <1>5, <2>1
    <2> QED
      BY <1>6, <2>2
  <1> QED
    BY <1>6, <1>7, <1>8 DEF Holds

\* If a match of the chunk does not escape, some core is given all its words.
LEMMA SomeCore ==
    ASSUME LoaderInv, phase = "poll", NEW o \in job.regex[n_execution + 1],
           Within(o.from, o.len, ChunkFile), ~Escapes(o, chunk + 1)
    PROVE  \E k \in Cores :
              /\ Given(k) /\ StartOf(k) \in Nat /\ ChunkFile.from + StartOf(k) <= o.from
              /\ \A a \in Nat : ChunkFile.from + StartOf(k) + 4 * a < o.from + o.len => Inner(k, a)
  <1> DEFINE b == batch_size
             n == number_of_cores
             cc == char_counter
             O == OVERLAPPING
             first == o.from - ChunkFile.from
             last == first + o.len
             m == (cc - 1) \div 4
             p == O \div 4
  <1>1. Sizes /\ o.from \in Nat /\ o.len \in Nat \ {0} /\ ChunkFile.from \in Nat
    BY ChunkSizes, MatchesInHand DEF Sizes, Parts
  <1>2. /\ O \in Nat /\ O >= 4 /\ n \in Nat \ {0} /\ cc \in Nat \ {0} /\ b \in Nat /\ O <= b
        /\ 4 * b * n >= cc + O
    BY <1>1 DEF Sizes
  <1>3. first \in Nat /\ last \in Nat /\ last <= cc /\ first < last /\ o.from = ChunkFile.from + first
    BY <1>1, <1>2 DEF Within, char_counter
  <1>4. o.len <= O - 3 /\ last <= 4 * m
    BY <1>1, <1>2, <1>3 DEF Escapes, ChunkFile, char_counter
  <1>5. \A j \in 2 .. n - 1 : first < 4 * b * j - O => last <= 4 * b * j - O - 4
    <2>1. SUFFICES ASSUME NEW j \in 2 .. n - 1
                   PROVE  first < 4 * b * j - O => last <= 4 * b * j - O - 4
      OBVIOUS
    <2> DEFINE q == 4 * b * j
    <2>2. q \in Int
      BY <1>2
    <2>3. ~(first < q - O /\ last > q - O - 4)
      BY <2>1 DEF Escapes, ChunkFile, char_counter, batch_size
    <2> HIDE DEF q, first, last, O
    <2>4. first < q - O => last <= q - O - 4
      BY <1>2, <1>3, <2>2, <2>3
    <2> QED
      BY <2>4 DEF q
  <1>6. m \in Nat /\ 4 * m <= cc - 1 /\ p \in Nat /\ O = 4 * p
    BY <1>1, <1>2 DEF Sizes
  <1> DEFINE Fits(k) ==
        /\ Given(k) /\ StartOf(k) \in Nat /\ StartOf(k) <= first
        /\ \A a \in Nat : StartOf(k) + 4 * a < last => a + 1 < b /\ StartOf(k) + 4 * (a + 1) < cc
  <1> SUFFICES \E k \in Cores : Fits(k)
    <2>1. ASSUME NEW k \in Cores, Fits(k)
          PROVE  /\ Given(k) /\ StartOf(k) \in Nat /\ ChunkFile.from + StartOf(k) <= o.from
                 /\ \A a \in Nat : ChunkFile.from + StartOf(k) + 4 * a < o.from + o.len => Inner(k, a)
      BY <1>1, <1>2, <1>3, <2>1 DEF Inner
    <2> QED
      BY <2>1
  <1> HIDE DEF b, n, cc, O, first, last, m, p
  <1>7. CASE cc <= 4 * b \/ last <= 4 * b - 4
    <2>1. StartOf(0) = 0 /\ Given(0) /\ 0 \in Cores
      BY <1>2 DEF StartOf, Given, Cores, n
    <2>2. ASSUME NEW a \in Nat, 4 * a < last
          PROVE  a + 1 < b /\ 4 * (a + 1) < cc
      BY <1>2, <1>3, <1>4, <1>6, <1>7, <2>2
    <2> QED
      BY <1>3, <2>1, <2>2
  <1>8. CASE ~(cc <= 4 * b \/ last <= 4 * b - 4)
    <2> DEFINE k == (first + O) \div (4 * b)
               q == b * k
    <2>1. 4 * b \in Nat \ {0} /\ first + O \in Nat
      BY <1>2, <1>3
    <2>2. k \in Nat /\ (4 * b) * k <= first + O /\ first + O < (4 * b) * k + 4 * b
      BY <2>1, Quotient
    <2> HIDE DEF k
    <2>3. q \in Nat /\ (4 * b) * k = 4 * q /\ 4 * b * k = 4 * q /\ 4 * b * (k + 1) = 4 * q + 4 * b
      BY <1>2, <2>2
    <2>4. k # 0
      <3>1. first + O >= 4 * b
        BY <1>1, <1>2, <1>3, <1>4, <1>8 DEF last
      <3>2. k = 0 => q = 0
        BY <1>2
      <3> QED
        BY <1>2, <1>3, <2>2, <2>3, <3>1, <3>2
    <2>5. k < n
      <3>1. SUFFICES ASSUME k >= n PROVE FALSE
        BY <1>2, <2>2
      <3>2. b * k >= b * n
        BY <1>2, <2>2, <3>1
      <3>3. 4 * b * n = 4 * (b * n) /\ b * n \in Nat
        BY <1>2
      <3> QED
        BY <1>2, <1>3, <2>2, <2>3, <3>2, <3>3
    <2>6. StartOf(k) = 4 * q - O /\ Given(k) /\ k \in Cores
      <3>1. StartOf(k) = 4 * b * k - O
        BY <2>4 DEF StartOf, b, O
      <3>2. 4 * b < cc
        BY <1>2, <1>8
      <3>3. k \in 0 .. n - 1
        BY <1>2, <2>2, <2>5
      <3> QED
        BY <2>3, <3>1, <3>2, <3>3 DEF Given, Cores, b, cc, n
    <2> HIDE DEF q
    <2>7. last <= 4 * q + 4 * b - O - 4
      <3>1. CASE k + 1 = n
        <4>1. 4 * q + 4 * b >= cc + O
          BY <1>2, <2>3, <3>1
        <4>2. 4 * m <= 4 * q + 4 * b - 4 * p - 1
          BY <1>2, <1>6, <2>3, <4>1
        <4>3. m <= q + b - p - 1
          BY <1>2, <1>6, <2>3, <4>2
        <4> QED
          BY <1>2, <1>3, <1>4, <1>6, <2>3, <4>3
      <3>2. CASE k + 1 # n
        <4>1. k + 1 \in 2 .. n - 1
          BY <1>2, <2>2, <2>4, <2>5, <3>2
        <4>2. first < 4 * b * (k + 1) - O
          BY <1>2, <1>3, <2>2, <2>3
        <4>3. last <= 4 * b * (k + 1) - O - 4
          BY <1>5, <4>1, <4>2
        <4> QED
          BY <1>2, <1>3, <2>3, <4>3
      <3> QED
        BY <3>1, <3>2
    <2>8. StartOf(k) \in Nat /\ StartOf(k) <= first
      BY <1>2, <1>3, <1>8, <2>2, <2>3, <2>4, <2>6, <2>7
    <2>9. ASSUME NEW a \in Nat, StartOf(k) + 4 * a < last
          PROVE  a + 1 < b /\ StartOf(k) + 4 * (a + 1) < cc
      <3>1. a + 1 < b
        BY <1>2, <1>3, <2>3, <2>6, <2>7, <2>9
      <3>2. q - p + a < m
        BY <1>3, <1>4, <1>6, <2>3, <2>6, <2>9
      <3> QED
        BY <1>2, <1>6, <2>3, <2>6, <3>1, <3>2
    <2> QED
      BY <2>6, <2>8, <2>9
  <1> QED
    BY <1>7, <1>8

\* What a core seen complete did not find escapes the cores.
LEMMA UnseenEscapes ==
    ASSUME LoaderInv, phase = "poll", arrayCompleted = Cores, ~Matched,
           NEW o \in job.regex[n_execution + 1], Within(o.from, o.len, ChunkFile)
    PROVE  Escapes(o, chunk + 1)
  <1>1. SUFFICES ASSUME ~Escapes(o, chunk + 1) PROVE FALSE
    OBVIOUS
  <1>2. PICK k \in Cores : Holds(memory[k], o)
    BY <1>1, SomeCore, HeldIfLoaded
  <1>3. k \in found
    BY <1>2 DEF LoaderInv, Answers
  <1>4. k \in result
    BY <1>3 DEF LoaderInv, Answers
  <1> QED
    BY <1>4 DEF Matched

\* Every step keeps MissedOnlyThere.
LEMMA MissedStay ==
    ASSUME LoaderInv, [Next]_vars
    PROVE  MissedOnlyThere'
  <1>1. job' = job
    BY Moves
  <1>2. CASE SplitStep
    <2>1. n_execution' = 0 /\ chunk' = 0
      BY <1>2 DEF SplitStep, position, LoaderInv, Places
    <2>2. Searched' = {}
      BY <2>1 DEF Searched
    <2> QED
      BY <2>2 DEF MissedOnlyThere
  <1>3. chunks' = chunks => \A o, c : Escapes(o, c)' <=> Escapes(o, c)
    BY <1>1 DEF Escapes, number_of_cores
  <1>4. CASE ~SplitStep /\ ~Collect
    <2>1. UNCHANGED <<chunks, n_execution, chunk>> /\ UNCHANGED <<counted, late>>
      BY <1>4, Moves DEF splitterVars, Next, EndSplit, Prepare, LoadCore, Start, CoreCompletes,
         Poll, Ended, vars, counts
    <2>2. Searched' = Searched
      BY <1>1, <2>1 DEF Searched
    <2> QED
      BY <1>1, <1>3, <2>1, <2>2 DEF LoaderInv, MissedOnlyThere
  <1>5. CASE Collect
    <2>1. /\ phase = "poll" /\ chunks' = chunks
          /\ IF chunk + 1 = Len(chunks) THEN chunk' = 0 /\ n_execution' = n_execution + 1
             ELSE chunk' = chunk + 1 /\ n_execution' = n_execution
          /\ counted' = (IF Matched THEN counted \union {<<n_execution, chunk>>} ELSE counted)
          /\ late' = (IF arrayCompleted # Cores THEN late \union {<<n_execution, chunk>>} ELSE late)
      BY <1>5 DEF Collect, splitterVars
    <2>2. n_execution \in Nat /\ chunk \in Nat /\ Len(chunks) \in Nat
      <3>1. chunks \in Seq([from : Nat, len : Nat])
        BY DEF LoaderInv, SplitInv, ReadOK
      <3> QED
        BY <3>1 DEF LoaderInv, TypeOK
    <2>3. ASSUME NEW x \in Searched'
          PROVE  x \in Searched \/ x = <<n_execution, chunk>>
      <3>1. x \in (0 .. Len(job.regex) - 1) \X (0 .. Len(chunks) - 1)
            /\ (x[1] < n_execution' \/ (x[1] = n_execution' /\ x[2] < chunk'))
        BY <1>1, <2>1, <2>3 DEF Searched
      <3>2. x = <<x[1], x[2]>> /\ x[1] \in Int /\ x[2] \in 0 .. Len(chunks) - 1
        BY <3>1
      <3>3. \/ x[1] < n_execution \/ (x[1] = n_execution /\ x[2] < chunk)
            \/ x[1] = n_execution /\ x[2] = chunk
        BY <2>1, <2>2, <3>1, <3>2
      <3> QED
        BY <3>1, <3>2, <3>3 DEF Searched
    <2>4. ASSUME NEW x \in Searched' \ (counted' \union late'), NEW o \in job.regex[x[1] + 1],
                 Within(o.from, o.len, chunks[x[2] + 1])
          PROVE  Escapes(o, x[2] + 1)
      <3>1. CASE x \in Searched
        BY <2>1, <2>4, <3>1 DEF LoaderInv, MissedOnlyThere
      <3>2. CASE x = <<n_execution, chunk>>
        BY <2>1, <2>4, <3>2, UnseenEscapes DEF ChunkFile
      <3> QED
        BY <2>3, <3>1, <3>2
    <2> QED
      BY <1>1, <1>3, <2>1, <2>4 DEF MissedOnlyThere
  <1> QED
    BY <1>2, <1>4, <1>5

-----------------------------------------------------------------------------
(* What the script promises.                                                 *)

\* The script starts in the invariant.
LEMMA LoaderStarts == Init => LoaderInv
  <1> SUFFICES ASSUME Init PROVE LoaderInv
    OBVIOUS
  <1>1. SplitInv
    BY SplitterStarts
  <1>2. /\ phase = "split" /\ chunks = <<>> /\ job \in Jobs /\ file = job.file
        /\ n_execution = 0 /\ chunk = 0 /\ core_data = 0 /\ data_counter = 0
        /\ memory = [k \in Cores |-> <<>>] /\ data_address = [k \in Cores |-> 0]
        /\ search = [k \in Cores |-> "idle"] /\ found = {}
        /\ arrayCompleted = {} /\ result = {} /\ polled = 0 /\ repetitions = 0
        /\ match_count = 0 /\ output = <<>> /\ counted = {}
    BY DEF Init, SplitterInit
  <1>3. /\ number_of_cores \in Nat \ {0} /\ MaxPolls \in Nat \ {0}
        /\ job.regex \in Seq(SUBSET Parts) /\ job.regex # <<>>
    BY <1>2, LoaderAssumption DEF number_of_cores
  <1>4. 0 \in Cores /\ n_execution < Len(job.regex)
    BY <1>2, <1>3 DEF Cores
  <1>5. TypeOK
    BY <1>2, <1>3, <1>4 DEF TypeOK
  <1>6. ChunksOK /\ Places /\ Fate /\ WordsOfChunk /\ Slices /\ Answers
    BY <1>2, <1>4 DEF ChunksOK, Places, Fate, WordsOfChunk, Slices, Answers
  <1>7. Counts
    <2>1. CountedReal /\ OutputReal
      BY <1>2 DEF CountedReal, OutputReal
    <2> QED
      BY <1>2, <2>1, OnlyRealParts DEF Counts
  <1>8. MissedOnlyThere
    <2>1. Searched = {}
      BY <1>2 DEF Searched
    <2> QED
      BY <2>1 DEF MissedOnlyThere
  <1> QED
    BY <1>1, <1>5, <1>6, <1>7, <1>8 DEF LoaderInv

\* Every step keeps the invariant.
LEMMA LoaderGoesOn == LoaderInv /\ [Next]_vars => LoaderInv'
  <1> SUFFICES ASSUME LoaderInv, [Next]_vars PROVE LoaderInv'
    OBVIOUS
  <1>1. SplitInv'
    BY SplitStays DEF LoaderInv
  <1> QED
    BY <1>1, TypeStays, ChunksStay, PlacesStay, FateStays, MemoryStays, SlicesStay, AnswersStay,
       CountsStay, MissedStay DEF LoaderInv

\* So it always holds.
LEMMA LoaderAlways == Spec => []LoaderInv
  BY LoaderStarts, LoaderGoesOn, PTL DEF Spec

\* For every file and size of the chunks, the script fails on a position before
\* the file exactly when one of them is shorter than the overlap, and at the
\* first chunk (loader.py:288).
THEOREM SeekingFails == Spec => []SeeksInFile
  <1>1. LoaderInv => SeeksInFile
    <2> SUFFICES ASSUME LoaderInv PROVE SeeksInFile
      OBVIOUS
    <2>1. AtMost(file.chunk_size, file.length) \in Nat /\ OVERLAPPING \in Nat
      BY OverlappingAssumption DEF LoaderInv, SplitInv, FileOK, AtMost
    <2> QED
      BY <2>1 DEF SeeksInFile, LoaderInv, Fate, Long
  <1> QED
    BY <1>1, LoaderAlways, PTL

\* Whatever the cores' memories and registers were left with, and whatever the
\* speeds of the cores, a chunk is counted only if the expression matches in it
\* (loader.py:268-345).
THEOREM MatchesAreReal == Spec => []OnlyRealMatches
  <1>1. LoaderInv => OnlyRealMatches
    BY DEF LoaderInv, Counts
  <1> QED
    BY <1>1, LoaderAlways, PTL

\* If the host saw all cores complete, a match in a chunk that is not counted is
\* longer than what two slices share, in the last word of the chunk, or on a
\* border of two cores after the second: for every number of cores and size of
\* the overlap (loader.py:275-300).
THEOREM MissedMatchesEscape == Spec => []MissedOnlyThere
  <1>1. LoaderInv => MissedOnlyThere
    BY DEF LoaderInv
  <1> QED
    BY <1>1, LoaderAlways, PTL
=============================================================================
