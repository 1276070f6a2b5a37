----------------------------- MODULE FpgaLoader -----------------------------
(***************************************************************************)
(* loader.py: for every expression and every chunk file, the chunk is cut  *)
(* into one slice per core, the slices are written into the cores' memories*)
(* four bytes a word, the cores search at the same time, and the host polls*)
(* them, ten times at most.  The cores are hardware that is not part of    *)
(* the repository; they are modelled by what the script expects of their   *)
(* registers.                                                              *)
(***************************************************************************)
EXTENDS DataSplitter, FiniteSets, Functions

CONSTANTS
    MaxPolls,       \* the bound on repetitions: 10
    ClearedPast,    \* words cleared past init_data_n: 150
    SearchedPast,   \* words searched past init_data_n: 128
    Jobs            \* the files, numbers of cores and expressions of a run

\* A part of the file.
Parts == [from : Nat, len : Nat \ {0}]

ASSUME LoaderAssumption ==
    /\ MaxPolls \in Nat \ {0}
    /\ SearchedPast \in Nat /\ ClearedPast \in Nat /\ SearchedPast < ClearedPast
    \* An expression is given by where in the file it matches.
    /\ \A j \in Jobs :
          /\ j.file.length \in Nat \ {0} /\ j.file.chunk_size \in Nat \ {0}
          /\ j.number_of_cores \in Nat \ {0}
          /\ j.regex \in Seq(SUBSET Parts) /\ j.regex # <<>>
          /\ \A e \in DOMAIN j.regex : \A o \in j.regex[e] : o.from + o.len <= j.file.length

VARIABLES
    job,
    phase,          \* "split", "prepare", "load", "poll", "done" or "failed"
    n_execution,    \* the expression
    chunk,          \* the chunk file
    core_data,      \* the core whose slice is loaded
    data_counter,   \* bytes of the chunk counted as read
    memory,         \* of each core, its words that are not zero: parts of the file
    data_address,   \* of each core, the address register
    search,         \* what each core does: "idle", "searching" or "complete"
    found,          \* bit 1 of a core's result register
    arrayCompleted, \* the cores seen complete
    result,         \* the cores whose result was read last with the found bit
    polled,         \* the core polled next
    repetitions,
    match_count,
    output,         \* output.txt: a count per expression
    counted,        \* history: the chunks counted for this expression
    late            \* history: the chunks some core was not seen complete for

position  == <<job, n_execution, chunk>>
registers == <<memory, data_address>>
loading   == <<core_data, data_counter>>
polling   == <<arrayCompleted, result, polled, repetitions>>
counts    == <<match_count, output, counted, late>>
vars == <<splitterVars, position, phase, registers, loading, search, found, polling, counts>>

number_of_cores == job.number_of_cores
Cores == 0 .. number_of_cores - 1

\* The chunk file being searched, and how many characters it has.
ChunkFile == chunks[chunk + 1]
char_counter == ChunkFile.len

\* What each core clears and searches past, and how many words it is given.
init_data_n == (char_counter \div number_of_cores) + OVERLAPPING
batch_size  == (char_counter \div (4 * number_of_cores)) + OVERLAPPING

Init ==
    /\ job \in Jobs
    /\ file = job.file
    /\ SplitterInit
    /\ phase = "split"
    /\ n_execution = 0 /\ chunk = 0 /\ core_data = 0 /\ data_counter = 0
    /\ memory = [k \in Cores |-> <<>>] /\ data_address = [k \in Cores |-> 0]
    /\ search = [k \in Cores |-> "idle"] /\ found = {}
    /\ arrayCompleted = {} /\ result = {} /\ polled = 0 /\ repetitions = 0
    /\ match_count = 0 /\ output = <<>> /\ counted = {} /\ late = {}

\* data_splitter.py runs first.
SplitStep ==
    /\ phase = "split"
    /\ WriteChunk
    /\ UNCHANGED <<position, phase, registers, loading, search, found, polling, counts>>

EndSplit ==
    /\ phase = "split" /\ SplitterDone
    /\ phase' = "prepare"
    /\ UNCHANGED <<splitterVars, position, registers, loading, search, found, polling, counts>>

\* Mutant of Cleared: the memory keeps what the last chunk left in it.
Cleared_Not(words, number) == words

\* The words of a memory after those below number are set to zero.
Cleared(words, number) == Restrict(words, {a \in DOMAIN words : a >= number})

\* The cores are reset, given the instructions and cleared.
Prepare ==
    /\ phase = "prepare"
    /\ phase' = "load"
    /\ search' = [k \in Cores |-> "idle"] /\ found' = {}
    /\ memory' = [k \in Cores |-> Cleared(memory[k], init_data_n + ClearedPast)]
    /\ data_address' = [k \in Cores |-> init_data_n + ClearedPast - 1]
    /\ core_data' = 0 /\ data_counter' = 0
    /\ UNCHANGED <<splitterVars, position, polling, counts>>

\* Mutant of Sought: a core's slice follows the one before it.
Sought_NoOverlap(counter) == counter

\* The position sought after a slice.
Sought(counter) == counter - OVERLAPPING

\* Where in the chunk the slice of the core being loaded begins.
SliceStart == IF core_data = 0 THEN 0 ELSE Sought(data_counter)

\* How many words are read for it before its memory is full or the file ends.
SliceWords == AtMost(batch_size, (char_counter - SliceStart + 3) \div 4)

\* The last word of the file holds what is left of it.
SliceWord(j) ==
    [from |-> ChunkFile.from + SliceStart + 4 * j,
     len  |-> AtMost(4, char_counter - SliceStart - 4 * j)]

\* A memory with the words of the slice.
Filled(words) ==
    [a \in DOMAIN words \union 0 .. SliceWords - 1 |->
        IF a < SliceWords THEN SliceWord(a) ELSE words[a]]

\* A word counts as four bytes.  Seeking before the file is an error.
LoadCore ==
    /\ phase = "load" /\ core_data < number_of_cores
    /\ memory' = [memory EXCEPT ![core_data] = Filled(@)]
    /\ data_address' = [data_address EXCEPT ![core_data] = SliceWords - 1]
    /\ data_counter' = data_counter + 4 * SliceWords
    /\ core_data' = core_data + 1
    /\ phase' = IF Sought(data_counter') < 0 THEN "failed" ELSE "load"
    /\ UNCHANGED <<splitterVars, position, search, found, polling, counts>>

\* The data register is set to zero while write enable is still on, so the word
\* at the address register may become zero; then the search is enabled.
Start ==
    /\ phase = "load" /\ core_data = number_of_cores
    /\ \E stored \in BOOLEAN :
          memory' = IF stored
                    THEN [k \in Cores |->
                            Restrict(memory[k], DOMAIN memory[k] \ {data_address[k]})]
                    ELSE memory
    /\ phase' = "poll"
    /\ search' = [k \in Cores |-> "searching"]
    /\ arrayCompleted' = {} /\ result' = {} /\ polled' = 0 /\ repetitions' = 0
    /\ UNCHANGED <<splitterVars, position, data_address, loading, found, counts>>

\* What is at a byte of a memory: a position of the file, or -1 for zero.  The
\* characters of a word are at its low end.
ByteAt(words, i) ==
    LET a == i \div 4
        skipped == 4 - words[a].len
    IN IF a \in DOMAIN words /\ a <= init_data_n + SearchedPast /\ i % 4 >= skipped
       THEN words[a].from + (i % 4) - skipped
       ELSE -1

\* The match is in the part of the memory that is searched.
Holds(words, match) ==
    \E a \in DOMAIN words : \E b \in 0 .. 3 : \A d \in 0 .. match.len - 1 :
        ByteAt(words, 4 * a + b + d) = match.from + d

\* A core ends its search, at any time or never.
CoreCompletes(k) ==
    /\ phase = "poll" /\ search[k] = "searching"
    /\ search' = [search EXCEPT ![k] = "complete"]
    /\ found' = IF \E match \in job.regex[n_execution + 1] : Holds(memory[k], match)
                THEN found \union {k} ELSE found
    /\ UNCHANGED <<splitterVars, position, phase, registers, loading, polling, counts>>

\* Mutant of Counted: a round that sees no core complete is not counted.
Counted_Progress(completed) ==
    IF completed # arrayCompleted THEN repetitions + 1 ELSE repetitions

\* The rounds of polling, after one more.
Counted(completed) == repetitions + 1

\* The loop's condition is looked at when a round begins.
Polling ==
    /\ phase = "poll"
    /\ (polled # 0 \/ (arrayCompleted # Cores /\ repetitions < MaxPolls))

\* The result register of the next core is read, unless it was seen complete.
Poll ==
    /\ Polling
    /\ IF polled \in arrayCompleted
       THEN UNCHANGED <<arrayCompleted, result>>
       ELSE /\ result' = IF polled \in found THEN result \union {polled} ELSE result \ {polled}
            /\ arrayCompleted' = IF search[polled] = "complete"
                                 THEN arrayCompleted \union {polled} ELSE arrayCompleted
    /\ polled' = (polled + 1) % number_of_cores
    /\ repetitions' = IF polled' = 0 THEN Counted(arrayCompleted') ELSE repetitions
    /\ UNCHANGED <<splitterVars, position, phase, registers, loading, search, found, counts>>

Matched == result # {}

\* The results are counted and the cores reset; the next chunk follows, or the
\* count is written and the next expression follows.
Collect ==
    LET matches == IF Matched THEN match_count + 1 ELSE match_count
        lastChunk == chunk + 1 = Len(chunks)
    IN /\ phase = "poll" /\ ~Polling
       /\ search' = [k \in Cores |-> "idle"] /\ found' = {}
       /\ chunk' = IF lastChunk THEN 0 ELSE chunk + 1
       /\ n_execution' = IF lastChunk THEN n_execution + 1 ELSE n_execution
       /\ match_count' = IF lastChunk THEN 0 ELSE matches
       /\ output' = IF lastChunk THEN Append(output, matches) ELSE output
       /\ counted' = IF Matched THEN counted \union {<<n_execution, chunk>>} ELSE counted
       /\ late' = IF arrayCompleted # Cores THEN late \union {<<n_execution, chunk>>} ELSE late
       /\ phase' = IF n_execution' < Len(job.regex) THEN "prepare" ELSE "done"
       /\ UNCHANGED <<splitterVars, job, registers, loading, polling>>

\* The script has ended.
Ended == phase \in {"done", "failed"} /\ UNCHANGED vars

Script == SplitStep \/ EndSplit \/ Prepare \/ LoadCore \/ Start \/ Poll \/ Collect

Next ==
    \/ SplitStep
    \/ EndSplit
    \/ Prepare
    \/ LoadCore
    \/ Start
    \/ \E k \in Cores : CoreCompletes(k)
    \/ Poll
    \/ Collect
    \/ Ended

Spec == Init /\ [][Next]_vars

\* The script runs; nothing makes a core complete.
FairSpec == Spec /\ WF_vars(Script)
-----------------------------------------------------------------------------
TypeOK ==
    /\ phase \in {"split", "prepare", "load", "poll", "done", "failed"}
    /\ n_execution \in 0 .. Len(job.regex) /\ chunk \in Nat
    /\ core_data \in 0 .. number_of_cores /\ data_counter \in Nat
    /\ \A k \in Cores : \A a \in DOMAIN memory[k] : a \in Nat /\ memory[k][a] \in Parts
    /\ search \in [Cores -> {"idle", "searching", "complete"}]
    /\ found \subseteq Cores /\ arrayCompleted \subseteq Cores /\ result \subseteq Cores
    /\ polled \in Cores /\ repetitions \in 0 .. MaxPolls

\* The script fails on a position before the file exactly when the file or the
\* size of a chunk is shorter than the overlap; of the later chunks, which the
\* splitter starts inside the first, none is (data_splitter.py:22, loader.py:288).
SeeksInFile ==
    /\ TypeOK
    /\ LET short == AtMost(file.chunk_size, file.length) + 3 < OVERLAPPING
       IN (phase = "failed" => short /\ chunk = 0) /\ (phase = "done" => ~short)

\* A chunk is counted only if the expression matches in it, whatever the chunk
\* before it left in the cores' memories and registers, and what is written for
\* an expression is at most the number of such chunks.
OnlyRealMatches ==
    LET matched(e) ==
          {c \in 1 .. Len(chunks) :
             \E o \in job.regex[e] : Within(o.from, o.len, chunks[c])}
    IN /\ \A x \in counted : x[2] + 1 \in matched(x[1] + 1)
       /\ \A e \in DOMAIN output : output[e] <= Cardinality(matched(e))

\* The chunks that have been searched for an expression.
Searched ==
    {x \in (0 .. Len(job.regex) - 1) \X (0 .. Len(chunks) - 1) :
        x[1] < n_execution \/ (x[1] = n_execution /\ x[2] < chunk)}

\* Where a match of chunk c escapes the cores: it is longer than what two
\* slices share, it is at the end of the chunk, in the last word, or it is on
\* the border of two cores after the second, whose slices share nothing.
Escapes(o, c) ==
    LET first == o.from - chunks[c].from
        last  == first + o.len
        batch == (chunks[c].len \div (4 * number_of_cores)) + OVERLAPPING
    IN \/ o.len > OVERLAPPING - 3
       \/ last > 4 * ((chunks[c].len - 1) \div 4)
       \/ \E k \in 2 .. number_of_cores - 1 :
             LET border == 4 * batch * k - OVERLAPPING
             IN first < border /\ last > border - 4

\* If all cores were seen complete, a chunk in which the expression matches is
\* counted unless every match is where it escapes the cores.
MissedOnlyThere ==
    \A x \in Searched \ (counted \union late) :
        \A o \in job.regex[x[1] + 1] :
            Within(o.from, o.len, chunks[x[2] + 1]) => Escapes(o, x[2] + 1)

\* The script ends though no core ever does (repetitions, loader.py:329).
Ends == <>(phase \in {"done", "failed"})
=============================================================================
