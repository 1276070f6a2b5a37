---------------------------- MODULE MCFpgaLoader ----------------------------
(***************************************************************************)
(* Files, cores and expressions for FpgaLoader.                            *)
(***************************************************************************)
EXTENDS FpgaLoader

MCJob(length, chunk_size, cores, regex) ==
    [file |-> [length |-> length, chunk_size |-> chunk_size],
     number_of_cores |-> cores, regex |-> regex]

MCAt(p, len) == {[from |-> p, len |-> len]}

\* Files shorter than the overlap, of one chunk, and of several; one core, two
\* whose slices overlap, and four, of which the third and fourth do not.
MCSizes == {<<4, 9>>, <<5, 9>>, <<20, 4>>, <<20, 5>>, <<9, 9>>, <<10, 9>>, <<20, 14>>, <<12, 20>>}

MCJobs ==
    {MCJob(size[1], size[2], cores, <<MCAt(0, 2), {}>>) : size \in MCSizes, cores \in {1, 2}}
    \union
    {MCJob(24, 16, 2, <<MCAt(p, len)>>) : p \in {0, 7, 8, 9, 13, 20}, len \in {2, 4}}
    \union
    {MCJob(26, 24, cores, <<MCAt(p, 2)>>) : p \in {12, 13, 21}, cores \in {1, 2}}
    \union
    {MCJob(82, 82, 2, <<MCAt(p, len)>>) : p \in {0, 58, 63, 66, 68, 76}, len \in {4, 6}}
    \union
    {MCJob(120, 120, 4, <<MCAt(p, 4)>>) : p \in {50, 58, 105, 110}}
=============================================================================
