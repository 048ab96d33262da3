----------------------------- MODULE Compressor -----------------------------
(***************************************************************************)
(* The compressor of the kernel image (common/compressor/compressor.c) and *)
(* the decompressor of the boot loader (decompressor.asm).  The first      *)
(* looks for the longest earlier match with the algorithm of Knuth, Morris *)
(* and Pratt; the second copies whole machine words, aligned to the        *)
(* output, and so past the end of every match.                             *)
(*                                                                         *)
(* One action is one turn of the outer loop of either.  The widths of the  *)
(* fields of a header, the word and the limits are constants.  Bytes are   *)
(* numbered from zero.                                                     *)
(***************************************************************************)
EXTENDS Integers, Sequences, FiniteSetsExt, SequencesExt

CONSTANTS
    Inputs,          \* the data, as sequences
    Word,            \* bytes of a machine word, MATCH_ALIGNMENT: 8
    MinMatch,        \* MIN_MATCH_LENGTH: 4
    MaxNonMatch,     \* MAX_NON_MATCH_LENGTH: 2^14 - 1
    MaxMatch,        \* MAX_MATCH_LENGTH: 2^13 - 1
    WindowSize,      \* WINDOW_SIZE: 2^10 - 1
    MaxPreprocessed, \* MAX_PREPROCESSED_MATCH_LENGTH
    LowLength, HighLength, LowOffset, LowNonMatch, \* 2^7, 2^6, 2^2 and 2^6
    Alignments       \* addresses of the output, modulo Word

VARIABLES
    data, level,     \* the arguments
    offset, non_match_length,
    stream,          \* the compressed bytes
    rdi, rdx, memory, base, \* the decompressor: position, output, its address
    phase

vars == <<data, level, offset, non_match_length, stream, rdi, rdx, memory, base, phase>>

Byte(i) == data[i + 1]
End == -1      \* 0xffff of the search table, and the value of memory not written
Slice(from, n) == SubSeq(data, from + 1, from + n)

Init ==
    /\ data \in Inputs /\ level \in {"none", "full"} /\ base \in Alignments
    /\ offset = 0 /\ non_match_length = 0 /\ stream = <<>>
    /\ rdi = 0 /\ rdx = 0 /\ memory = [i \in 0 .. Len(data) + Word |-> End]
    /\ phase = "compress"

-----------------------------------------------------------------------------
(* _encode_non_match with the bytes that follow it                         *)
NonMatch(from, n) ==
    LET long == n > LowNonMatch - 1
    IN  <<(n % LowNonMatch) * 4 + (IF long THEN 2 ELSE 0)>>
        \o (IF long THEN <<n \div LowNonMatch>> ELSE <<>>) \o Slice(from, n)

EncodedMatch(length, distance) ==
    <<(length % LowLength) * 2 + 1,
      (distance % LowOffset) * HighLength + length \div LowLength,
      distance \div LowOffset>>

(* The search table of the first n bytes at the offset                     *)
RECURSIVE FallBack(_, _, _)
FallBack(table, j, i) ==
    IF j = End \/ Byte(offset + i) = Byte(offset + j) THEN j ELSE FallBack(table, table[j], i)
KmpSearchTable(n) ==
    LET f[i \in 0 .. n - 1] ==
          IF i = 0 THEN [table |-> [k \in 0 .. n - 1 |-> End], j |-> 0]
          ELSE LET last == f[i - 1]
                   same == Byte(offset + i) = Byte(offset + last.j)
                   table == [last.table EXCEPT ![i] = IF same THEN last.table[last.j] ELSE last.j]
               IN  [table |-> table, j |-> (IF same THEN last.j ELSE FallBack(table, last.j, i)) + 1]
    IN  f[n - 1].table

(* The search of the window: i runs through it and j through the pattern;  *)
(* the best match is kept.                                                 *)
Better(best, i, j, window) ==
    IF j > best.length THEN [length |-> j, distance |-> offset + j - window - i] ELSE best

\* Faulty variant: a match may begin closer than a word.
RECURSIVE SearchClose(_, _, _, _, _, _)
SearchClose(i, j, best, n, window, table) ==
    IF j < n /\ i <= offset - window + j - 1
    THEN IF Byte(offset + j) = Byte(window + i) THEN SearchClose(i + 1, j + 1, best, n, window, table)
         ELSE LET k == table[j] IN
              SearchClose(IF k = End THEN i + 1 ELSE i, Max({k, 0}), Better(best, i, j, window),
                          n, window, table)
    ELSE Better(best, i, j, window)

RECURSIVE Search(_, _, _, _, _, _)
Search(i, j, best, n, window, table) ==
    IF j < n /\ i <= offset - window + j - Word
    THEN IF Byte(offset + j) = Byte(window + i) THEN Search(i + 1, j + 1, best, n, window, table)
         ELSE LET k == table[j] IN
              Search(IF k = End THEN i + 1 ELSE i, Max({k, 0}), Better(best, i, j, window),
                     n, window, table)
    ELSE Better(best, i, j, window)

RECURSIVE Extend(_, _, _)
Extend(length, distance, most) ==
    IF length < most /\ Byte(offset + length) = Byte(offset - distance + length)
    THEN Extend(length + 1, distance, most) ELSE length

Match ==
    LET capped == Min({Len(data) - offset, MaxMatch})
        n == Min({capped, MaxPreprocessed})
        window == Max({offset - WindowSize, 0})
        best == Search(0, 0, [length |-> 0, distance |-> 0], n, window, KmpSearchTable(n))
    IN  IF best.length = n THEN [best EXCEPT !.length = Extend(n, best.distance, capped)] ELSE best

Compress ==
    /\ phase = "compress" /\ level = "full" /\ offset < Len(data)
    /\ LET match == Match
           flush == non_match_length = MaxNonMatch \/ (non_match_length > 0 /\ match.length >= MinMatch)
           left == IF flush THEN 0 ELSE non_match_length
           flushed == IF flush THEN NonMatch(offset - non_match_length, non_match_length) ELSE <<>>
       IN  IF match.length < MinMatch
           THEN /\ non_match_length' = left + 1 /\ offset' = offset + 1
                /\ stream' = stream \o flushed
           ELSE /\ non_match_length' = left /\ offset' = offset + match.length
                /\ stream' = stream \o flushed \o EncodedMatch(match.length, match.distance)
    /\ UNCHANGED <<data, level, rdi, rdx, memory, base, phase>>

CompressNone ==
    LET chunk == Min({Len(data) - offset, MaxNonMatch})
    IN  /\ phase = "compress" /\ level = "none" /\ offset < Len(data)
        /\ stream' = stream \o NonMatch(offset, chunk)
        /\ offset' = offset + chunk
        /\ UNCHANGED <<data, level, non_match_length, rdi, rdx, memory, base, phase>>

CompressEnd ==
    /\ phase = "compress" /\ offset = Len(data) /\ phase' = "decompress"
    /\ stream' = IF non_match_length > 0
                 THEN stream \o NonMatch(offset - non_match_length, non_match_length) ELSE stream
    /\ UNCHANGED <<data, level, offset, non_match_length, rdi, rdx, memory, base>>

-----------------------------------------------------------------------------
(* Words are copied from the stream or from the output.  A word read past  *)
(* the end of the stream is not defined.                                   *)
Read(m, source, i) ==
    IF source = "memory" THEN m[i]
    ELSE IF i < Len(stream) THEN stream[i + 1] ELSE End
CopyWord(m, to, source, from) ==
    [i \in DOMAIN m |-> IF i \in to .. to + Word - 1 THEN Read(m, source, from + i - to) ELSE m[i]]

(* _process_chunk: one word up to the next aligned address, unless it is   *)
(* all, then word by word                                                  *)
ProcessChunk(source, from, n) ==
    LET lead == (-(base + rdx)) % Word
        first == IF lead = 0 THEN memory ELSE CopyWord(memory, rdx, source, from)
        words == (n - lead + Word - 1) \div Word
        step(m, k) == CopyWord(m, rdx + lead + (k - 1) * Word, source, from + lead + (k - 1) * Word)
    IN  IF lead > 0 /\ lead >= n THEN first
        ELSE FoldLeft(step, first, [k \in 1 .. words |-> k])

ReadMatch ==
    LET header == stream[rdi + 1]
        second == stream[rdi + 2]
        n == (second % HighLength) * LowLength + header \div 2
        distance == stream[rdi + 3] * LowOffset + second \div HighLength
    IN  /\ header % 2 = 1
        /\ memory' = ProcessChunk("memory", rdx - distance, n)
        /\ rdi' = rdi + 3 /\ rdx' = rdx + n

ReadNonMatch ==
    LET header == stream[rdi + 1]
        long == (header \div 2) % 2 = 1
        n == header \div 4 + (IF long THEN stream[rdi + 2] * LowNonMatch ELSE 0)
        from == IF long THEN rdi + 2 ELSE rdi + 1
    IN  /\ header % 2 = 0
        /\ memory' = ProcessChunk("stream", from, n)
        /\ rdi' = from + n /\ rdx' = rdx + n

Decompress ==
    /\ phase = "decompress" /\ rdi < Len(stream) /\ (ReadMatch \/ ReadNonMatch)
    /\ UNCHANGED <<data, level, offset, non_match_length, stream, base, phase>>

Next == Compress \/ CompressNone \/ CompressEnd \/ Decompress

Spec == Init /\ [][Next]_vars

-----------------------------------------------------------------------------
(* What the decompressor has written is the beginning of the data, and all *)
(* of it at the end, although it writes whole words over each other.       *)
DataIsRestored ==
    /\ \A i \in 0 .. rdx - 1 : memory[i] = Byte(i)
    /\ phase = "decompress" /\ rdi = Len(stream) => rdx = Len(data)

(* The search finds the longest match of the window: no earlier bytes, a   *)
(* word or more away, agree with more of those to come.                    *)
MatchIsLongest ==
    LET most == Min({Len(data) - offset, MaxPreprocessed})
    IN  phase = "compress" /\ level = "full" /\ most > 0 =>
          \A w \in Max({offset - WindowSize, 0}) .. offset - Word, n \in 1 .. most :
              Slice(w, n) = Slice(offset, n) => n <= Match.length
=============================================================================
