------------------------------- MODULE ByteOrder -------------------------------
(* webrtc::ByteReader and ByteWriter, external: numbers as bytes, the most       *)
(* significant one first. A buffer is a sequence of bytes.                       *)
EXTENDS Integers, Sequences, SequencesExt

Byte == 0 .. 255
Bit(b, i) == (b \div 2^i) % 2
Mask(n, S) == FoldSet(LAMBDA i, a : a + 2^i, 0, S \cap 0 .. n - 1)

\* The i-th of n bytes of v; TLC's integers end at 31 bits, so do the values used.
ByteOf(v, k) == IF k > 3 THEN (IF v < 0 THEN 255 ELSE 0) ELSE (v \div 256^k) % 256
WriteBE(v, n) == [i \in 1 .. n |-> ByteOf(v, n - i)]

ReadBE(data, offset, n) == FoldLeft(LAMBDA a, b : 256 * a + b, 0, SubSeq(data, offset + 1, offset + n))
ReadSignedBE(data, offset, n) ==
    FoldLeft(LAMBDA a, b : 256 * a + b, IF data[offset + 1] >= 128 THEN -1 ELSE 0,
             SubSeq(data, offset + 1, offset + n))

Refused == <<>>                \* what a parser yields that returns false
Parsed(v) == <<v>>             \* and one that fills v in and returns true
================================================================================
