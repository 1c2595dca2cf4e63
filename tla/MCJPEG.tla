-------------------------------- MODULE MCJPEG --------------------------------
(* Files of one scan and of up to MaxScans, with segments to skip, the long one
   longer than the buffer, and every such file cut off anywhere. *)
EXTENDS JPEGDecode

CONSTANTS MaxScans, Trailing   \* how many bytes are behind the end of the image

Bytes == {"H", "P", "M", "A", "C", "n", "x", "B", "d", "p", "E", "r", "s"}

xs(n) == [i \in 1..n |-> "x"]
LongSegment == <<"M", "A", "n">> \o xs(Long)
ShortSegment == <<"M", "C", "n">> \o xs(Short)
Scan(k) == <<"M", "B", k>> \o [i \in 1 .. 2 * Rows |-> IF i % 2 = 1 THEN "r" ELSE "s"]

(* n more scans, a short segment in front of each second one. *)
Finer[n \in 0..MaxScans] ==
  IF n = 0 THEN <<>>
  ELSE (IF n % 2 = 1 THEN ShortSegment ELSE <<>>) \o Scan("p") \o Finer[n - 1]

Single == <<"H">> \o LongSegment \o <<"x">> \o Scan("d") \o EOI
Several(n) == <<"P">> \o Scan("d") \o Finer[n - 1] \o EOI

WholeFiles == {Single \o xs(n) : n \in Trailing}
              \cup {<<"H">> \o Scan("d") \o LongSegment \o EOI,
               <<"H">> \o ShortSegment \o Scan("d") \o Scan("d") \o EOI}
              \cup {Several(n) \o xs(m) : n \in 2..MaxScans, m \in Trailing}
MCFiles == WholeFiles \cup UNION {{SubSeq(f, 1, n) : n \in 0..Len(f)} :
                                    f \in {Single, Several(MaxScans)}}
MCSkips == {Long, Short, 2 * MaxSize}
=============================================================================
