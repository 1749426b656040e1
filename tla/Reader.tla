------------------------------- MODULE Reader -------------------------------
(***************************************************************************)
(* The Reader of src/bytes/reader.go: a read-only cursor over a byte       *)
(* slice, with an index i that Seek may put anywhere from 0 on, the slice's*)
(* end included and beyond, and the index prevRune of the rune that        *)
(* UnreadRune takes back.                                                  *)
(*                                                                         *)
(* A byte is told apart by its class only: ASCII, the lead byte of a rune  *)
(* of two bytes, a continuation byte.  int64 is modelled as a signed       *)
(* integer of Width bits, so that the sums of Seek overflow as they do.    *)
(***************************************************************************)
EXTENDS Integers, Sequences

CONSTANTS
    Ascii,      \* the bytes below utf8.RuneSelf
    Lead,       \* the bytes that start a rune of two bytes
    Cont,       \* the continuation bytes
    RuneError,  \* utf8.RuneError
    MaxLen,     \* bound: the longest slice, and the longest buffer, tried
    Width       \* bound: the bits of an int64 of the model

Bytes  == Ascii \cup Lead \cup Cont
MaxInt == 2 ^ (Width - 1) - 1
MinInt == - (2 ^ (Width - 1))
Int64  == MinInt .. MaxInt

ASSUME /\ MaxLen \in Nat /\ Width \in Nat \ {0}
       /\ MaxLen <= MaxInt
       /\ RuneError \notin Bytes

VARIABLES
    s,          \* r.s, indexed from 1 here
    i,          \* r.i
    prevRune,   \* r.prevRune
    result      \* the last call: [op, n, err, out]

vars == <<s, i, prevRune, result>>

Slices == UNION {[1 .. n -> Bytes] : n \in 0 .. MaxLen}

-----------------------------------------------------------------------------
(* Helpers *)

\* A sum of two int64.
Wrap(x) == ((x - MinInt) % 2 ^ Width) + MinInt

\* r.s[from:], `from` counted from 0.
From(from) == SubSeq(s, from + 1, Len(s))

\* copy(b, src) for a b of length lenb: what lands in b.
copy(lenb, src) == SubSeq(src, 1, IF lenb < Len(src) THEN lenb ELSE Len(src))

\* utf8.DecodeRune of a slice that starts with no ASCII byte: two bytes when
\* a lead byte is followed by a continuation byte, RuneError and one byte
\* in every other case.
DecodeRune(p) ==
    IF p[1] \in Lead /\ Len(p) >= 2 /\ p[2] \in Cont
    THEN [ch |-> SubSeq(p, 1, 2), size |-> 2]
    ELSE [ch |-> <<RuneError>>, size |-> 1]

Returns(op, n, err, out) == result' = [op |-> op, n |-> n, err |-> err, out |-> out]

\* Len: the bytes not yet read.
ReaderLen == IF i >= Len(s) THEN 0 ELSE Len(s) - i

Size == Len(s)

-----------------------------------------------------------------------------
(* The methods *)

Read(lenb) ==
    \/ /\ i >= Len(s)
       /\ Returns("Read", 0, "EOF", <<>>)
       /\ UNCHANGED <<s, i, prevRune>>
    \/ /\ i < Len(s)
       /\ prevRune' = -1
       /\ i' = i + Len(copy(lenb, From(i)))
       /\ Returns("Read", Len(copy(lenb, From(i))), "nil", copy(lenb, From(i)))
       /\ UNCHANGED s

ReadAt(lenb, off) ==
    /\ \/ off < 0 /\ Returns("ReadAt", 0, "negative offset", <<>>)
       \/ off >= Len(s) /\ Returns("ReadAt", 0, "EOF", <<>>)
       \/ /\ off \in 0 .. Len(s) - 1
          /\ LET b == copy(lenb, From(off))
             IN  Returns("ReadAt", Len(b), IF Len(b) < lenb THEN "EOF" ELSE "nil", b)
    /\ UNCHANGED <<s, i, prevRune>>

ReadByte ==
    /\ prevRune' = -1
    /\ \/ i >= Len(s) /\ Returns("ReadByte", 0, "EOF", <<>>) /\ UNCHANGED i
       \/ i < Len(s) /\ Returns("ReadByte", 1, "nil", <<s[i + 1]>>) /\ i' = i + 1
    /\ UNCHANGED s

\* r.i-- unless the index is at the beginning.
stepBack ==
    \/ i <= 0 /\ Returns("UnreadByte", 0, "at beginning of slice", <<>>) /\ UNCHANGED i
    \/ i > 0 /\ Returns("UnreadByte", 0, "nil", <<>>) /\ i' = i - 1

\* A plausible slip: prevRune is left as it is.
UnreadByteKeeps == stepBack /\ UNCHANGED <<s, prevRune>>

UnreadByte == prevRune' = -1 /\ stepBack /\ UNCHANGED s

\* The rune that starts at index p: an ASCII byte, or what DecodeRune finds.
RuneAt(p) ==
    IF s[p + 1] \in Ascii THEN [ch |-> <<s[p + 1]>>, size |-> 1] ELSE DecodeRune(From(p))

\* ReadRune at the end of the slice.
runeEOF ==
    /\ i >= Len(s)
    /\ prevRune' = -1
    /\ Returns("ReadRune", 0, "EOF", <<>>)
    /\ UNCHANGED <<s, i>>

\* A plausible slip: the index moves by one byte whatever the rune's size.
ReadRuneByOne ==
    \/ runeEOF
    \/ /\ i < Len(s)
       /\ prevRune' = i
       /\ i' = i + 1
       /\ Returns("ReadRune", RuneAt(i).size, "nil", RuneAt(i).ch)
       /\ UNCHANGED s

ReadRune ==
    \/ runeEOF
    \/ /\ i < Len(s)
       /\ prevRune' = i
       /\ i' = i + RuneAt(i).size
       /\ Returns("ReadRune", RuneAt(i).size, "nil", RuneAt(i).ch)
       /\ UNCHANGED s

UnreadRune ==
    /\ \/ /\ prevRune < 0
          /\ Returns("UnreadRune", 0, "previous operation was not ReadRune", <<>>)
          /\ UNCHANGED <<i, prevRune>>
       \/ /\ prevRune >= 0
          /\ i' = prevRune
          /\ prevRune' = -1
          /\ Returns("UnreadRune", 0, "nil", <<>>)
    /\ UNCHANGED s

\* The position `whence` and `offset` name; None for a whence Seek rejects.
abs(offset, whence) ==
    CASE whence = "SeekStart"   -> offset
      [] whence = "SeekCurrent" -> Wrap(i + offset)
      [] whence = "SeekEnd"     -> Wrap(Len(s) + offset)
      [] OTHER                  -> MinInt - 1

\* A plausible slip: the test for a negative position is left out.
SeekUnchecked(offset, whence) ==
    /\ prevRune' = -1
    /\ i' = abs(offset, whence)
    /\ Returns("Seek", abs(offset, whence), "nil", <<>>)
    /\ UNCHANGED s

Seek(offset, whence) ==
    /\ prevRune' = -1
    /\ \/ /\ abs(offset, whence) \notin Int64
          /\ Returns("Seek", 0, "invalid whence", <<>>)
          /\ UNCHANGED i
       \/ /\ abs(offset, whence) \in MinInt .. -1
          /\ Returns("Seek", 0, "negative position", <<>>)
          /\ UNCHANGED i
       \/ /\ abs(offset, whence) \in 0 .. MaxInt
          /\ i' = abs(offset, whence)
          /\ Returns("Seek", abs(offset, whence), "nil", <<>>)
    /\ UNCHANGED s

\* The error WriterTo returns after w.Write took m of the bytes of b.
shortWrite(m, b, err) == IF m # Len(b) /\ err = "nil" THEN "ErrShortWrite" ELSE err

\* w.Write is the caller's: it may take any count of the bytes, report more
\* than it was given, and fail or not.
WriterTo(m, err) ==
    /\ prevRune' = -1
    /\ \/ i >= Len(s) /\ Returns("WriterTo", 0, "nil", <<>>) /\ UNCHANGED i
       \/ /\ i < Len(s)
          /\ \/ /\ m > Len(From(i))
                /\ Returns("WriterTo", 0, "panic", <<>>)
                /\ UNCHANGED i
             \/ /\ m <= Len(From(i))
                /\ i' = i + m
                /\ Returns("WriterTo", m, shortWrite(m, From(i), err), SubSeq(From(i), 1, m))
    /\ UNCHANGED s

Reset(b) ==
    /\ s' = b
    /\ i' = 0
    /\ prevRune' = -1
    /\ Returns("Reset", 0, "nil", <<>>)

\* NewReader(b).
Init ==
    /\ s \in Slices
    /\ i = 0
    /\ prevRune = -1
    /\ result = [op |-> "NewReader", n |-> 0, err |-> "nil", out |-> <<>>]

Whences == {"SeekStart", "SeekCurrent", "SeekEnd", "other"}

Next ==
    \/ \E lenb \in 0 .. MaxLen : Read(lenb)
    \/ \E lenb \in 0 .. MaxLen, off \in Int64 : ReadAt(lenb, off)
    \/ ReadByte \/ UnreadByte \/ ReadRune \/ UnreadRune
    \/ \E offset \in Int64, whence \in Whences : Seek(offset, whence)
    \/ \E m \in 0 .. MaxLen + 1, err \in {"nil", "write error"} : WriterTo(m, err)
    \/ \E b \in Slices : Reset(b)

Spec == Init /\ [][Next]_vars

-----------------------------------------------------------------------------
(* Properties *)

Errors == {"nil", "EOF", "negative offset", "at beginning of slice",
           "previous operation was not ReadRune", "invalid whence",
           "negative position", "ErrShortWrite", "write error", "panic"}

\* Type invariant.  That i is an int64 and not negative is what Seek's sums
\* and its test of abs keep: r.s[r.i:] panics on a negative index.
TypeOK ==
    /\ s \in Slices
    /\ i \in 0 .. MaxInt
    /\ prevRune \in -1 .. MaxLen - 1
    /\ result.op \in {"NewReader", "Read", "ReadAt", "ReadByte", "UnreadByte",
                      "ReadRune", "UnreadRune", "Seek", "WriterTo", "Reset"}
    /\ result.n \in 0 .. MaxInt
    /\ result.err \in Errors
    /\ result.out \in Seq(Bytes \cup {RuneError})

\* While prevRune is set it is the start of the rune that ends where the
\* index stands: every method that moves the index or changes the slice
\* (Read, ReadByte, UnreadByte, Seek, WriterTo, Reset) forgets it, so that
\* UnreadRune steps back over exactly one rune.
PrevRuneIsLastRune ==
    prevRune >= 0 =>
        /\ prevRune < Len(s)
        /\ i = prevRune + RuneAt(prevRune).size

\* What a call hands out is the slice from where the index stood to where
\* it stands, and the count it returns is the distance: Read, ReadByte,
\* ReadRune of a well-formed rune, and WriterTo, up to what w.Write took.
Delivers ==
    [][/\ result'.op \in {"Read", "ReadByte", "ReadRune", "WriterTo"}
       /\ result'.out # <<RuneError>>
       /\ result'.err # "panic"
       => /\ result'.out = SubSeq(s, i + 1, i')
          /\ result'.n = i' - i \/ result'.err = "EOF"]_vars

=============================================================================
