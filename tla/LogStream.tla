------------------------------ MODULE LogStream ------------------------------
(***************************************************************************)
(* LogStream on its FixedBuffer (log_stream.h, log_stream.cpp), as a       *)
(* Logger uses it for one line: the time and the level, what the program   *)
(* streams, and the file and line at the end.  A character is a code: a    *)
(* digit's value, or one of the codes below.                               *)
(***************************************************************************)
EXTENDS Integers, Sequences, SequencesExt

CONSTANTS
  Size,               \* kSmallBuffer
  kMaxNumericSize,
  Header, TextSizes,  \* length of time and level; lengths of texts streamed
  Ints, Pointers      \* values streamed

ASSUME StreamAssumption ==
  /\ Size \in Nat \ {0} /\ kMaxNumericSize \in Nat
  /\ TextSizes \subseteq Nat /\ Header \in Nat
  /\ Ints \subseteq Int /\ Pointers \subseteq Nat

MinusSign == 16
HexMark   == 17
Letter    == 18
Newline   == 19

VARIABLES
  stream,   \* buffer_, up to cur_
  kept,     \* the numbers in it: where they start and end, and which
  ended     \* ~Logger has written the end of the line

streamVars == <<stream, kept, ended>>

StreamTypeOK ==
  /\ stream \in Seq(0 .. Newline)
  /\ ended \in BOOLEAN

-----------------------------------------------------------------------------
avail(b) == Size - Len(b)

(* FixedBuffer::append: all or nothing.                                    *)
FixedBuffer_append(b, s) == IF avail(b) > Len(s) THEN b \o s ELSE b

(* C's division, towards zero, and its remainder.                          *)
Quotient(i, n) == IF i >= 0 THEN i \div n ELSE -((-i) \div n)
Remainder(i, n) == i - n * Quotient(i, n)

(* Mutant: the table has no half for negative remainders.                  *)
zero_Half == [lsd \in -9 .. 9 |-> lsd]

(* The table behind zero: "9876543210123456789" seen from its middle.      *)
zero == [lsd \in -9 .. 9 |-> IF lsd < 0 THEN -lsd ELSE lsd]

(* The loops of convert and convertHex: the digits, the last one first.    *)
Decimals[i \in Int] ==
  <<zero[Remainder(i, 10)]>> \o
    (IF Quotient(i, 10) # 0 THEN Decimals[Quotient(i, 10)] ELSE <<>>)

HexDigits[i \in Nat] ==
  <<i % 16>> \o (IF i \div 16 # 0 THEN HexDigits[i \div 16] ELSE <<>>)

convert(v) == Reverse(Decimals[v] \o (IF v < 0 THEN <<MinusSign>> ELSE <<>>))

convertHex(v) == Reverse(HexDigits[v])

(* What kMaxNumericSize is for: room for the characters of every integer   *)
(* and of every pointer, and for the NUL behind them.                      *)
ASSUME NumericAssumption ==
  /\ \A v \in Ints : Len(convert(v)) < kMaxNumericSize
  /\ \A v \in Pointers : Len(convertHex(v)) + 2 < kMaxNumericSize

(* Mutant: as many characters as the digits need, and no more.             *)
formatInteger_Tight(b, v) == IF avail(b) >= Len(convert(v)) THEN b \o convert(v) ELSE b

formatInteger(b, v) == IF avail(b) >= kMaxNumericSize THEN b \o convert(v) ELSE b

formatPointer(b, v) ==
  IF avail(b) >= kMaxNumericSize THEN b \o <<0, HexMark>> \o convertHex(v) ELSE b

Text(n) == [i \in 1 .. n |-> Letter]

-----------------------------------------------------------------------------
(* The Logger is made: time and level.                                     *)
StreamInit ==
  /\ stream = FixedBuffer_append(<<>>, Text(Header))
  /\ kept = {}
  /\ ended = FALSE

(* operator<< of a bool, a char, a string, a StringPiece, a Fmt, a Buffer. *)
StreamText(n) ==
  /\ ~ended
  /\ stream' = FixedBuffer_append(stream, Text(n))
  /\ UNCHANGED <<kept, ended>>

(* operator<< of the integers.                                             *)
StreamInt(v) ==
  /\ ~ended
  /\ stream' = formatInteger(stream, v)
  /\ kept' = IF stream' = stream THEN kept
             ELSE kept \cup {[from |-> Len(stream) + 1, to |-> Len(stream'), base |-> 10,
                              value |-> v]}
  /\ UNCHANGED ended

(* operator<< of a pointer.                                                *)
StreamPointer(v) ==
  /\ ~ended
  /\ stream' = formatPointer(stream, v)
  /\ kept' = IF stream' = stream THEN kept
             ELSE kept \cup {[from |-> Len(stream) + 3, to |-> Len(stream'), base |-> 16,
                              value |-> v]}
  /\ UNCHANGED ended

(* ~Logger: " - ", the file, ':', the line number and '\n', each of which  *)
(* may not fit.                                                            *)
EndLine(n, v) ==
  /\ ~ended
  /\ ended' = TRUE
  /\ LET file == FixedBuffer_append(FixedBuffer_append(stream, Text(3)), Text(n))
         num  == formatInteger(FixedBuffer_append(file, Text(1)), v)
     IN stream' = FixedBuffer_append(num, <<Newline>>)
  /\ UNCHANGED kept

StreamNext ==
  \/ \E n \in TextSizes : StreamText(n)
  \/ \E v \in Ints : StreamInt(v)
  \/ \E v \in Pointers : StreamPointer(v)
  \/ \E n \in TextSizes, v \in Ints \cap Nat : EndLine(n, v)

-----------------------------------------------------------------------------
(* What the digits of a number say, and its characters with the sign.      *)
Value(s, base) ==
  LET val[k \in 0 .. Len(s)] == IF k = 0 THEN 0 ELSE val[k - 1] * base + s[k]
  IN val[Len(s)]

Denotes(s, base) ==
  IF s[1] = MinusSign THEN -Value(Tail(s), base) ELSE Value(s, base)

(* The stream never fills its buffer to the last character, where convert  *)
(* still puts the NUL after a number, whatever is streamed in whatever     *)
(* order; and every number in it, however much was refused after it, reads *)
(* back as the value that was streamed, in as few digits as can be.        *)
StreamSound ==
  /\ Len(stream) < Size
  /\ \A p \in kept :
       LET s == SubSeq(stream, p.from, p.to) IN
       /\ Denotes(s, p.base) = p.value
       /\ Len(s) > 1 => s[1] # 0
=============================================================================
