----------------------------- MODULE LogStream -----------------------------
(* reactor/LogStream: the fixed buffer a log line is put together in, and the *)
(* conversion of integers.  A character is its code; what a text says does    *)
(* not matter here, only how long it is.                                      *)
EXTENDS Integers, Sequences, SequencesExt

CONSTANTS
  Size,                   \* kSmallBuffer
  Modulus                 \* 2^w, for an integer type of w bits

ASSUME StreamAssumption == Size \in Nat \ {0} /\ Modulus \in Nat \ {0}

VARIABLES
  text,                   \* what FixedBuffer holds in [data_, cur_)
  discard                 \* discard_

stream == <<text, discard>>

-----------------------------------------------------------------------------
Avail(t) == Size - Len(t)

MutantAppendTo(t, chars) == IF Avail(t) > Len(chars) + 1 THEN t \o chars ELSE t

\* FixedBuffer::append: all of it, or nothing.
AppendTo(t, chars) == IF Avail(t) > Len(chars) THEN t \o chars ELSE t

\* FixedBuffer::add.
AddTo(t, c) == IF Avail(t) > 1 THEN Append(t, c) ELSE t

Minus == 45
DigitZero == 48
Newline == 10

\* The do-while loop of formatInteger: at least one digit, the last one first.
Digits[u \in Nat] ==
  IF u \div 10 = 0 THEN <<DigitZero + (u % 10)>>
  ELSE Append(Digits[u \div 10], DigitZero + (u % 10))

MutantFormatInteger(v) ==
  LET u == (IF v < 0 THEN -v ELSE v) % (Modulus \div 2)
  IN  (IF v < 0 THEN <<Minus>> ELSE << >>) \o Digits[u]

\* formatInteger: two's complement in the unsigned type of the same width, so
\* that negating the least value does not overflow.
FormatInteger(v) ==
  LET u == v % Modulus
  IN  IF v < 0 THEN <<Minus>> \o Digits[(0 - u) % Modulus] ELSE Digits[u]

\* The operands of <<: a character goes through add, anything else is turned
\* into characters and goes through append.
Text(n) == [kind |-> "text", chars |-> [i \in 1..n |-> 97]]
Char(c) == [kind |-> "char", chars |-> <<c>>]
Number(v) == [kind |-> "int", chars |-> FormatInteger(v), value |-> v]

\* All of them; the values are those of the signed and of the unsigned types.
Operand ==
  [kind : {"text"}, chars : Seq(Nat)]
  \cup [kind : {"char"}, chars : [1..1 -> Nat]]
  \cup {Number(v) : v \in (1 - Modulus)..(Modulus - 1)}

Put(t, x) == IF x.kind = "char" THEN AddTo(t, x.chars[1]) ELSE AppendTo(t, x.chars)

\* operator<<, for any operand.
Insert(x) ==
  /\ text' = IF discard THEN text ELSE Put(text, x)
  /\ UNCHANGED discard
=============================================================================
