------------------------------- MODULE Logger -------------------------------
(* reactor/Logger: a statement LOG_X << a << b ... on one thread.  The        *)
(* temporary Logger writes the header, << the operands, and its destructor    *)
(* hands the line to g_output, calls g_flush for errors, and aborts on FATAL. *)
EXTENDS LogStream

CONSTANTS
  Threshold,              \* g_logLevel
  LineNo                  \* __LINE__

ERROR == 4
FATAL == 5
Levels == 0..FATAL

ASSUME LoggerAssumption == Threshold \in Levels /\ LineNo \in Nat

VARIABLES
  level,                  \* level_ of the Logger alive, -1 if there is none
  operands,               \* what the statement has still to insert
  line,                   \* what g_output was called with
  aborted,                \* abort()
  wanted,                 \* history: all the statement has inserted so far
  number                  \* history: the last integer the statement inserted

logger == <<level, operands, line, aborted, wanted, number>>
None == -1
NoNumber == Number(0)

LoggerInit ==
  /\ text = << >> /\ discard = FALSE
  /\ level = None /\ operands = << >>
  /\ line = << >> /\ aborted = FALSE
  /\ wanted = << >>
  /\ number = NoNumber

\* << of a stream without bounds, and of either.
Unbounded(t, x) == t \o x.chars
Write(bounded, t, x) == IF bounded THEN Put(t, x) ELSE Unbounded(t, x)

\* What Impl writes before the operands: time, thread, level, file, line and,
\* for an error at a place where errno is set, errno.
Header(bounded, lv, errno) ==
  LET Op(t, x) == Write(bounded, t, x)
      time == Op(<< >>, Text(1))
      tid == Op(Op(time, Text(1)), Char(32))
      name == Op(Op(tid, Text(1)), Char(32))
      where == Op(Op(Op(Op(name, Text(1)), Char(58)), Number(LineNo)), Text(1))
  IN  IF errno # 0 /\ lv >= ERROR
      THEN Op(Op(Op(where, Text(1)), Number(errno)), Text(1))
      ELSE where

\* Logger(file, line, lv) of the statement LOG_lv << xs[1] << xs[2] ...: the
\* header is written in any case, then a filtered statement's stream is
\* discarded.
Construct(lv, errno, xs) ==
  /\ level = None /\ ~aborted
  /\ level' = lv
  /\ text' = Header(TRUE, lv, errno)
  /\ discard' = (Threshold > lv)
  /\ operands' = xs
  /\ wanted' = Header(FALSE, lv, errno)
  /\ UNCHANGED <<line, aborted, number>>

\* One << of the statement.
InsertNext ==
  /\ operands # << >>
  /\ Insert(Head(operands))
  /\ operands' = Tail(operands)
  /\ wanted' = IF discard THEN wanted ELSE Unbounded(wanted, Head(operands))
  /\ number' = IF Head(operands).kind = "int" THEN Head(operands) ELSE number
  /\ UNCHANGED <<level, line, aborted>>

\* ~Logger: the newline goes through the same buffer, then g_output.
Output ==
  /\ level # None /\ operands = << >> /\ line = << >> /\ ~discard
  /\ Insert(Char(Newline))
  /\ line' = text'
  /\ wanted' = Append(wanted, Newline)
  /\ UNCHANGED <<level, operands, aborted, number>>

\* g_flush for an error, which only hurries the sink; abort for FATAL, even
\* when the statement is filtered; otherwise the statement is over.
Finish ==
  /\ level # None /\ operands = << >> /\ (line # << >> \/ discard)
  /\ aborted' = (level = FATAL)
  /\ level' = None
  /\ text' = << >> /\ discard' = FALSE
  /\ line' = << >> /\ wanted' = << >> /\ number' = NoNumber
  /\ UNCHANGED operands

-----------------------------------------------------------------------------
LoggerTypeOK ==
  /\ text \in Seq(Nat) /\ discard \in BOOLEAN
  /\ level \in Levels \cup {None}
  /\ line \in Seq(Nat)
  /\ aborted \in BOOLEAN

\* However many operands of whatever length: the cursor stays inside the array,
\* a line that fits is the one an unbounded stream would have given, newline
\* included, and of the lines that do not fit only one that fills the array to
\* the last usable character lacks its newline.
LineInv ==
  /\ LoggerTypeOK
  /\ Len(text) < Size
  /\ ~discard /\ Len(wanted) < Size => text = wanted
  /\ line # << >> => line[Len(line)] = Newline \/ Len(line) = Size - 1

\* What a text says when read as a decimal number, without and with a sign.
Decimal[d \in Seq(Nat)] ==
  IF d = << >> THEN 0
  ELSE 10 * Decimal[SubSeq(d, 1, Len(d) - 1)] + (d[Len(d)] - DigitZero)

ReadBack(chars) == IF chars[1] = Minus THEN -Decimal[Tail(chars)] ELSE Decimal[chars]

\* Every integer of the type, the least one and zero included, is written as
\* the decimal number that reads back as it, without leading zeros.
IntegersReadBack ==
  LET chars == number.chars
  IN  /\ chars # << >>
      /\ ReadBack(chars) = number.value
      /\ \A i \in 1..(Len(chars) - 1) :
           (i = 1 \/ (chars[1] = Minus /\ i = 2)) => chars[i] # DigitZero
=============================================================================
