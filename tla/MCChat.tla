------------------------------- MODULE MCChat -------------------------------
(* A finite instance of Chat for TLC. *)
EXTENDS Chat

\* Reads that stay inside the vector, fill it, and spill over.
MCChunks == {<<97>>, <<98, 10>>, <<97, 98, 13>>}

\* Statements with every integer of the signed and of the unsigned type, and
\* with texts and characters that end before, at and after the end of the line
\* buffer.
MCStatements ==
  {<<Number(v)>> : v \in (-(Modulus \div 2))..(Modulus - 1)}
  \cup {<<Text(m), Char(32), Text(n)>> : m \in 3..6, n \in 0..2}
=============================================================================
