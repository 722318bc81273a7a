------------------------------ MODULE ByteQueue ------------------------------
(* What a Buffer promises: bytes come out in the order they went in. *)
EXTENDS Integers, Sequences

CONSTANT Bytes

VARIABLE content

Init == content = << >>

Put(d) == d \in Seq(Bytes) /\ content' = content \o d

\* The first n bytes are consumed.
Take(n) ==
  /\ n \in 0..Len(content)
  /\ content' = SubSeq(content, n + 1, Len(content))

Next == (\E d \in Seq(Bytes) : Put(d)) \/ (\E n \in 0..Len(content) : Take(n))

Spec == Init /\ [][Next]_content
=============================================================================
