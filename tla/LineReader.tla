------------------------------- MODULE LineReader -------------------------------
(* What reading lines from a stream is, with no reads and no buffer in it:    *)
(* bytes arrive, and the lines that are complete are taken one at a time, in  *)
(* order, each once and whole.                                                *)
EXTENDS Naturals, Sequences

CONSTANTS
  Bytes,
  LF           \* the byte that ends a line

VARIABLES
  stream,      \* the bytes that have arrived
  taken        \* the lines taken of it, joined

vars == <<stream, taken>>

Init == stream = <<>> /\ taken = <<>>

Receive ==
  /\ stream' \in Seq(Bytes)
  /\ Len(stream) <= Len(stream')
  /\ \A i \in 1 .. Len(stream) : stream'[i] = stream[i]
  /\ UNCHANGED taken

(* Where the first line ends that has not been taken. *)
NextEnd(n) ==
  /\ n \in Len(taken) + 1 .. Len(stream)
  /\ stream[n] = LF
  /\ \A m \in Len(taken) + 1 .. n - 1 : stream[m] # LF

Take ==
  /\ \E n \in Len(taken) + 1 .. Len(stream) : NextEnd(n) /\ taken' = SubSeq(stream, 1, n)
  /\ UNCHANGED stream

Next == Receive \/ Take

Spec == Init /\ [][Next]_vars
================================================================================
