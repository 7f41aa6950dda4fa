---------------------------- MODULE ByteStream ----------------------------
(***************************************************************************)
(* What RUDP promises to the two applications it connects: each writes     *)
(* bytes, and each reads the bytes the other one wrote, in order and once. *)
(* Byte i of a direction is written as the number i.                       *)
(***************************************************************************)
EXTENDS Naturals, Sequences

CONSTANTS Ends, Other

VARIABLES written, read

Init ==
  /\ written = [e \in Ends |-> 0]
  /\ read = [e \in Ends |-> << >>]

\* The application at e writes some bytes.
Write(e) ==
  /\ written'[e] > written[e]
  /\ written' = [written EXCEPT ![e] = written'[e]]
  /\ UNCHANGED read

\* The application at e reads some of the bytes it has not read yet.
Read(e) ==
  /\ Len(read'[e]) \in (Len(read[e]) + 1)..written[Other[e]]
  /\ read' = [read EXCEPT ![e] = [i \in 1..Len(read'[e]) |-> i]]
  /\ UNCHANGED written

Next == \E e \in Ends : Write(e) \/ Read(e)

Spec == Init /\ [][Next]_<<written, read>>
===========================================================================
