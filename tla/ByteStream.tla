---------------------------- MODULE ByteStream ----------------------------
(***************************************************************************)
(* What one direction of a connection promises its two applications: the   *)
(* bytes written are read in order, none lost or repeated, and the end of  *)
(* the stream is read after the last byte.  Bytes are counted: the n-th    *)
(* byte read is the n-th byte written.                                     *)
(***************************************************************************)
EXTENDS Naturals

VARIABLES
  written,    \* bytes the writing application has handed over
  ended,      \* the writing application has closed the stream
  delivered,  \* bytes the reading application has been given
  eof         \* the reading application has been given the end

vars == <<written, ended, delivered, eof>>

Init == written = 0 /\ ended = FALSE /\ delivered = 0 /\ eof = FALSE

Write ==
  /\ ~ ended
  /\ written' \in Nat
  /\ written' > written
  /\ UNCHANGED <<ended, delivered, eof>>

End ==
  /\ ended' = TRUE
  /\ UNCHANGED <<written, delivered, eof>>

(* A read returns bytes, the end, or both.                                 *)
Deliver ==
  /\ delivered' \in delivered .. written
  /\ \/ eof' = eof
     \/ ended /\ delivered' = written /\ eof' = TRUE
  /\ UNCHANGED <<written, ended>>

Next == Write \/ End \/ Deliver

Spec == Init /\ [][Next]_vars
=============================================================================
