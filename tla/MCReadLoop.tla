---------------------------- MODULE MCReadLoop ----------------------------
(* Instances of ReadLoop for TLC.                                          *)
EXTENDS ReadLoop

Cut(o, n, eof) == [offset |-> o, data_len |-> n, eof |-> eof]

(* A stream of three bytes, cut in two ways: blocks overlap, and the EOF   *)
(* mark comes with the last bytes or in a block of its own.                *)
MCBlocks == {Cut(0, 1, FALSE), Cut(0, 2, FALSE), Cut(1, 2, FALSE),
             Cut(2, 1, TRUE), Cut(3, 0, TRUE)}
===========================================================================
