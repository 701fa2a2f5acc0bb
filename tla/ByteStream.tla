----------------------------- MODULE ByteStream -----------------------------
(***************************************************************************)
(* What a stream socket promises the two ends of websocket.Send and Recv: *)
(* the writer adds bytes to the end of the stream; the reader takes bytes *)
(* from the front, in the order they were added, never one that was not   *)
(* added and never one twice.  How the bytes are chunked into writes,     *)
(* segments and reads is not visible at this level.                       *)
(***************************************************************************)
EXTENDS Sequences, SequencesExt

CONSTANT Bytes

VARIABLES
    written,  \* every byte the writer has added, in order
    taken     \* every byte the reader has taken, in order

vars == <<written, taken>>

Init == written = <<>> /\ taken = <<>>

(* The writer adds one or more bytes.                                      *)
Add ==
    /\ IsStrictPrefix(written, written')
    /\ written' \in Seq(Bytes)
    /\ UNCHANGED taken

(* The reader takes the next one or more bytes of the stream.              *)
Take ==
    /\ IsStrictPrefix(taken, taken')
    /\ IsPrefix(taken', written)
    /\ UNCHANGED written

Next == Add \/ Take

Spec == Init /\ [][Next]_vars
=============================================================================
