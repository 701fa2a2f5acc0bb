----------------------------- MODULE WebSocketIO -----------------------------
(***************************************************************************)
(* websocket.Send and websocket.Recv (src/lib/websocket/funcs.go) on the  *)
(* two ends of one TCP connection with non-blocking sockets.  Send writes *)
(* a packet in chunks of at most maxBuffer bytes, retrying on EAGAIN;     *)
(* Recv reads chunks of maxBuffer bytes until a read returns fewer.       *)
(*                                                                         *)
(* A byte is <<m, i>>: byte i of the m-th packet sent.  The sender's      *)
(* socket buffer holds SockCap bytes, the receiver's RcvCap; the network *)
(* moves any non-empty prefix of the first that fits into the second (TCP *)
(* segmentation under the peer's window).  A read or   *)
(* write that returns EAGAIN or EINTR and loops changes nothing and is    *)
(* not an action.                                                          *)
(***************************************************************************)
EXTENDS Naturals, Sequences, SequencesExt

CONSTANTS
    Msgs,       \* lengths of the packets the sender passes to Send, in order
    MaxBuffer,  \* maxBuffer
    SockCap,    \* bytes the sender's socket buffer holds
    RcvCap,     \* bytes the receiver's socket buffer holds
    MaxRecv     \* bound: Recv calls

ASSUME
    /\ Msgs \in Seq(Nat \ {0})
    /\ MaxBuffer \in Nat \ {0} /\ SockCap \in Nat \ {0} /\ RcvCap \in Nat \ {0}
    /\ MaxRecv \in Nat

VARIABLES
    spc,        \* sender: "idle" | "loop" (inside Send's for loop)
    nsent,      \* packets passed to Send so far
    spkt,       \* Send's packet: the bytes not yet written
    written,    \* every byte write() has accepted, in order
    sndbuf,     \* sender's socket buffer
    rcvbuf,     \* receiver's socket buffer
    conn,       \* "open" | "closed" (sender closed) | "reset"
    rpc,        \* receiver: "idle" | "reading" (inside Recv's for loop)
    packet,     \* Recv's packet so far
    delivered   \* what each Recv returned: [pkt, err]

vars == <<spc, nsent, spkt, written, sndbuf, rcvbuf, conn, rpc, packet, delivered>>

Bytes == UNION {{<<m, i>> : i \in 1..Msgs[m]} : m \in 1..Len(Msgs)}

MinOf(a, b) == IF a < b THEN a ELSE b

(* The bytes of the m-th packet.                                           *)
PacketBytes(m) == [i \in 1..Msgs[m] |-> <<m, i>>]

(* Everything the Recv calls have returned, concatenated.                  *)
Received == FlattenSeq([i \in DOMAIN delivered |-> delivered[i].pkt])

Init ==
    /\ spc = "idle" /\ nsent = 0 /\ spkt = <<>> /\ written = <<>>
    /\ sndbuf = <<>> /\ rcvbuf = <<>> /\ conn = "open"
    /\ rpc = "idle" /\ packet = <<>> /\ delivered = <<>>

-----------------------------------------------------------------------------
(* Mutants: plausible bugs of the definitions below.                       *)

\* Send advancing by the chunk size instead of by n after a short write.
SendWriteSkip ==
    LET max  == MinOf(Len(spkt), MaxBuffer)
        n    == MinOf(max, SockCap - Len(sndbuf))
        wrote == SubSeq(spkt, 1, n)
    IN  /\ spc = "loop" /\ spkt # <<>> /\ conn # "reset"
        /\ n > 0
        /\ sndbuf' = sndbuf \o wrote
        /\ written' = written \o wrote
        /\ spkt' = SubSeq(spkt, max + 1, Len(spkt))
        /\ UNCHANGED <<spc, nsent, rcvbuf, conn, rpc, packet, delivered>>

\* Send without "if len(packet) < maxBuffer": packet[:maxBuffer] reaches
\* past the packet's end into whatever the slice's backing array holds.
SendWriteWholeChunk ==
    LET beyond == [i \in 1..MaxBuffer |-> <<0, i>>]
        n    == MinOf(MaxBuffer, SockCap - Len(sndbuf))
        wrote == SubSeq(spkt \o beyond, 1, n)
    IN  /\ spc = "loop" /\ spkt # <<>> /\ conn # "reset"
        /\ n > 0
        /\ sndbuf' = sndbuf \o wrote
        /\ written' = written \o wrote
        /\ spkt' = SubSeq(spkt, MinOf(n, Len(spkt)) + 1, Len(spkt))
        /\ UNCHANGED <<spc, nsent, rcvbuf, conn, rpc, packet, delivered>>

\* Recv keeping its packet after returning it: the next call appends to
\* the bytes already returned.
RecvReadNoReset ==
    LET n   == MinOf(Len(rcvbuf), MaxBuffer)
        pkt == packet \o SubSeq(rcvbuf, 1, n)
    IN  /\ rpc = "reading" /\ rcvbuf # <<>>
        /\ rcvbuf' = SubSeq(rcvbuf, n + 1, Len(rcvbuf))
        /\ IF n < MaxBuffer
           THEN /\ delivered' = Append(delivered, [pkt |-> pkt, err |-> FALSE])
                /\ rpc' = "idle" /\ packet' = pkt
           ELSE /\ packet' = pkt
                /\ UNCHANGED <<rpc, delivered>>
        /\ UNCHANGED <<spc, nsent, spkt, written, sndbuf, conn>>

\* Send's loop condition "len(packet) >= 0": the loop never ends.
SendDoneNever ==
    /\ spc = "loop" /\ Len(spkt) < 0
    /\ spc' = "idle"
    /\ UNCHANGED <<nsent, spkt, written, sndbuf, rcvbuf, conn, rpc, packet, delivered>>

-----------------------------------------------------------------------------
(* The sender.                                                             *)

(* A call Send(fd, packet).                                                *)
SendCall ==
    /\ spc = "idle" /\ conn = "open"
    /\ nsent < Len(Msgs)
    /\ spkt' = PacketBytes(nsent + 1)
    /\ nsent' = nsent + 1
    /\ spc' = "loop"
    /\ UNCHANGED <<written, sndbuf, rcvbuf, conn, rpc, packet, delivered>>

(* One turn of the loop: max = min(len(packet), maxBuffer); write takes    *)
(* as much as the socket buffer has room for (EAGAIN when none); then      *)
(* packet = packet[n:].                                                    *)
SendWrite ==
    LET max  == MinOf(Len(spkt), MaxBuffer)
        n    == MinOf(max, SockCap - Len(sndbuf))
        wrote == SubSeq(spkt, 1, n)
    IN  /\ spc = "loop" /\ spkt # <<>> /\ conn # "reset"
        /\ n > 0
        /\ sndbuf' = sndbuf \o wrote
        /\ written' = written \o wrote
        /\ spkt' = SubSeq(spkt, n + 1, Len(spkt))
        /\ UNCHANGED <<spc, nsent, rcvbuf, conn, rpc, packet, delivered>>

(* write fails with an error other than EAGAIN: Send returns it.           *)
SendFail ==
    /\ spc = "loop" /\ spkt # <<>> /\ conn = "reset"
    /\ spc' = "idle"
    /\ UNCHANGED <<nsent, spkt, written, sndbuf, rcvbuf, conn, rpc, packet, delivered>>

(* len(packet) = 0: the loop ends and Send returns.                        *)
SendDone ==
    /\ spc = "loop" /\ spkt = <<>>
    /\ spc' = "idle"
    /\ UNCHANGED <<nsent, spkt, written, sndbuf, rcvbuf, conn, rpc, packet, delivered>>

(* The sender closes the connection between Send calls.                   *)
Close ==
    /\ spc = "idle" /\ conn = "open"
    /\ conn' = "closed"
    /\ UNCHANGED <<spc, nsent, spkt, written, sndbuf, rcvbuf, rpc, packet, delivered>>

-----------------------------------------------------------------------------
(* The network.                                                            *)

(* A segment: a prefix of the sender's buffer reaches the receiver, as    *)
(* much as the receiver's buffer has room for.                            *)
Transmit ==
    /\ conn # "reset"
    /\ \E k \in 1..MinOf(Len(sndbuf), RcvCap - Len(rcvbuf)) :
        /\ rcvbuf' = rcvbuf \o SubSeq(sndbuf, 1, k)
        /\ sndbuf' = SubSeq(sndbuf, k + 1, Len(sndbuf))
    /\ UNCHANGED <<spc, nsent, spkt, written, conn, rpc, packet, delivered>>

(* The connection is reset; data still in the sender's buffer is lost.     *)
Reset ==
    /\ conn = "open"
    /\ conn' = "reset"
    /\ UNCHANGED <<spc, nsent, spkt, written, sndbuf, rcvbuf, rpc, packet, delivered>>

-----------------------------------------------------------------------------
(* The receiver.                                                           *)

(* A call Recv(fd).                                                        *)
RecvCall ==
    /\ rpc = "idle"
    /\ Len(delivered) < MaxRecv
    /\ rpc' = "reading"
    /\ packet' = <<>>
    /\ UNCHANGED <<spc, nsent, spkt, written, sndbuf, rcvbuf, conn, delivered>>

(* n = read(fd, buf) with data waiting: packet = append(packet, buf[:n]);  *)
(* a short read (n < maxBuffer) ends the loop and Recv returns.            *)
RecvRead ==
    LET n   == MinOf(Len(rcvbuf), MaxBuffer)
        pkt == packet \o SubSeq(rcvbuf, 1, n)
    IN  /\ rpc = "reading" /\ rcvbuf # <<>>
        /\ rcvbuf' = SubSeq(rcvbuf, n + 1, Len(rcvbuf))
        /\ IF n < MaxBuffer
           THEN /\ delivered' = Append(delivered, [pkt |-> pkt, err |-> FALSE])
                /\ rpc' = "idle" /\ packet' = <<>>
           ELSE /\ packet' = pkt
                /\ UNCHANGED <<rpc, delivered>>
        /\ UNCHANGED <<spc, nsent, spkt, written, sndbuf, conn>>

(* Nothing waiting and no more to come: read returns 0 at end of stream,   *)
(* which ends the loop with err = nil, or fails on a reset connection,     *)
(* which breaks out with that error.  Recv returns packet and err.         *)
RecvEnd ==
    /\ rpc = "reading" /\ rcvbuf = <<>>
    /\ \/ conn = "closed" /\ sndbuf = <<>>
       \/ conn = "reset"
    /\ delivered' = Append(delivered, [pkt |-> packet, err |-> conn = "reset"])
    /\ rpc' = "idle" /\ packet' = <<>>
    /\ UNCHANGED <<spc, nsent, spkt, written, sndbuf, rcvbuf, conn>>

Next ==
    \/ SendCall \/ SendWrite \/ SendFail \/ SendDone \/ Close
    \/ Transmit \/ Reset
    \/ RecvCall \/ RecvRead \/ RecvEnd

(* Both loops run on as long as a read or write can succeed, and TCP       *)
(* delivers what the receiver has room for.  The reader keeps calling Recv *)
(* until it has made MaxRecv calls; after that nobody drains the peer's    *)
(* buffer.  Calling Send or Close, and a reset, are not fair.              *)
Fairness ==
    /\ WF_vars(SendWrite) /\ WF_vars(SendFail) /\ WF_vars(SendDone)
    /\ WF_vars(Transmit)
    /\ WF_vars(RecvCall) /\ WF_vars(RecvRead) /\ WF_vars(RecvEnd)

Spec == Init /\ [][Next]_vars /\ Fairness

-----------------------------------------------------------------------------
TypeOK ==
    /\ spc \in {"idle", "loop"} /\ rpc \in {"idle", "reading"}
    /\ conn \in {"open", "closed", "reset"}
    /\ nsent \in 0..Len(Msgs)
    /\ {spkt, written, sndbuf, rcvbuf, packet} \subseteq Seq(Bytes)
    /\ Len(sndbuf) <= SockCap /\ Len(rcvbuf) <= RcvCap
    /\ delivered \in Seq([pkt : Seq(Bytes), err : BOOLEAN])

(* Send's chunking hands the socket each packet's bytes in order, without  *)
(* gaps or repeats, whatever the short writes: what write() accepted, then *)
(* what Send still holds, is the packets passed to Send, concatenated.     *)
StreamIntact ==
    written \o spkt = FlattenSeq([m \in 1..nsent |-> PacketBytes(m)])

(* Refinement: the two loops over the socket implement the abstract byte   *)
(* stream.  The bytes the reader has taken are what the Recv calls         *)
(* returned and what the current call holds; each step of Send, the       *)
(* network or Recv is an Add, a Take, or invisible.                        *)
Stream == INSTANCE ByteStream WITH taken <- Received \o packet

StreamSpec == Stream!Spec

(* Every Send call returns while the peer keeps reading: Send's loop ends, *)
(* or the reader has made its last Recv call.  In the second case, with    *)
(* both buffers full, Send spins on EAGAIN for ever (funcs.go:79-83).      *)
SendCompletes == spc = "loop" ~> (spc = "idle" \/ Len(delivered) = MaxRecv)

=============================================================================
