----------------------------- MODULE Transfer -----------------------------
(***************************************************************************)
(* One direction of a connection: the sending half of one session, the     *)
(* receiving half of the other, and the packets between them.  A packet    *)
(* sent may be lost, or arrive once or more, at any later time, in any     *)
(* order.  Blocks travel one way and acknowledgments the other.            *)
(*                                                                         *)
(* The sending application writes a stream of StreamLength bytes and       *)
(* closes it; the receiving one reads.                                     *)
(***************************************************************************)
EXTENDS Integers, FiniteSets

CONSTANTS
  PendingMaximum, MaximumSendBytes, SendmarkqMaximum, WriteSizes,
  RecvmarkqMaximum, ReadSizes, StreamLength

ASSUME TransferAssumption ==
  /\ {PendingMaximum, MaximumSendBytes, SendmarkqMaximum, RecvmarkqMaximum}
       \subseteq Nat \ {0}
  /\ StreamLength \in Nat
  /\ WriteSizes \subseteq Nat \ {0}
  /\ ReadSizes \subseteq Nat \ {0}

VARIABLES
  \* the sending half
  pending, pending_used, pending_current, pending_next, pending_eof,
  sendq_head_exists, sendq_head, sendmarkq, by_node, by_clock, first_is_root,
  my_eof, my_sent_bytes, written, writer,
  \* the receiving half, with its pending_eof_ called reader_eof
  recvmarkq, recvmarkq_distributed, recvmarkq_read_offset, reader_eof,
  their_contiguous_sent_bytes, reader, delivered, acked, closed, eof_delivered,
  \* the packets and what the two messagers know of the EOF
  net,        \* blocks in packets that may still arrive
  acks,       \* ranges acknowledged in packets that may still arrive
  their_eof   \* receiving messager: an EOF block has arrived

(* A block on the wire.  Its data is that of the stream at its offset      *)
(* (SessionSend's BlocksInOrder), so the offset stands for it.             *)
Blocks == {b \in [offset : 0 .. StreamLength, data_len : 0 .. MaximumSendBytes,
                  eof : BOOLEAN] :
             /\ b.offset + b.data_len <= StreamLength
             /\ b.data_len = 0 => b.eof
             /\ b.eof => b.offset + b.data_len = StreamLength}

S == INSTANCE SessionSend
R == INSTANCE SessionReceive WITH pending_eof <- reader_eof

sender == <<pending, pending_used, pending_current, pending_next, pending_eof,
            sendq_head_exists, sendq_head, sendmarkq, by_node, by_clock,
            first_is_root, my_eof, my_sent_bytes, written, writer>>
receiver == <<recvmarkq, recvmarkq_distributed, recvmarkq_read_offset,
              reader_eof, their_contiguous_sent_bytes, reader, delivered,
              acked, closed, eof_delivered>>
network == <<net, acks, their_eof>>
vars == <<sender, receiver, network>>

Init ==
  /\ S!Init
  /\ R!Init
  /\ net = {}
  /\ acks = {}
  /\ their_eof = FALSE

-----------------------------------------------------------------------------
(* The sending side.                                                       *)

Write ==
  /\ \/ \E n \in WriteSizes : S!Write(n)
     \/ S!RetryWrite
  /\ UNCHANGED <<receiver, network>>

CloseStream ==
  /\ written = StreamLength
  /\ S!SetEof
  /\ UNCHANGED <<receiver, network>>

CutHead ==
  /\ S!SendqHead
  /\ UNCHANGED <<receiver, network>>

Wire(b) == [offset |-> b.offset, data_len |-> b.data_len, eof |-> b.eof]

(* A packet with the block that SendHead or Resend transmits.              *)
Transmit(b, arrives) ==
  /\ net' = IF arrives THEN net \cup {Wire(b)} ELSE net
  /\ UNCHANGED <<receiver, acks, their_eof>>

SendHead(arrives) ==
  /\ S!SendHead
  /\ Transmit([sendq_head EXCEPT !.offset = my_sent_bytes], arrives)

Resend(arrives) ==
  /\ S!Resend
  /\ \E b \in sendmarkq : b.offset = by_node[1] /\ Transmit(b, arrives)

(* The sending messager handles an acknowledgment.                         *)
RecvAck(range) ==
  /\ range \in acks
  /\ S!RemoveRanges({range})
  /\ UNCHANGED <<receiver, network>>

-----------------------------------------------------------------------------
(* The receiving side.                                                     *)

RecvBlock(b) ==
  /\ b \in net
  /\ R!Put(b)
  /\ their_eof' = (their_eof \/ b.eof)
  /\ UNCHANGED <<sender, net, acks>>

Read ==
  /\ \/ \E n \in ReadSizes : R!Read(n)
     \/ R!RetryRead
  /\ UNCHANGED <<sender, network>>

SendAck(more, arrives) ==
  \E c \in their_contiguous_sent_bytes .. StreamLength :
    /\ R!SendAck(c, more)
    /\ acks' = IF arrives THEN acks \cup R!RangesOf(c, more) ELSE acks
    /\ UNCHANGED <<sender, net, their_eof>>

(* No packet with the block arrives any more.                              *)
Forget(b) ==
  /\ b \in net
  /\ net' = net \ {b}
  /\ UNCHANGED <<sender, receiver, acks, their_eof>>

-----------------------------------------------------------------------------
Next ==
  \/ Write
  \/ CloseStream
  \/ CutHead
  \/ \E arrives \in BOOLEAN : SendHead(arrives) \/ Resend(arrives)
  \/ \E range \in acks : RecvAck(range)
  \/ \E b \in net : RecvBlock(b) \/ Forget(b)
  \/ Read
  \/ \E more \in SUBSET R!Unacknowledged, arrives \in BOOLEAN : SendAck(more, arrives)

Spec == Init /\ [][Next]_vars

(* The send queue timers are always armed again, so that blocks are cut,   *)
(* sent and sent again; a packet sent again and again arrives sometimes,   *)
(* and none arrives for ever; the messager acknowledges every stored       *)
(* block; the application reads.                                           *)
FairSpec ==
  /\ Spec
  /\ WF_vars(CutHead)
  /\ WF_vars(\E arrives \in BOOLEAN : SendHead(arrives))
  /\ SF_vars(Resend(TRUE))
  /\ \A b \in Blocks : SF_vars(RecvBlock(b)) /\ WF_vars(Forget(b))
  /\ SF_vars(SendAck(R!Unacknowledged, TRUE))
  /\ WF_vars(\E range \in acks : RecvAck(range))
  /\ WF_vars(Read)

-----------------------------------------------------------------------------
(* Every byte sent is distributed to the reader, stored for it, or kept to *)
(* be sent again.  It is what makes a lost packet harmless: the sender     *)
(* forgets a block (session.ipp:448-451) only after the receiver stored    *)
(* its bytes, and the receiver deletes one (session.ipp:247-250, 535-538)  *)
(* only after it distributed them.                                         *)
NoByteLost ==
  \A p \in 0 .. my_sent_bytes - 1 :
    \/ p < recvmarkq_distributed
    \/ R!Stored(p)
    \/ \E b \in sendmarkq : b.offset <= p /\ p < b.offset + b.data_len

(* The connection is a stream of bytes, whatever happens to packets.       *)
Abstract == INSTANCE ByteStream
              WITH ended <- pending_eof, eof <- eof_delivered

StreamSpec == Abstract!Spec

(* recvmarkq_ is full of blocks that wait for an earlier one, which is     *)
(* refused (session.ipp:470-471) however often it is sent.                 *)
Jammed ==
  R!RecvmarkqIsFull /\ \A e \in recvmarkq : e.block.offset > recvmarkq_distributed

(* Every byte written is distributed in the end, in spite of losses and of *)
(* sendmarkq_'s order, in which a block that was sent again may stay first *)
(* of three (session.ipp:371-379), unless recvmarkq_ is jammed.            *)
BytesArrive ==
  \A n \in 1 .. StreamLength :
    written >= n ~> recvmarkq_distributed >= n \/ Jammed

(* session.ipp:165-166 says of close() that EOF blocks will be sent, then  *)
(* ACKs waited for: until the peer has it, the EOF block is kept to be     *)
(* sent again.                                                             *)
EofIsKept == my_eof /\ ~ their_eof => \E b \in sendmarkq : b.eof
=============================================================================
