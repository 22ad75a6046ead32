----------------------------- MODULE RpcStream -----------------------------
(***************************************************************************)
(* The byte stream of one connection to the server: TcpConnection reads    *)
(* whatever part of it has arrived into inputBuffer_, and RpcServer's      *)
(* onMessage calls Codec::decode until it returns false.  The peer may     *)
(* also send units that are no packet.                                     *)
(***************************************************************************)
EXTENDS RpcStreamState

vars == <<stream, wire, got, buf, decoding, handled, sent, start>>

Init == /\ stream = <<>> /\ wire = <<>> /\ start = <<>> /\ got = 0
        /\ buf = <<>> /\ decoding = FALSE /\ handled = <<>> /\ sent = <<>>
-----------------------------------------------------------------------------
(* The peer writes one more packet, or what it takes for one. *)
PeerSends(p) == /\ Len(stream) < MaxStream
                /\ stream' = Append(stream, p)
                /\ wire' = wire \o Units(p, Len(stream) + 1)
                /\ start' = Append(start, Len(wire))
                /\ UNCHANGED <<got, buf, decoding, handled, sent>>

MagicAt(i) == i < Len(buf) /\ buf[i].part = "mag" /\ buf[i + 1].part = "ic"
First == stream[buf[1].pkt]
TotalLen == HeaderSize + First.len + ChecksumSize
Retrieve(n) == buf' = SubSeq(buf, n + 1, Len(buf))

(* handleRead: readFd takes some of what has arrived, then the message callback. *)
HandleRead == /\ ~decoding
              /\ \E n \in 1..(Len(wire) - got) : /\ buf' = buf \o SubSeq(wire, got + 1, got + n)
                                                 /\ got' = got + n
              /\ decoding' = TRUE /\ UNCHANGED <<stream, wire, start, handled, sent>>

(* decode() returns false, and onMessage ends. *)
Fails == decoding' = FALSE /\ UNCHANGED <<stream, wire, got, start, handled, sent>>

Enough == Len(buf) >= HeaderSize /\ Len(buf) <= MaxBuffer
Accepted == First.kind \notin {"badVersion", "huge"}

(* Less than a header. *)
DecodeShort == decoding /\ Len(buf) < HeaderSize /\ UNCHANGED buf /\ Fails

(* More than the buffer may hold: everything is dropped. *)
DecodeOverflow == decoding /\ Len(buf) >= HeaderSize /\ Len(buf) > MaxBuffer /\ buf' = <<>> /\ Fails

(* No magic in front: skip to the next one, or drop everything. *)
DecodeResync ==
  /\ decoding /\ Enough /\ ~MagicAt(1)
  /\ LET found == {i \in 2..Len(buf) : i + 1 <= MaxScan /\ MagicAt(i)}
     IN \/ \E i \in found : (\A k \in found : i <= k) /\ Retrieve(i - 1)
        \/ found = {} /\ buf' = <<>>
  /\ Fails

(* Another version, or a body that is too long: everything is dropped. *)
DecodeRefused == decoding /\ Enough /\ MagicAt(1) /\ ~Accepted /\ buf' = <<>> /\ Fails

(* The whole packet has arrived. *)
Complete == Len(buf) >= TotalLen

(* The checksum agrees, the type is known, and the body decoder of that type (for a
   request, a response or a heartbeat) accepts exactly body_len bytes. *)
WellFormed == First.kind \in {"request", "heartbeat", "response"}

DecodePartial == decoding /\ Enough /\ MagicAt(1) /\ Accepted /\ ~Complete /\ UNCHANGED buf /\ Fails

(* A packet with a bad checksum empties the buffer. *)
DecodeBad_DropsAll == /\ decoding /\ Enough /\ MagicAt(1) /\ Accepted /\ Complete
                      /\ ~WellFormed /\ buf' = <<>> /\ Fails

(* A bad checksum, an unknown type or a bad body: this packet is dropped. *)
DecodeBad == /\ decoding /\ Enough /\ MagicAt(1) /\ Accepted /\ Complete
             /\ ~WellFormed /\ Retrieve(TotalLen) /\ Fails

(* onMessage: a heartbeat is acknowledged, a request answered (also when the service
   or the method is unknown or the handler throws), a response ignored. *)
Reply == \/ First.kind \in {"request", "heartbeat"} /\ sent' = Append(sent, buf[1].pkt)
         \/ First.kind = "response" /\ UNCHANGED sent

(* onMessage that decodes one packet per read. *)
DecodeGood_Once == /\ decoding /\ Enough /\ MagicAt(1) /\ Accepted /\ Complete
                   /\ WellFormed
                   /\ handled' = Append(handled, buf[1].pkt) /\ Retrieve(TotalLen) /\ Reply
                   /\ decoding' = FALSE /\ UNCHANGED <<stream, wire, got, start>>

(* A packet is decoded and handled, and decode() is called again. *)
DecodeGood == /\ decoding /\ Enough /\ MagicAt(1) /\ Accepted /\ Complete
              /\ WellFormed
              /\ handled' = Append(handled, buf[1].pkt) /\ Retrieve(TotalLen) /\ Reply
              /\ UNCHANGED <<stream, wire, got, start, decoding>>

Next == \/ \E p \in [kind : Kinds, len : Lens] : PeerSends(p)
        \/ HandleRead \/ DecodeShort \/ DecodeOverflow \/ DecodeResync \/ DecodeRefused
        \/ DecodePartial \/ DecodeBad \/ DecodeGood

Spec == Init /\ [][Next]_vars
-----------------------------------------------------------------------------
(* Only packets of the stream are handled, and an answer is for one of them. *)
TypeOK == /\ stream \in Seq([kind : Kinds, len : Lens]) /\ decoding \in BOOLEAN
          /\ got \in 0..Len(wire) /\ Len(buf) <= got
          /\ handled \in Seq(1..Len(stream)) /\ sent \in Seq(1..Len(stream))

(* A good packet is handled, or its bytes are still to be decoded: nothing a peer
   sends before it makes decode() lose it (docs/protocol.md:66). *)
NothingGoodLost ==
  Fits => \A i \in 1..Len(stream) : Good(i) => Handled(i) \/ StillToDecode(i)

(* body_len cuts glued packets apart (README.md:9): when onMessage has returned, no
   complete good packet is left waiting at the head of the buffer. *)
NoPacketWaits == ~decoding /\ Len(buf) >= HeaderSize /\ MagicAt(1) => ~(Good(buf[1].pkt) /\ Complete)
=============================================================================
