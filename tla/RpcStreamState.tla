--------------------------- MODULE RpcStreamState ---------------------------
(***************************************************************************)
(* The packets a peer sends over one connection, the units they are made   *)
(* of, the state of the server that reads them, and what the server owes   *)
(* the peer.  RpcStream has the steps.                                     *)
(***************************************************************************)
EXTENDS Integers, Sequences

CONSTANTS MaxStream,   \* bound: packets the peer sends
          Kinds,       \* which of AllKinds the peer sends
          Lens,        \* the lengths of their bodies
          MaxBodyLen,  \* kMaxBodyLen
          MaxBuffer,   \* kMaxBufferSize
          MaxScan      \* kMaxScanBytes

AllKinds == {"request", "heartbeat", "response", \* packets made by Codec::pack
             "badCrc",     \* a packet whose checksum is wrong
             "badBody",    \* an unknown msg_type, or a body that does not parse
             "badVersion", \* a packet of another version
             "huge",       \* a header whose body_len is above kMaxBodyLen
             "noise"}      \* bytes without a magic

ASSUME StreamConstants == /\ Kinds \subseteq AllKinds /\ Lens \subseteq 0..MaxBodyLen
                          /\ MaxStream \in Nat /\ MaxBodyLen \in Nat
                          /\ MaxBuffer \in Nat /\ MaxScan \in Nat

VARIABLES
  stream,   \* the packets the peer has sent
  wire,     \* the units of them all, in order
  got,      \* how many of these have been read from the socket
  buf,      \* inputBuffer_
  decoding, \* inside onMessage
  handled,  \* the packets decode() has returned, in order
  sent,     \* the packets the server has answered, in order
  start     \* history: how many units precede each packet

HeaderSize == 3
ChecksumSize == 1

(* A packet is the two halves of its magic, the rest of its header, `len' units of
   body and its checksum; of an oversized one only the header is sent. *)
Size(p) == IF p.kind = "noise" THEN 1 + p.len
           ELSE IF p.kind = "huge" THEN HeaderSize
           ELSE HeaderSize + p.len + ChecksumSize

Part(p, j) == IF p.kind = "noise" \/ j > HeaderSize THEN "body"
              ELSE IF j = 1 THEN "mag" ELSE IF j = 2 THEN "ic" ELSE "head"

Unit(part, i) == [part |-> part, pkt |-> i]
Units(p, i) == [j \in 1..Size(p) |-> Unit(Part(p, j), i)]
-----------------------------------------------------------------------------
Good(i) == stream[i].kind \in {"request", "heartbeat", "response"}
Framed(i) == Good(i) \/ stream[i].kind \in {"badCrc", "badBody"}
Fits == Len(wire) <= MaxBuffer

Handled(i) == \E h \in 1..Len(handled) : handled[h] = i
Increasing(s) == \A i, j \in 1..Len(s) : i < j => s[i] < s[j]

(* The beginning of packet i is still in the buffer or to be read. *)
StillToDecode(i) == \/ \E j \in 1..Len(buf) : buf[j] = Unit("mag", i)
                    \/ \E k \in got + 1 .. Len(wire) : wire[k] = Unit("mag", i)

(* docs/protocol.md:66: a good packet is handled, or its bytes are still to be
   decoded.  That is so when what the peer sends is framed as packets, be their
   checksum or body bad, and the buffer can hold it all: DecodeBad drops one. *)
NothingFramedLost ==
  (Fits /\ \A i \in 1..Len(stream) : Framed(i)) =>
    \A i \in 1..Len(stream) : Good(i) => Handled(i) \/ StillToDecode(i)

(* Whatever the peer sends and however it is cut, the packets that are handled are
   good ones, in the order in which they were sent, each once. *)
HandledInOrder == Increasing(handled) /\ \A h \in 1..Len(handled) : Good(handled[h])

(* When a stream of good packets has been read, however it was cut, every
   request and heartbeat is answered, in order, and nothing else is. *)
EveryRequestAnswered ==
  (Fits /\ (\A i \in 1..Len(stream) : Good(i)) /\ got = Len(wire) /\ ~decoding) =>
    /\ Increasing(sent)
    /\ {sent[k] : k \in 1..Len(sent)} = {i \in 1..Len(stream) : stream[i].kind # "response"}

(* Whatever the peer sends and however it is cut, onMessage handles the good
   packets in the order in which they were sent, each once; a bad packet takes no
   good one with it while the stream is framed; and when a stream of good packets
   has been read, every request and heartbeat is answered, in order, and nothing
   else is. *)
StreamAnswered == HandledInOrder /\ NothingFramedLost /\ EveryRequestAnswered
=============================================================================
