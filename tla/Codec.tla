-------------------------------- MODULE Codec --------------------------------
(***************************************************************************)
(* The encoders and decoders of src/codec/rpc_codec.cc, on whole packets.  *)
(* What decode() does with a stream of bytes, split, broken or joined, is  *)
(* RpcStream; here a packet arrives as it was packed, and the question is  *)
(* what of it the other side reads.                                        *)
(*                                                                         *)
(* A body is the sequence of the items the encoder appended, each with the *)
(* bytes it takes.  A body decoder reads them in turn: the decoder of a    *)
(* type only ever meets bodies of the encoder of that type.                *)
(***************************************************************************)
EXTENDS Messages

CONSTANTS
  U16,             \* 2^16: what a uint16_t counts
  U64,             \* 2^64
  kMaxBodyLen,     \* the longest body decode() accepts
  kMaxBufferSize   \* the fullest buffer decode() accepts

kFixedHeaderSize == 18
kChecksumSize == 4
SUCCESS == 0
FAILED == 1
TIMEOUT == 2

Item(size) == [size |-> size, text |-> "", num |-> 0, wire |-> <<>>]
U8Item(v) == [Item(1) EXCEPT !.num = v]
U16Item(v) == [Item(2) EXCEPT !.num = v % U16]
U64Item(v) == [Item(8) EXCEPT !.num = v % U64]
WireItem(wire) == [Item(4 + WireSize(wire)) EXCEPT !.wire = wire]

\* appendString: refuses what its length field cannot count.
Fits(str) == Len(str) < U16
appendString(str) == [Item(2 + Len(str)) EXCEPT !.text = str]

\* The body encoders: a refused string makes the whole body empty.
encodeRequestBody(req, service_name, method_name, order) ==
  IF Fits(service_name) /\ Fits(method_name)
  THEN <<appendString(service_name), appendString(method_name), WireItem(Serialize(req, order))>>
  ELSE <<>>

encodeResponseBody(resp, status) == <<U8Item(status), WireItem(Serialize(resp, <<>>))>>

encodeHeartbeatBody(hb, order) ==
  LET keys == SelectSeq(order, LAMBDA k : k \in DOMAIN hb.extra)
      extras == FlattenSeq([i \in DOMAIN keys |->
                              <<appendString(keys[i]), appendString(hb.extra[keys[i]])>>])
  IN IF \A t \in TextsIn(hb) : Fits(t)
     THEN <<appendString(hb.service_name), appendString(hb.node_id),
            U64Item(hb.timestamp), U16Item(Len(keys))>> \o extras
     ELSE <<>>

-----------------------------------------------------------------------------
(* Packets: fixed header, body, checksum.  An empty body is no packet. *)

BodyLen(body) == SumSeq(LAMBDA item : item.size, body)
pack(msg_type, req_id, body) ==
  [msg_type |-> msg_type, req_id |-> req_id, body |-> body, body_len |-> BodyLen(body)]
NoPacket == pack("NONE", 0, <<>>)

Packet(msg_type, req_id, body) == IF body = <<>> THEN NoPacket ELSE pack(msg_type, req_id, body)
encodeRequest(req, req_id, service_name, method_name, order) ==
  Packet("REQUEST", req_id, encodeRequestBody(req, service_name, method_name, order))
encodeResponse(resp, req_id, status) == Packet("RESPONSE", req_id, encodeResponseBody(resp, status))
encodeHeartbeat(hb, req_id, order) == Packet("HEARTBEAT", req_id, encodeHeartbeatBody(hb, order))

-----------------------------------------------------------------------------
(* A decoder takes the object its caller keeps for all packets of a read to that
   object afterwards, and says whether it returned true. *)

DecodedPacket ==
  [msg_type |-> "NONE", req_id |-> 0, rpc_request |-> RpcRequest_New,
   rpc_response |-> RpcResponse_New, heartbeat |-> Heartbeat_New,
   service_name |-> "", method_name |-> "", network_status |-> SUCCESS]
Decoded(ok, packet) == [ok |-> ok, packet |-> packet]

ReadRequest(body, packet, parsed) ==
  Decoded(parsed.ok, [packet EXCEPT !.service_name = body[1].text, !.method_name = body[2].text,
                                    !.rpc_request = parsed.msg])
decodeRequestBody(body, packet) ==
  ReadRequest(body, packet, ParseFromString(packet.rpc_request, body[3].wire))

ReadResponse(body, packet, parsed) ==
  LET read == [packet EXCEPT !.rpc_response = parsed.msg]
      status == IF body[1].num <= TIMEOUT THEN body[1].num ELSE FAILED
  IN IF parsed.ok THEN Decoded(TRUE, [read EXCEPT !.network_status = status]) ELSE Decoded(FALSE, read)
decodeResponseBody(body, packet) ==
  ReadResponse(body, packet, ParseFromString(packet.rpc_response, body[2].wire))

\* The extras go into the object as they are read, beside those of earlier
\* packets; the rest only once the body has been read to its end.
AddExtra_Replaces(map, key, value) == key :> value
AddExtra(map, key, value) == (key :> value) @@ map

decodeHeartbeatBody(body, packet) ==
  LET pairs == [i \in 1 .. body[4].num |-> <<body[3 + 2 * i].text, body[4 + 2 * i].text>>]
      read == [packet EXCEPT !.heartbeat.extra = FoldLeft(LAMBDA map, p : AddExtra(map, p[1], p[2]), @, pairs)]
      signed == ((body[3].num + U64 \div 2) % U64) - U64 \div 2
  IN IF Len(body) = 4 + 2 * body[4].num
     THEN Decoded(TRUE, [read EXCEPT !.heartbeat.service_name = body[1].text,
                                     !.heartbeat.node_id = body[2].text, !.heartbeat.timestamp = signed])
     ELSE Decoded(FALSE, read)

decodeBody(pkt, packet) ==
  CASE pkt.msg_type = "REQUEST" -> decodeRequestBody(pkt.body, packet)
    [] pkt.msg_type = "RESPONSE" -> decodeResponseBody(pkt.body, packet)
    [] pkt.msg_type = "HEARTBEAT" -> decodeHeartbeatBody(pkt.body, packet)

\* The type is set even when the body could not be read, the id only when it was.
Complete(pkt, read) ==
  LET typed == [read.packet EXCEPT !.msg_type = pkt.msg_type]
  IN IF read.ok THEN Decoded(TRUE, [typed EXCEPT !.req_id = pkt.req_id]) ELSE Decoded(FALSE, typed)

\* decode() of a packet that arrives alone.  It is refused when the header announces
\* too long a body, and when the whole of it is more than the buffer may hold.
PacketSize(pkt) == kFixedHeaderSize + pkt.body_len + kChecksumSize
decode(pkt, packet) ==
  IF pkt.body_len > kMaxBodyLen \/ PacketSize(pkt) > kMaxBufferSize THEN Decoded(FALSE, packet)
  ELSE Complete(pkt, decodeBody(pkt, packet))
=============================================================================
