------------------------------ MODULE Messages ------------------------------
(***************************************************************************)
(* The message classes that protoc generates from proto/rpc_service.proto  *)
(* (src/protocol/rpc_service.pb.{h,cc}), as functions on records.          *)
(*                                                                         *)
(* The wire is the sequence of the fields written: a tag, and what the     *)
(* type of the tag allows, a number, a text, the entry of a map or a       *)
(* nested message.  Each class has its _InternalParse (one turn of the     *)
(* loop), _InternalSerialize, ByteSizeLong, MergeFrom, Clear and           *)
(* accessors; what they call in libprotobuf is marked external in the map. *)
(***************************************************************************)
EXTENDS Integers, Sequences, SequencesExt, FiniteSetsExt, TLC

CONSTANTS
  Texts,      \* the contents of strings, the empty one included
  NotUtf8,    \* the texts that are not valid UTF-8
  Keys,       \* the keys of maps
  Ints,       \* the values of integers
  Int32Half   \* 2^31: what an int32 field can hold

-----------------------------------------------------------------------------
(* The wire *)

VARINT == 0
LEN == 2
Tag(n, type) == 8 * n + type
Field(tag, kind) == [tag |-> tag, kind |-> kind, num |-> 0, key |-> "", text |-> "", sub |-> <<>>]
NoMap == [k \in {} |-> ""]

\* Proto3 leaves a field out that has its default value.
WriteText(n, t) == IF t = "" THEN <<>> ELSE <<[Field(Tag(n, LEN), "text") EXCEPT !.text = t]>>
WriteInt(n, v) == IF v = 0 THEN <<>> ELSE <<[Field(Tag(n, VARINT), "num") EXCEPT !.num = v]>>
WriteBool(n, b) == WriteInt(n, IF b THEN 1 ELSE 0)

\* The entries come in the order of the hash table, a permutation of Keys.
WriteMap(n, map, order) ==
  LET present == SelectSeq(order, LAMBDA k : k \in DOMAIN map)
  IN [i \in DOMAIN present |->
        [Field(Tag(n, LEN), "entry") EXCEPT !.key = present[i], !.text = map[present[i]]]]

VarintSize(v) == CASE v < 0 -> 10 [] v \in 0 .. 127 -> 1 [] v \in 128 .. 16383 -> 2 [] OTHER -> 3
LengthDelimited(n) == VarintSize(n) + n
SizeOfText(t) == IF t = "" THEN 0 ELSE 1 + LengthDelimited(Len(t))
SizeOfInt(v) == IF v = 0 THEN 0 ELSE 1 + VarintSize(v)
SizeOfBool(b) == IF b THEN 2 ELSE 0
EntrySize(k, t) == LengthDelimited((1 + LengthDelimited(Len(k))) + (1 + LengthDelimited(Len(t))))
SizeOfMap(map) == MapThenSumSet(LAMBDA k : 1 + EntrySize(k, map[k]), DOMAIN map)

SumSeq(Op(_), s) == FoldLeft(LAMBDA n, f : n + Op(f), 0, s)

\* The bytes a field takes; nested messages (ServiceNode) hold no others.
FlatSize(f) == 1 + CASE f.kind = "num" -> VarintSize(f.num)
                     [] f.kind = "text" -> LengthDelimited(Len(f.text))
                     [] f.kind = "entry" -> EntrySize(f.key, f.text)
FieldSize(f) == IF f.kind = "message" THEN 1 + LengthDelimited(SumSeq(FlatSize, f.sub)) ELSE FlatSize(f)
WireSize(wire) == SumSeq(FieldSize, wire)

\* One turn of a parse loop takes r.msg, while r.ok, to the message with the field f.
ReadBytes(r, name, f) == [r EXCEPT !.msg[name] = f.text]
ReadString(r, name, f) == [r EXCEPT !.msg[name] = f.text, !.ok = f.text \notin NotUtf8]
ReadInt64(r, name, f) == [r EXCEPT !.msg[name] = f.num]
ReadInt32(r, name, f) ==
  [r EXCEPT !.msg[name] = ((f.num + Int32Half) % (2 * Int32Half)) - Int32Half]
ReadBool(r, name, f) == [r EXCEPT !.msg[name] = (f.num # 0)]
ReadEntry(r, name, f) == [r EXCEPT !.msg[name] = (f.key :> f.text) @@ @,
                                   !.ok = {f.key, f.text} \cap NotUtf8 = {}]
ReadUnknown(r, f) == [r EXCEPT !.msg.unknown = Append(@, f)]

\* MergeFrom of a field: the default value leaves the target as it was.
OrText(from, old) == IF from = "" THEN old ELSE from
OrInt(from, old) == IF from = 0 THEN old ELSE from

\* What the accessors of one field can leave: set_ or release_, and for a map
\* an assignment through mutable_ or clear_.
SetTexts(m, name) == {[m EXCEPT ![name] = t] : t \in Texts}
SetInts(m, name, S) == {[m EXCEPT ![name] = v] : v \in S}
EditMap(m, name) == {[m EXCEPT ![name] = (k :> t) @@ @] : k \in Keys, t \in Texts}
                    \cup {[m EXCEPT ![name] = NoMap]}
Int32s == {v \in Ints : v \in (-Int32Half) .. (Int32Half - 1)}

-----------------------------------------------------------------------------
(* RpcRequest: bytes payload = 1; map<string, string> metadata = 2 *)

RpcRequest_New == [cls |-> "RpcRequest", payload |-> "", metadata |-> NoMap, unknown |-> <<>>]
RpcRequest_Clear(m) == [m EXCEPT !.payload = "", !.metadata = NoMap, !.unknown = <<>>]
RpcRequest_Parse(r, f) ==
  CASE f.tag = Tag(1, LEN) -> ReadBytes(r, "payload", f)
    [] f.tag = Tag(2, LEN) -> ReadEntry(r, "metadata", f)
    [] OTHER -> ReadUnknown(r, f)
RpcRequest_Serialize(m, order) ==
  WriteText(1, m.payload) \o WriteMap(2, m.metadata, order) \o m.unknown
RpcRequest_ByteSizeLong(m) ==
  SizeOfMap(m.metadata) + SizeOfText(m.payload) + WireSize(m.unknown)
RpcRequest_MergeFrom(m, from) ==
  [m EXCEPT !.unknown = @ \o from.unknown, !.metadata = from.metadata @@ @,
            !.payload = OrText(from.payload, @)]
RpcRequest_Accessors(m) == SetTexts(m, "payload") \cup EditMap(m, "metadata")

-----------------------------------------------------------------------------
(* RpcResponse: bool success = 1; bytes payload = 2; string error_msg = 3 *)

RpcResponse_New ==
  [cls |-> "RpcResponse", success |-> FALSE, payload |-> "", error_msg |-> "", unknown |-> <<>>]
RpcResponse_Clear(m) == [m EXCEPT !.success = FALSE, !.payload = "", !.error_msg = "", !.unknown = <<>>]
RpcResponse_Parse(r, f) ==
  CASE f.tag = Tag(1, VARINT) -> ReadBool(r, "success", f)
    [] f.tag = Tag(2, LEN) -> ReadBytes(r, "payload", f)
    [] f.tag = Tag(3, LEN) -> ReadString(r, "error_msg", f)
    [] OTHER -> ReadUnknown(r, f)
RpcResponse_Serialize(m) ==
  WriteBool(1, m.success) \o WriteText(2, m.payload) \o WriteText(3, m.error_msg) \o m.unknown
RpcResponse_ByteSizeLong(m) ==
  SizeOfText(m.payload) + SizeOfText(m.error_msg) + SizeOfBool(m.success) + WireSize(m.unknown)
RpcResponse_MergeFrom(m, from) ==
  [m EXCEPT !.unknown = @ \o from.unknown, !.payload = OrText(from.payload, @),
            !.error_msg = OrText(from.error_msg, @), !.success = from.success \/ @]
RpcResponse_Accessors(m) ==
  {[m EXCEPT !.success = b] : b \in BOOLEAN} \cup SetTexts(m, "payload") \cup SetTexts(m, "error_msg")
-----------------------------------------------------------------------------
(* Heartbeat: string service_name = 1; string node_id = 2; int64 timestamp = 3;
   map<string, string> extra = 4 *)

Heartbeat_New == [cls |-> "Heartbeat", service_name |-> "", node_id |-> "", timestamp |-> 0,
                    extra |-> NoMap, unknown |-> <<>>]
\* Fault: the extras stay.
Heartbeat_Clear_KeepsExtra(m) == [m EXCEPT !.service_name = "", !.node_id = "", !.timestamp = 0, !.unknown = <<>>]
Heartbeat_Clear(m) == [m EXCEPT !.service_name = "", !.node_id = "", !.timestamp = 0, !.extra = NoMap, !.unknown = <<>>]
Heartbeat_Parse(r, f) ==
  CASE f.tag = Tag(1, LEN) -> ReadString(r, "service_name", f)
    [] f.tag = Tag(2, LEN) -> ReadString(r, "node_id", f)
    [] f.tag = Tag(3, VARINT) -> ReadInt64(r, "timestamp", f)
    [] f.tag = Tag(4, LEN) -> ReadEntry(r, "extra", f)
    [] OTHER -> ReadUnknown(r, f)
Heartbeat_Serialize(m, order) ==
  WriteText(1, m.service_name) \o WriteText(2, m.node_id) \o WriteInt(3, m.timestamp)
  \o WriteMap(4, m.extra, order) \o m.unknown
Heartbeat_ByteSizeLong(m) ==
  SizeOfMap(m.extra) + SizeOfText(m.service_name) + SizeOfText(m.node_id)
  + SizeOfInt(m.timestamp) + WireSize(m.unknown)
Heartbeat_MergeFrom(m, from) ==
  [m EXCEPT !.unknown = @ \o from.unknown, !.extra = from.extra @@ @,
            !.service_name = OrText(from.service_name, @), !.node_id = OrText(from.node_id, @),
            !.timestamp = OrInt(from.timestamp, @)]
Heartbeat_Accessors(m) ==
  SetTexts(m, "service_name") \cup SetTexts(m, "node_id") \cup SetInts(m, "timestamp", Ints)
  \cup EditMap(m, "extra")

-----------------------------------------------------------------------------
(* ServiceRegister: string service_name = 1; string node_id = 2; string host = 3;
   int32 port = 4; map<string, string> tags = 5 *)

ServiceRegister_New ==
  [cls |-> "ServiceRegister", service_name |-> "", node_id |-> "", host |-> "", port |-> 0,
   tags |-> NoMap, unknown |-> <<>>]
ServiceRegister_Clear(m) == [m EXCEPT !.service_name = "", !.node_id = "", !.host = "", !.port = 0, !.tags = NoMap, !.unknown = <<>>]
ServiceRegister_Parse(r, f) ==
  CASE f.tag = Tag(1, LEN) -> ReadString(r, "service_name", f)
    [] f.tag = Tag(2, LEN) -> ReadString(r, "node_id", f)
    [] f.tag = Tag(3, LEN) -> ReadString(r, "host", f)
    [] f.tag = Tag(4, VARINT) -> ReadInt32(r, "port", f)
    [] f.tag = Tag(5, LEN) -> ReadEntry(r, "tags", f)
    [] OTHER -> ReadUnknown(r, f)
ServiceRegister_Serialize(m, order) ==
  WriteText(1, m.service_name) \o WriteText(2, m.node_id) \o WriteText(3, m.host)
  \o WriteInt(4, m.port) \o WriteMap(5, m.tags, order) \o m.unknown
ServiceRegister_ByteSizeLong(m) ==
  SizeOfMap(m.tags) + SizeOfText(m.service_name) + SizeOfText(m.node_id) + SizeOfText(m.host)
  + SizeOfInt(m.port) + WireSize(m.unknown)
ServiceRegister_MergeFrom(m, from) ==
  [m EXCEPT !.unknown = @ \o from.unknown, !.tags = from.tags @@ @,
            !.service_name = OrText(from.service_name, @), !.node_id = OrText(from.node_id, @),
            !.host = OrText(from.host, @), !.port = OrInt(from.port, @)]
ServiceRegister_Accessors(m) ==
  SetTexts(m, "service_name") \cup SetTexts(m, "node_id") \cup SetTexts(m, "host")
  \cup SetInts(m, "port", Int32s) \cup EditMap(m, "tags")

-----------------------------------------------------------------------------
(* ServiceDiscover: string service_name = 1 *)

ServiceDiscover_New == [cls |-> "ServiceDiscover", service_name |-> "", unknown |-> <<>>]
ServiceDiscover_Clear(m) == [m EXCEPT !.service_name = "", !.unknown = <<>>]
ServiceDiscover_Parse(r, f) ==
  IF f.tag = Tag(1, LEN) THEN ReadString(r, "service_name", f) ELSE ReadUnknown(r, f)
\* Fault: unknown fields are not written.
ServiceDiscover_Serialize_KnownOnly(m) == WriteText(1, m.service_name)
ServiceDiscover_Serialize(m) == WriteText(1, m.service_name) \o m.unknown
ServiceDiscover_ByteSizeLong(m) == SizeOfText(m.service_name) + WireSize(m.unknown)
ServiceDiscover_MergeFrom(m, from) ==
  [m EXCEPT !.unknown = @ \o from.unknown, !.service_name = OrText(from.service_name, @)]
ServiceDiscover_Accessors(m) == SetTexts(m, "service_name")

-----------------------------------------------------------------------------
(* ServiceNode: string node_id = 1; string host = 2; int32 port = 3;
   map<string, string> tags = 4 *)

ServiceNode_New == [cls |-> "ServiceNode", node_id |-> "", host |-> "", port |-> 0,
                      tags |-> NoMap, unknown |-> <<>>]
ServiceNode_Clear(m) == [m EXCEPT !.node_id = "", !.host = "", !.port = 0, !.tags = NoMap, !.unknown = <<>>]
ServiceNode_Parse(r, f) ==
  CASE f.tag = Tag(1, LEN) -> ReadString(r, "node_id", f)
    [] f.tag = Tag(2, LEN) -> ReadString(r, "host", f)
    [] f.tag = Tag(3, VARINT) -> ReadInt32(r, "port", f)
    [] f.tag = Tag(4, LEN) -> ReadEntry(r, "tags", f)
    [] OTHER -> ReadUnknown(r, f)
ServiceNode_Serialize(m, order) ==
  WriteText(1, m.node_id) \o WriteText(2, m.host) \o WriteInt(3, m.port)
  \o WriteMap(4, m.tags, order) \o m.unknown
ServiceNode_ByteSizeLong(m) ==
  SizeOfMap(m.tags) + SizeOfText(m.node_id) + SizeOfText(m.host) + SizeOfInt(m.port)
  + WireSize(m.unknown)
ServiceNode_MergeFrom(m, from) ==
  [m EXCEPT !.unknown = @ \o from.unknown, !.tags = from.tags @@ @,
            !.node_id = OrText(from.node_id, @), !.host = OrText(from.host, @),
            !.port = OrInt(from.port, @)]
ServiceNode_Accessors(m) ==
  SetTexts(m, "node_id") \cup SetTexts(m, "host") \cup SetInts(m, "port", Int32s)
  \cup EditMap(m, "tags")
-----------------------------------------------------------------------------
(* ServiceDiscoverResult: repeated ServiceNode nodes = 1 *)

ServiceDiscoverResult_New == [cls |-> "ServiceDiscoverResult", nodes |-> <<>>, unknown |-> <<>>]
ServiceDiscoverResult_Clear(m) == [m EXCEPT !.nodes = <<>>, !.unknown = <<>>]
ReadNode(r, f) ==
  LET node == FoldLeft(LAMBDA n, g : IF n.ok THEN ServiceNode_Parse(n, g) ELSE n,
                       [msg |-> ServiceNode_New, ok |-> TRUE], f.sub)
  IN [r EXCEPT !.msg.nodes = Append(@, node.msg), !.ok = node.ok]
ServiceDiscoverResult_Parse(r, f) == IF f.tag = Tag(1, LEN) THEN ReadNode(r, f) ELSE ReadUnknown(r, f)
ServiceDiscoverResult_Serialize(m, order) ==
  [i \in DOMAIN m.nodes |->
     [Field(Tag(1, LEN), "message") EXCEPT !.sub = ServiceNode_Serialize(m.nodes[i], order)]]
  \o m.unknown
ServiceDiscoverResult_ByteSizeLong(m) ==
  SumSeq(LAMBDA n : 1 + LengthDelimited(ServiceNode_ByteSizeLong(n)), m.nodes) + WireSize(m.unknown)
ServiceDiscoverResult_MergeFrom(m, from) ==
  [m EXCEPT !.unknown = @ \o from.unknown, !.nodes = @ \o from.nodes]
ServiceDiscoverResult_Accessors(m) ==
  {[m EXCEPT !.nodes = Append(@, ServiceNode_New)], [m EXCEPT !.nodes = <<>>]}
  \cup UNION {{[m EXCEPT !.nodes[i] = n] : n \in ServiceNode_Accessors(m.nodes[i])} : i \in DOMAIN m.nodes}

-----------------------------------------------------------------------------
(* EchoRequest and EchoResponse: string message = 1 *)

EchoRequest_New == [cls |-> "EchoRequest", message |-> "", unknown |-> <<>>]
EchoRequest_Clear(m) == [m EXCEPT !.message = "", !.unknown = <<>>]
EchoRequest_Parse(r, f) ==
  IF f.tag = Tag(1, LEN) THEN ReadString(r, "message", f) ELSE ReadUnknown(r, f)
EchoRequest_Serialize(m) == WriteText(1, m.message) \o m.unknown
EchoRequest_ByteSizeLong(m) == SizeOfText(m.message) + WireSize(m.unknown)
EchoRequest_MergeFrom(m, from) ==
  [m EXCEPT !.unknown = @ \o from.unknown, !.message = OrText(from.message, @)]
EchoRequest_Accessors(m) == SetTexts(m, "message")

EchoResponse_New == [cls |-> "EchoResponse", message |-> "", unknown |-> <<>>]
EchoResponse_Clear(m) == [m EXCEPT !.message = "", !.unknown = <<>>]
EchoResponse_Parse(r, f) ==
  IF f.tag = Tag(1, LEN) THEN ReadString(r, "message", f) ELSE ReadUnknown(r, f)
EchoResponse_Serialize(m) == WriteText(1, m.message) \o m.unknown
EchoResponse_ByteSizeLong(m) == SizeOfText(m.message) + WireSize(m.unknown)
EchoResponse_MergeFrom(m, from) ==
  [m EXCEPT !.unknown = @ \o from.unknown, !.message = OrText(from.message, @)]
EchoResponse_Accessors(m) == SetTexts(m, "message")

-----------------------------------------------------------------------------
(* The virtual functions of Message *)

News == {RpcRequest_New, RpcResponse_New, Heartbeat_New, ServiceRegister_New, ServiceDiscover_New,
         ServiceNode_New, ServiceDiscoverResult_New, EchoRequest_New, EchoResponse_New}
New(cls) == CHOOSE m \in News : m.cls = cls
Clear(m) ==
  CASE m.cls = "RpcRequest" -> RpcRequest_Clear(m)
    [] m.cls = "RpcResponse" -> RpcResponse_Clear(m)
    [] m.cls = "Heartbeat" -> Heartbeat_Clear(m)
    [] m.cls = "ServiceRegister" -> ServiceRegister_Clear(m)
    [] m.cls = "ServiceDiscover" -> ServiceDiscover_Clear(m)
    [] m.cls = "ServiceNode" -> ServiceNode_Clear(m)
    [] m.cls = "ServiceDiscoverResult" -> ServiceDiscoverResult_Clear(m)
    [] m.cls = "EchoRequest" -> EchoRequest_Clear(m)
    [] m.cls = "EchoResponse" -> EchoResponse_Clear(m)
Parse(r, f) ==
  CASE r.msg.cls = "RpcRequest" -> RpcRequest_Parse(r, f)
    [] r.msg.cls = "RpcResponse" -> RpcResponse_Parse(r, f)
    [] r.msg.cls = "Heartbeat" -> Heartbeat_Parse(r, f)
    [] r.msg.cls = "ServiceRegister" -> ServiceRegister_Parse(r, f)
    [] r.msg.cls = "ServiceDiscover" -> ServiceDiscover_Parse(r, f)
    [] r.msg.cls = "ServiceNode" -> ServiceNode_Parse(r, f)
    [] r.msg.cls = "ServiceDiscoverResult" -> ServiceDiscoverResult_Parse(r, f)
    [] r.msg.cls = "EchoRequest" -> EchoRequest_Parse(r, f)
    [] r.msg.cls = "EchoResponse" -> EchoResponse_Parse(r, f)
Serialize(m, order) ==
  CASE m.cls = "RpcRequest" -> RpcRequest_Serialize(m, order)
    [] m.cls = "RpcResponse" -> RpcResponse_Serialize(m)
    [] m.cls = "Heartbeat" -> Heartbeat_Serialize(m, order)
    [] m.cls = "ServiceRegister" -> ServiceRegister_Serialize(m, order)
    [] m.cls = "ServiceDiscover" -> ServiceDiscover_Serialize(m)
    [] m.cls = "ServiceNode" -> ServiceNode_Serialize(m, order)
    [] m.cls = "ServiceDiscoverResult" -> ServiceDiscoverResult_Serialize(m, order)
    [] m.cls = "EchoRequest" -> EchoRequest_Serialize(m)
    [] m.cls = "EchoResponse" -> EchoResponse_Serialize(m)
ByteSizeLong(m) ==
  CASE m.cls = "RpcRequest" -> RpcRequest_ByteSizeLong(m)
    [] m.cls = "RpcResponse" -> RpcResponse_ByteSizeLong(m)
    [] m.cls = "Heartbeat" -> Heartbeat_ByteSizeLong(m)
    [] m.cls = "ServiceRegister" -> ServiceRegister_ByteSizeLong(m)
    [] m.cls = "ServiceDiscover" -> ServiceDiscover_ByteSizeLong(m)
    [] m.cls = "ServiceNode" -> ServiceNode_ByteSizeLong(m)
    [] m.cls = "ServiceDiscoverResult" -> ServiceDiscoverResult_ByteSizeLong(m)
    [] m.cls = "EchoRequest" -> EchoRequest_ByteSizeLong(m)
    [] m.cls = "EchoResponse" -> EchoResponse_ByteSizeLong(m)
MergeFrom(m, from) ==
  CASE m.cls = "RpcRequest" -> RpcRequest_MergeFrom(m, from)
    [] m.cls = "RpcResponse" -> RpcResponse_MergeFrom(m, from)
    [] m.cls = "Heartbeat" -> Heartbeat_MergeFrom(m, from)
    [] m.cls = "ServiceRegister" -> ServiceRegister_MergeFrom(m, from)
    [] m.cls = "ServiceDiscover" -> ServiceDiscover_MergeFrom(m, from)
    [] m.cls = "ServiceNode" -> ServiceNode_MergeFrom(m, from)
    [] m.cls = "ServiceDiscoverResult" -> ServiceDiscoverResult_MergeFrom(m, from)
    [] m.cls = "EchoRequest" -> EchoRequest_MergeFrom(m, from)
    [] m.cls = "EchoResponse" -> EchoResponse_MergeFrom(m, from)
Accessors(m) ==
  CASE m.cls = "RpcRequest" -> RpcRequest_Accessors(m)
    [] m.cls = "RpcResponse" -> RpcResponse_Accessors(m)
    [] m.cls = "Heartbeat" -> Heartbeat_Accessors(m)
    [] m.cls = "ServiceRegister" -> ServiceRegister_Accessors(m)
    [] m.cls = "ServiceDiscover" -> ServiceDiscover_Accessors(m)
    [] m.cls = "ServiceNode" -> ServiceNode_Accessors(m)
    [] m.cls = "ServiceDiscoverResult" -> ServiceDiscoverResult_Accessors(m)
    [] m.cls = "EchoRequest" -> EchoRequest_Accessors(m)
    [] m.cls = "EchoResponse" -> EchoResponse_Accessors(m)
CopyFrom(m, from) == MergeFrom(Clear(m), from)

\* MessageLite: Clear(), then the loop of _InternalParse until a field is refused.
ParseFromString(m, wire) ==
  FoldLeft(LAMBDA r, f : IF r.ok THEN Parse(r, f) ELSE r, [msg |-> Clear(m), ok |-> TRUE], wire)

-----------------------------------------------------------------------------
(* The texts of a message that the format demands to be UTF-8 *)

StringFields == {"error_msg", "service_name", "node_id", "host", "message"}
MapFields == {"metadata", "extra", "tags"}
TextsIn(m) ==
  {m[n] : n \in DOMAIN m \cap StringFields}
  \cup UNION {DOMAIN m[n] \cup {m[n][k] : k \in DOMAIN m[n]} : n \in DOMAIN m \cap MapFields}
Strings(m) == IF m.cls = "ServiceDiscoverResult"
              THEN UNION {TextsIn(m.nodes[i]) : i \in DOMAIN m.nodes} ELSE TextsIn(m)
Utf8(m) == Strings(m) \cap NotUtf8 = {}
=============================================================================
