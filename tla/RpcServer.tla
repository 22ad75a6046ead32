------------------------------ MODULE RpcServer ------------------------------
(***************************************************************************)
(* A client and a server exchange whole packets: RpcServer and RpcService  *)
(* (src/server) look the method up, run its handler and answer; the client *)
(* (RpcAsyncClient::onMessage, handleResponse) reads the answer.  Each end *)
(* decodes all packets of one read into one DecodedPacket.                 *)
(***************************************************************************)
EXTENDS Codec

CONSTANTS
  Names,      \* what a caller may ask for
  Services,   \* serviceName() of the services the server has
  Methods,    \* the names passed to registerMethod
  MaxPackets  \* bound on the exchanges

VARIABLES
  methods_,      \* service -> the methods registered with it
  services_,     \* the services registered with the server
  started,       \* start() was called
  serverPacket, clientPacket,  \* `decoded' of the onMessage that runs
  last,          \* the last exchange
  packets        \* how many there were

vars == <<methods_, services_, started, serverPacket, clientPacket, last, packets>>

\* A message text with what it is about appended; it is UTF-8 when that is.
About(text) == "?" \o text

NoExchange == [kind |-> "none"]
Init == /\ methods_ = [s \in Services |-> {}] /\ services_ = {} /\ started = FALSE
        /\ serverPacket = DecodedPacket /\ clientPacket = DecodedPacket
        /\ last = NoExchange /\ packets = 0

\* RpcService::registerMethod, which ignores an empty name.
RegisterMethod ==
  /\ ~started
  /\ \E s \in Services, m \in Methods \ {""} : methods_' = [methods_ EXCEPT ![s] = @ \cup {m}]
  /\ UNCHANGED <<services_, started, serverPacket, clientPacket, last, packets>>

RegisterService ==
  /\ ~started /\ \E s \in Services : services_' = services_ \cup {s}
  /\ UNCHANGED <<methods_, started, serverPacket, clientPacket, last, packets>>

Start == /\ ~started /\ started' = TRUE
         /\ UNCHANGED <<methods_, services_, serverPacket, clientPacket, last, packets>>

-----------------------------------------------------------------------------
(* What a handler does: it fills in the response, and returns or throws. *)

Succeeded == [RpcResponse_New EXCEPT !.success = TRUE]
Handlers ==
  [ends : {"returns"}, what : {""}, resp : SetTexts(Succeeded, "payload") \cup SetTexts(RpcResponse_New, "error_msg")]
  \cup [ends : {"throws"}, what : Texts, resp : {RpcResponse_New, Succeeded}]

\* RpcService::callMethod within the try of onMessage: what it leaves in resp.
callMethod_KeepsSuccess(known, method, h) ==
  IF ~known THEN [RpcResponse_New EXCEPT !.error_msg = About(method)]
  ELSE IF h.ends = "returns" THEN h.resp
  ELSE [h.resp EXCEPT !.error_msg = About(h.what)]

callMethod(known, method, h) ==
  IF ~known THEN [RpcResponse_New EXCEPT !.error_msg = About(method)]
  ELSE IF h.ends = "returns" THEN h.resp
  ELSE [h.resp EXCEPT !.success = FALSE, !.error_msg = About(h.what)]

Known(p) == p.service_name \in services_ /\ p.method_name \in methods_[p.service_name]

\* The response to a request, and the packet that carries it.
Answer(p, h) ==
  IF p.service_name \in services_ THEN callMethod(Known(p), p.method_name, h)
  ELSE [RpcResponse_New EXCEPT !.error_msg = About(p.service_name)]
AnswerPacket(p, resp) == encodeResponse(resp, p.req_id, IF resp.success THEN SUCCESS ELSE FAILED)

Ack == [Heartbeat_New EXCEPT !.service_name = "s", !.node_id = "n", !.timestamp = 1]

\* handleResponse: what the client tells its circuit breaker.
handleResponse(p) == IF p.network_status = SUCCESS THEN "recordSuccess" ELSE "recordFailure"

\* A packet is the first of a read, or follows others of the same one; a read
\* ends with the first packet that decode() refuses.
Onto(packet) == {packet, DecodedPacket}
After(got) == IF got.ok THEN got.packet ELSE DecodedPacket

\* Two of the orders in which a hash table may give its entries.
Orders == LET keys == SetToSeq(Keys) IN {keys, Reverse(keys)}

Requests == {[RpcRequest_New EXCEPT !.payload = p, !.metadata = [k \in ks |-> t]] :
               p \in {"", "a"}, ks \in {{}, Keys}, t \in Texts}
Heartbeats == {[Heartbeat_New EXCEPT !.service_name = s, !.timestamp = v, !.extra = [k \in ks |-> t]] :
                 s \in Names, v \in Ints, ks \in SUBSET Keys, t \in {"a", "long"}}

\* The client's onMessage: what it has of the reply, and what it does with it.
Receive(seen, reply, read) ==
  /\ last' = seen @@ [read |-> read, replySize |-> PacketSize(reply),
                      recorded |-> IF read.ok /\ seen.kind = "request"
                                   THEN handleResponse(read.packet) ELSE "none"]
  /\ clientPacket' = After(read)

\* The server's onMessage, once decode() returned got, and the reply's way back.
Serve(seen, h, got, client) ==
  LET resp == Answer(got.packet, h)
      served == seen @@ [got |-> got]
      reply == IF seen.kind = "request" THEN AnswerPacket(got.packet, resp)
               ELSE encodeHeartbeat(Ack, got.packet.req_id, <<>>)
  IN /\ serverPacket' = After(got)
     /\ IF got.ok
        THEN Receive(served @@ [resp |-> resp, handler |-> h,
                                ran |-> seen.kind = "request" /\ Known(got.packet)],
                     reply, decode(reply, client))
        ELSE last' = served /\ UNCHANGED clientPacket

\* A packet goes out, is answered, and the answer is read.
Exchange(kind, pkt, sent, h) ==
  LET made == [kind |-> kind, sent |-> sent, made |-> pkt # NoPacket, size |-> PacketSize(pkt)]
  IN IF pkt = NoPacket THEN last' = made /\ UNCHANGED <<serverPacket, clientPacket>>
     ELSE \E server \in Onto(serverPacket), client \in Onto(clientPacket) :
            Serve(made, h, decode(pkt, server), client)

NoHandler == [ends |-> "returns", resp |-> RpcResponse_New, what |-> ""]
Call ==
  \E req \in Requests, service \in Names, method \in Names, order \in Orders :
  \E h \in IF service \in services_ /\ method \in methods_[service] THEN Handlers ELSE {NoHandler} :
    Exchange("request", encodeRequest(req, packets + 1, service, method, order),
             [req |-> req, service |-> service, method |-> method, id |-> packets + 1], h)

Beat ==
  \E hb \in Heartbeats, order \in Orders :
    Exchange("heartbeat", encodeHeartbeat(hb, packets + 1, order),
             [hb |-> hb, id |-> packets + 1], NoHandler)

Packets == /\ started /\ packets < MaxPackets /\ packets' = packets + 1 /\ (Call \/ Beat)
           /\ UNCHANGED <<methods_, services_, started>>

Next == RegisterMethod \/ RegisterService \/ Start \/ Packets
Spec == Init /\ [][Next]_vars

-----------------------------------------------------------------------------
SentTexts == IF last.kind = "request" THEN {last.sent.service, last.sent.method} ELSE TextsIn(last.sent.hb)

\* The two ends agree on what a packet says, whatever the object it is decoded
\* into held before.  A packet is made unless a name is too long for its length
\* field, and decoded unless it is larger than a buffer may get (22 bytes before
\* the limit on its body), holds metadata that is not UTF-8, or has more extras
\* than their count can say.  Only extras may be left from an earlier heartbeat.
PacketsRoundTrip ==
  last.kind # "none" =>
    /\ last.made # (\E t \in SentTexts : Len(t) >= U16)
    /\ last.made =>
         last.got.ok = (/\ last.size <= kMaxBufferSize
                        /\ last.kind = "request" => Utf8(last.sent.req)
                        /\ last.kind = "heartbeat" => Cardinality(DOMAIN last.sent.hb.extra) < U16)
    /\ last.made /\ last.got.ok =>
         LET p == last.got.packet
         IN /\ p.req_id = last.sent.id
            /\ last.kind = "request" =>
                 /\ p.msg_type = "REQUEST" /\ p.rpc_request = last.sent.req
                 /\ p.service_name = last.sent.service /\ p.method_name = last.sent.method
            /\ last.kind = "heartbeat" =>
                 LET sent == last.sent.hb
                 IN /\ p.msg_type = "HEARTBEAT"
                    /\ [p.heartbeat EXCEPT !.extra = sent.extra] = sent
                    /\ \A k \in DOMAIN sent.extra :
                         k \in DOMAIN p.heartbeat.extra /\ p.heartbeat.extra[k] = sent.extra[k]

\* A decoded request is answered once, under its own id, whatever its handler does:
\* the caller reads the response that was made, unless a text in it is not UTF-8 (a
\* name that does not exist is repeated in it) or it is too large.  It succeeds
\* only when the method is registered and its handler returned.
RequestsAnswered ==
  "read" \in DOMAIN last =>
    /\ last.kind = "heartbeat" => last.read.ok
    /\ last.kind = "request" => last.read.ok = (Utf8(last.resp) /\ last.replySize <= kMaxBufferSize)
    /\ last.read.ok => last.read.packet.req_id = last.sent.id
    /\ last.kind = "request" /\ last.read.ok =>
         /\ last.read.packet.rpc_response = last.resp
         /\ last.ran = (last.sent.service \in services_ /\ last.sent.method \in methods_[last.sent.service])
         /\ last.resp.success => last.ran /\ last.handler.ends = "returns"
         /\ (last.read.packet.network_status = SUCCESS) = last.resp.success

\* handleResponse: "the breaker counts network and system failures only, a business
\* error does not trigger it" (rpc_async_client.cc:625); a handler that returns has
\* answered, whether it reports success or an error of its own.
BusinessErrorsDoNotTrip ==
  "read" \in DOMAIN last /\ last.ran /\ last.handler.ends = "returns" => last.recorded # "recordFailure"
=============================================================================
