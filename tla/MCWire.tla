------------------------------- MODULE MCWire -------------------------------
(***************************************************************************)
(* What is between two programs, side by side: the buffers, the generated  *)
(* message classes, the codec with the server's dispatch, and the stream   *)
(* of packets and of bytes that are none, cut anywhere.  A behaviour       *)
(* exercises one of them and leaves the others as they were constructed.   *)
(***************************************************************************)
EXTENDS Buffer, RpcStreamState

CONSTANTS
  NotUtf8,      \* of the texts below
  MaxCalls,     \* of two messages
  MaxPackets    \* exchanged with the server

VARIABLES
  subject,  \* what is exercised
  left, right, calls,
  methods_, services_, started, serverPacket, clientPacket, last, packets

messageVars == <<left, right, calls>>
serverVars == <<methods_, services_, started, serverPacket, clientPacket, last, packets>>
streamVars == <<stream, wire, got, buf, decoding, handled, sent, start>>

\* A negative number takes ten bytes on the wire, 300 two; 300 is no int32 here.
Msgs == INSTANCE MessageCalls WITH
  Texts <- {"", "a", "bad"}, Keys <- {"k", "l"}, Ints <- {-1, 0, 300}, Int32Half <- 256

\* Lengths and counts fit below 3: a name of four bytes does not, nor do three
\* extras.  A request with three long metadata is one byte more than a buffer holds.
Server == INSTANCE RpcServer WITH
  Texts <- {"", "a", "xx", "long"}, Keys <- {"k", "l", "m"}, Ints <- {-1, 1}, Int32Half <- 256,
  U16 <- 3, U64 <- 16, kMaxBodyLen <- 64, kMaxBufferSize <- 64,
  Names <- {"m", "xx", "long"}, Services <- {"m"}, Methods <- {"", "m"}

Stream == INSTANCE RpcStream

MCInit ==
  /\ subject \in {"buffer", "messages", "server", "stream"}
  /\ Init /\ Msgs!Init /\ Server!Init /\ Stream!Init
  /\ subject # "messages" => left = Msgs!EchoRequest_New /\ right = left

MCNext ==
  \/ subject = "buffer" /\ Next /\ UNCHANGED <<subject, messageVars, serverVars, streamVars>>
  \/ subject = "messages" /\ Msgs!Next /\ UNCHANGED <<subject, vars, serverVars, streamVars>>
  \/ subject = "server" /\ Server!Next /\ UNCHANGED <<subject, vars, messageVars, streamVars>>
  \/ subject = "stream" /\ Stream!Next /\ UNCHANGED <<subject, vars, messageVars, serverVars>>

MCSpec == MCInit /\ [][MCNext]_<<subject, vars, messageVars, serverVars, streamVars>>

-----------------------------------------------------------------------------
\* The generated classes write what they announce, read back what they wrote,
\* and merge messages as their concatenation on the wire would; and a node that
\* knows a message as another class hands it on complete.
MessagesCarried ==
  Msgs!WireCarriesMessages /\ Msgs!MergeIsConcatenation /\ Msgs!RelaysKeepFields

\* Both ends of a connection agree on what a packet says; see RpcServer.
PacketsRoundTrip == Server!PacketsRoundTrip

\* A decoded request is answered once, under its id, whatever its handler does.
RequestsAnswered == Server!RequestsAnswered
=============================================================================
