---------------------------- MODULE MessageCalls ----------------------------
(***************************************************************************)
(* Two objects of the generated classes under any sequence of the calls    *)
(* that their interface offers, messages handed from one class to another  *)
(* included: a node may know less of a message than the node that wrote it.*)
(***************************************************************************)
EXTENDS Messages

CONSTANT MaxCalls  \* bound on the calls

VARIABLES
  left, right,  \* two objects of the generated classes
  calls         \* how many calls were made

vars == <<left, right, calls>>

Init == left \in News /\ right \in News /\ calls = 0

Call == calls < MaxCalls /\ calls' = calls + 1
SameClass == left.cls = right.cls

\* The pairs of classes of which the second can read what the first writes:
\* a field they share under one tag has one kind in both.
Reads(from, to) ==
  \/ from = to
  \/ to \in {"ServiceDiscover", "EchoRequest"} /\ from \in {"Heartbeat", "ServiceRegister", "RpcResponse"}
  \/ {from, to} = {"Heartbeat", "ServiceNode"}

Access == Call /\ left' \in Accessors(left) /\ UNCHANGED right
ClearCall == Call /\ left' = Clear(left) /\ UNCHANGED right
Merge == Call /\ SameClass /\ left' = MergeFrom(left, right) /\ UNCHANGED right
InternalSwap == Call /\ SameClass /\ left' = right /\ right' = left
CopyConstruct == Call /\ left' = MergeFrom(New(right.cls), right) /\ UNCHANGED right

\* SerializeToString() of one object, ParseFromString() into the other.
Transfer ==
  /\ Call /\ Reads(left.cls, right.cls)
  /\ \E order \in SetToSeqs(Keys) :
       right' = ParseFromString(right, Serialize(left, order)).msg
  /\ UNCHANGED left

Next == Access \/ ClearCall \/ Merge \/ InternalSwap \/ CopyConstruct \/ Transfer
Spec == Init /\ [][Next]_vars

-----------------------------------------------------------------------------
\* SerializeToString() writes exactly ByteSizeLong() bytes, which is what it
\* reserved; ParseFromString() into any object of the class, new or used,
\* gives the message back, unknown fields included, and refuses it exactly
\* when one of its strings is not UTF-8 (which the writer only logs).
WireCarriesMessages ==
  \A m \in {left, right}, order \in SetToSeqs(Keys) :
    LET wire == Serialize(m, order)
    IN /\ WireSize(wire) = ByteSizeLong(m)
       /\ \A old \in {left, right, New(m.cls)} : old.cls = m.cls =>
            LET r == ParseFromString(old, wire) IN r.ok = Utf8(m) /\ (r.ok => r.msg = m)

\* Parsing one message after the other into an object merges them as
\* MergeFrom() does, and CopyFrom() leaves nothing of what was there before.
MergeIsConcatenation ==
  SameClass =>
    /\ CopyFrom(left, right) = right
    /\ Utf8(left) /\ Utf8(right) =>
         \A o1, o2 \in SetToSeqs(Keys) :
           ParseFromString(left, Serialize(left, o1) \o Serialize(right, o2)).msg = MergeFrom(left, right)

Narrow(m) == "timestamp" \in DOMAIN m => m.timestamp \in Int32s

\* A message that passes through a node which knows it as another class comes
\* out as it went in: what that class does not know is kept and written again.
RelaysKeepFields ==
  Reads(left.cls, right.cls) /\ left.unknown = <<>> /\ Narrow(left) =>
    \A o1, o2 \in SetToSeqs(Keys) :
      LET relayed == ParseFromString(right, Serialize(left, o1))
          back == ParseFromString(left, Serialize(relayed.msg, o2))
      IN relayed.ok /\ back.ok => back.msg = left
=============================================================================
