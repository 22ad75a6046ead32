------------------------------- MODULE Buffer -------------------------------
(***************************************************************************)
(* rpc::Buffer (src/network/buffer.{h,cc}): the bytes received and not yet *)
(* decoded, or buffered and not yet written, as a window of a vector that  *)
(* is moved to the front or grown when there is no room behind it.         *)
(*                                                                         *)
(* The k-th byte that is ever put in has the value k, so that what is      *)
(* read shows where it came from; 0 stands for bytes that were never set.  *)
(***************************************************************************)
EXTENDS Integers, Sequences

CONSTANTS
  kCheapPrepend, kInitialSize,
  ExtraSize,  \* sizeof(extrabuf) of readFd
  MaxBytes    \* bound on the bytes ever put in

ASSUME BufferConstants ==
  kCheapPrepend \in Nat /\ kInitialSize \in Nat /\ ExtraSize \in Nat /\ MaxBytes \in Nat

VARIABLES
  buffer,       \* buffer_; byte i of the code is buffer[i + 1]
  readerIndex, writerIndex,
  \* history, read by no step of the code
  appended,     \* how many bytes were put in
  taken,        \* how many were retrieved, read or not
  out           \* the bytes the last call handed out

vars == <<buffer, readerIndex, writerIndex, appended, taken, out>>

Init ==
  /\ buffer = [i \in 1 .. kCheapPrepend + kInitialSize |-> 0]
  /\ readerIndex = kCheapPrepend /\ writerIndex = kCheapPrepend
  /\ appended = 0 /\ taken = 0 /\ out = <<>>

-----------------------------------------------------------------------------
readableBytes == writerIndex - readerIndex
writableBytes == Len(buffer) - writerIndex
prependableBytes == readerIndex

\* The bytes of peek() .. peek() + n.
Peek(n) == SubSeq(buffer, readerIndex + 1, readerIndex + n)

\* What the caller puts in next.
Fresh(n) == [i \in 1 .. n |-> appended + i]

\* b with the bytes s written from index `at' on.
Written(b, at, s) == [i \in DOMAIN b |-> IF i - at \in DOMAIN s THEN s[i - at] ELSE b[i]]

\* A vector, its window, and room for n more bytes behind it.
Window(b, r, w) == [data |-> b, reader |-> r, writer |-> w]

\* Fault: the room in front is counted with the reserve that must stay there.
MakeSpace_IgnoresReserve(b, r, w, n) ==
  IF (Len(b) - w) + r < n
  THEN Window(b \o [i \in 1 .. (w + n) - Len(b) |-> 0], r, w)
  ELSE Window(Written(b, kCheapPrepend, SubSeq(b, r + 1, w)), kCheapPrepend, kCheapPrepend + (w - r))

MakeSpace(b, r, w, n) ==
  IF (Len(b) - w) + r < n + kCheapPrepend
  THEN Window(b \o [i \in 1 .. (w + n) - Len(b) |-> 0], r, w)
  ELSE Window(Written(b, kCheapPrepend, SubSeq(b, r + 1, w)), kCheapPrepend, kCheapPrepend + (w - r))

EnsureWritableBytes(b, r, w, n) == IF Len(b) - w < n THEN MakeSpace(b, r, w, n) ELSE Window(b, r, w)

\* append(): s is written behind the window of a buffer.
AppendTo(b, r, w, s) ==
  LET room == EnsureWritableBytes(b, r, w, Len(s))
  IN /\ buffer' = Written(room.data, room.writer, s)
     /\ readerIndex' = room.reader /\ writerIndex' = room.writer + Len(s)

AppendBytes(n) ==
  /\ appended + n <= MaxBytes /\ appended' = appended + n
  /\ AppendTo(buffer, readerIndex, writerIndex, Fresh(n))
  /\ out' = <<>> /\ UNCHANGED taken

RetrieveAll ==
  /\ readerIndex' = kCheapPrepend /\ writerIndex' = kCheapPrepend
  /\ taken' = appended

Retrieve(n) ==
  \/ /\ n < readableBytes
     /\ readerIndex' = readerIndex + n /\ taken' = taken + n /\ UNCHANGED writerIndex
  \/ n >= readableBytes /\ RetrieveAll

\* retrieve(), after a packet was decoded in place or dropped.
Drop(n) == Retrieve(n) /\ out' = <<>> /\ UNCHANGED <<buffer, appended>>

\* retrieveAsString(); with n >= readableBytes() it is retrieveAllAsString().
RetrieveAsString(n) ==
  LET len == IF n > readableBytes THEN readableBytes ELSE n
  IN out' = Peek(len) /\ Retrieve(len) /\ UNCHANGED <<buffer, appended>>

\* readFd() when n bytes have arrived: readv(2) fills the room behind the
\* window, then extrabuf, which is offered only when that room is smaller.
ReadFd(n) ==
  /\ n <= writableBytes \/ (writableBytes < ExtraSize /\ n <= writableBytes + ExtraSize)
  /\ appended + n <= MaxBytes /\ appended' = appended + n
  /\ LET first == IF n <= writableBytes THEN n ELSE writableBytes
         filled == Written(buffer, writerIndex, SubSeq(Fresh(n), 1, first))
     IN \/ /\ n <= writableBytes
           /\ buffer' = filled /\ writerIndex' = writerIndex + n /\ UNCHANGED readerIndex
        \/ /\ n > writableBytes
           /\ AppendTo(filled, readerIndex, Len(buffer), SubSeq(Fresh(n), first + 1, n))
  /\ out' = <<>> /\ UNCHANGED taken

\* writeFd() hands n bytes to the kernel; the caller retrieves those.
WriteFd(n) ==
  /\ n <= readableBytes /\ out' = Peek(n)
  /\ Retrieve(n) /\ UNCHANGED <<buffer, appended>>

Next == \E n \in 0 .. MaxBytes :
          AppendBytes(n) \/ Drop(n) \/ RetrieveAsString(n) \/ ReadFd(n) \/ WriteFd(n)

Spec == Init /\ [][Next]_vars

-----------------------------------------------------------------------------
TypeOK ==
  /\ buffer \in Seq(0 .. MaxBytes)
  /\ kCheapPrepend <= readerIndex /\ readerIndex <= writerIndex /\ writerIndex <= Len(buffer)
  /\ appended \in 0 .. MaxBytes /\ taken \in 0 .. appended

\* Whatever calls are made, the window lies behind the reserve and inside the
\* vector and holds exactly the bytes that were put in and not retrieved, in
\* order, through every move and growth; what a call hands out are the bytes
\* that were in front.
BufferIsQueue ==
  /\ kCheapPrepend <= readerIndex /\ writerIndex <= Len(buffer)
  /\ Peek(readableBytes) = [i \in 1 .. appended - taken |-> taken + i]
  /\ \A i \in DOMAIN out : i > 1 => out[i] = out[i - 1] + 1
  /\ out # <<>> => out[Len(out)] = taken
=============================================================================
