----------------------------- MODULE WireProofs -----------------------------
(***************************************************************************)
(* Proofs about Buffer and RpcStream: for any reserve, sizes and number of *)
(* bytes, any packets of any kinds and lengths, any limits, and any way of *)
(* cutting a stream.                                                       *)
(***************************************************************************)
EXTENDS Buffer, RpcStreamState, SequenceTheorems, TLAPS

Stream == INSTANCE RpcStream

(***************************************************************************)
(* Buffer.  The inductive invariant says where the bytes that have not     *)
(* been retrieved are (Holds) and that the window is as long as they are   *)
(* many.                                                                   *)
(***************************************************************************)
(* The window r..w of b holds the bytes behind the first t. *)
Holds(b, r, w, t) ==
  /\ b \in Seq(Nat) /\ r \in Nat /\ w \in Nat
  /\ kCheapPrepend <= r /\ r <= w /\ w <= Len(b)
  /\ \A i \in 1..(w - r) : b[r + i] = t + i

HandedOut == /\ out \in Seq(Nat) /\ (out # <<>> => out[Len(out)] = taken)
             /\ \A i \in 1..Len(out) : i > 1 => out[i] = out[i - 1] + 1

BufferInv ==
  /\ appended \in Nat /\ taken \in Nat /\ writerIndex - readerIndex = appended - taken
  /\ Holds(buffer, readerIndex, writerIndex, taken) /\ HandedOut
-----------------------------------------------------------------------------
LEMMA WrittenBytes ==
  ASSUME NEW b \in Seq(Nat), NEW at \in Nat, NEW s \in Seq(Nat)
  PROVE  /\ Written(b, at, s) \in Seq(Nat) /\ Len(Written(b, at, s)) = Len(b)
         /\ \A i \in 1..Len(s) : at + i <= Len(b) => Written(b, at, s)[at + i] = s[i]
         /\ \A i \in 1..Len(b) : i <= at => Written(b, at, s)[i] = b[i]
<1> DEFINE x == [i \in 1..Len(b) |-> IF i - at \in 1..Len(s) THEN s[i - at] ELSE b[i]]
<1>1. Written(b, at, s) = x
  BY DEF Written
<1>2. \A i \in 1..Len(b) : x[i] \in Nat
  OBVIOUS
<1>3. x \in Seq(Nat) /\ Len(x) = Len(b)
  BY <1>2
<1>4. ASSUME NEW i \in 1..Len(s), at + i <= Len(b)
      PROVE  x[at + i] = s[i]
  <2>1. at + i \in 1..Len(b) /\ (at + i) - at = i
    BY <1>4
  <2> QED BY <2>1
<1>5. \A i \in 1..Len(b) : i <= at => x[i] = b[i]
  OBVIOUS
<1> QED BY <1>1, <1>3, <1>4, <1>5

(* makeSpace keeps the bytes of the window, and leaves room for n more. *)
LEMMA MadeSpace ==
  ASSUME NEW b, NEW r, NEW w, NEW t \in Nat, Holds(b, r, w, t), NEW n \in Nat, Len(b) - w < n
  PROVE  LET m == MakeSpace(b, r, w, n)
         IN  /\ Holds(m.data, m.reader, m.writer, t)
             /\ m.writer - m.reader = w - r /\ Len(m.data) - m.writer >= n
<1> DEFINE m == MakeSpace(b, r, w, n)
<1>0. /\ b \in Seq(Nat) /\ r \in Nat /\ w \in Nat /\ Len(b) \in Nat /\ kCheapPrepend \in Nat
      /\ kCheapPrepend <= r /\ r <= w /\ w <= Len(b)
      /\ \A i \in 1..(w - r) : b[r + i] = t + i
  BY BufferConstants DEF Holds
<1>1. CASE (Len(b) - w) + r < n + kCheapPrepend
  <2> DEFINE z == [i \in 1..((w + n) - Len(b)) |-> 0]
             x == b \o z
  <2>1. m = Window(x, r, w)
    BY <1>1 DEF MakeSpace
  <2>2. m.data = x /\ m.reader = r /\ m.writer = w
    <3> HIDE DEF x, m
    <3> QED BY <2>1 DEF Window
  <2>3. (w + n) - Len(b) \in Nat
    BY <1>0
  <2>4. z \in Seq(Nat) /\ Len(z) = (w + n) - Len(b)
    BY <2>3
  <2> HIDE DEF z
  <2>5. x \in Seq(Nat) /\ Len(x) = w + n /\ \A i \in 1..Len(b) : x[i] = b[i]
    BY <1>0, <2>3, <2>4
  <2> HIDE DEF x, m
  <2>6. ASSUME NEW i \in 1..(w - r)
        PROVE  x[r + i] = t + i
    <3>1. r + i \in 1..Len(b)
      BY <1>0
    <3> QED BY <1>0, <2>5, <3>1
  <2> QED BY <1>0, <2>2, <2>5, <2>6 DEF Holds, m
<1>2. CASE ~((Len(b) - w) + r < n + kCheapPrepend)
  <2> DEFINE s == SubSeq(b, r + 1, w)
             x == Written(b, kCheapPrepend, s)
  <2>1. m = Window(x, kCheapPrepend, kCheapPrepend + (w - r))
    BY <1>2 DEF MakeSpace
  <2>2. m.data = x /\ m.reader = kCheapPrepend /\ m.writer = kCheapPrepend + (w - r)
    <3> HIDE DEF x, m
    <3> QED BY <2>1 DEF Window
  <2>3. s \in Seq(Nat) /\ Len(s) = w - r /\ \A i \in 1..(w - r) : s[i] = b[r + i]
    BY <1>0
  <2> HIDE DEF s
  <2>4. /\ x \in Seq(Nat) /\ Len(x) = Len(b)
        /\ \A i \in 1..Len(s) : kCheapPrepend + i <= Len(b) => x[kCheapPrepend + i] = s[i]
    <3>1. b \in Seq(Nat) /\ kCheapPrepend \in Nat /\ s \in Seq(Nat)
      BY <1>0, <2>3
    <3> QED BY <3>1, WrittenBytes, Zenon
  <2> HIDE DEF x, m
  <2>5. ASSUME NEW i \in 1..(w - r)
        PROVE  x[kCheapPrepend + i] = t + i
    <3>1. kCheapPrepend + i <= Len(b) /\ i \in 1..Len(s)
      BY <1>0, <2>3
    <3> QED BY <1>0, <2>3, <2>4, <3>1, Zenon
  <2>6. \A i \in 1..((kCheapPrepend + (w - r)) - kCheapPrepend) : x[kCheapPrepend + i] = t + i
    BY <1>0, <2>5
  <2>7. Holds(x, kCheapPrepend, kCheapPrepend + (w - r), t)
    BY <1>0, <2>4, <2>6 DEF Holds
  <2> QED BY <1>0, <1>2, <2>2, <2>4, <2>7 DEF m
<1> QED BY <1>1, <1>2

(* append puts what it is given behind the window. *)
LEMMA Appended ==
  ASSUME NEW b, NEW r, NEW w, NEW t \in Nat, Holds(b, r, w, t),
         NEW s \in Seq(Nat), \A i \in 1..Len(s) : s[i] = t + (w - r) + i, AppendTo(b, r, w, s)
  PROVE  /\ Holds(buffer', readerIndex', writerIndex', t)
         /\ writerIndex' - readerIndex' = (w - r) + Len(s)
<1> DEFINE room == EnsureWritableBytes(b, r, w, Len(s))
           d == room.data
           p == room.reader
           e == room.writer
<1>1. Holds(d, p, e, t) /\ e - p = w - r /\ Len(d) - e >= Len(s)
  <2>1. CASE Len(b) - w < Len(s)
    BY <2>1, MadeSpace DEF EnsureWritableBytes
  <2>2. CASE ~(Len(b) - w < Len(s))
    <3>1. d = b /\ p = r /\ e = w
      BY <2>2 DEF EnsureWritableBytes, Window
    <3> QED BY <2>2, <3>1 DEF Holds
  <2> QED BY <2>1, <2>2
<1>2. buffer' = Written(d, e, s) /\ readerIndex' = p /\ writerIndex' = e + Len(s)
  BY DEF AppendTo
<1> HIDE DEF d, p, e
<1>3. /\ d \in Seq(Nat) /\ p \in Nat /\ e \in Nat /\ kCheapPrepend <= p /\ p <= e
      /\ e + Len(s) <= Len(d) /\ \A i \in 1..(e - p) : d[p + i] = t + i
  BY <1>1 DEF Holds
<1>4. /\ buffer' \in Seq(Nat) /\ Len(buffer') = Len(d)
      /\ \A i \in 1..Len(s) : e + i <= Len(d) => buffer'[e + i] = s[i]
      /\ \A i \in 1..Len(d) : i <= e => buffer'[i] = d[i]
  <2>1. d \in Seq(Nat) /\ e \in Nat
    BY <1>3
  <2> QED BY <1>2, <2>1, WrittenBytes
<1>5. ASSUME NEW i \in 1..((e + Len(s)) - p)
      PROVE  buffer'[p + i] = t + i
  <2>1. CASE i <= e - p
    <3>1. p + i \in 1..Len(d) /\ p + i <= e /\ i \in 1..(e - p)
      BY <1>3, <2>1
    <3> QED BY <1>3, <1>4, <3>1
  <2>2. CASE i > e - p
    <3>1. PICK j \in 1..Len(s) : i = (e - p) + j
      BY <1>3, <2>2
    <3>2. p + i = e + j /\ e + j <= Len(d)
      BY <1>3, <3>1
    <3>3. buffer'[p + i] = t + (w - r) + j
      BY <1>4, <3>2
    <3> QED BY <1>1, <1>3, <3>1, <3>3 DEF Holds
  <2> QED BY <1>3, <2>1, <2>2
<1>6. /\ readerIndex' \in Nat /\ writerIndex' \in Nat /\ kCheapPrepend <= readerIndex'
      /\ readerIndex' <= writerIndex' /\ writerIndex' <= Len(buffer')
      /\ \A i \in 1..(writerIndex' - readerIndex') : buffer'[readerIndex' + i] = t + i
  <2>1. Len(s) \in Nat /\ Len(d) \in Nat /\ kCheapPrepend \in Nat
    BY BufferConstants, <1>3
  <2>2. e + Len(s) \in Nat /\ p <= e + Len(s)
    BY <1>3, <2>1
  <2> QED BY <1>2, <1>3, <1>4, <1>5, <2>1, <2>2
<1>7. writerIndex' - readerIndex' = (w - r) + Len(s)
  <2>1. w \in Nat /\ r \in Nat /\ Len(s) \in Nat
    BY DEF Holds
  <2>2. e - p = w - r /\ e \in Nat /\ p \in Nat
    BY <1>1, <1>3
  <2>3. (e + Len(s)) - p = (e - p) + Len(s)
    BY <2>1, <2>2
  <2> QED BY <1>2, <2>2, <2>3, Zenon
<1> QED BY <1>4, <1>6, <1>7, Zenon DEF Holds
-----------------------------------------------------------------------------
LEMMA FreshBytes ==
  ASSUME appended \in Nat, NEW n \in Nat
  PROVE  /\ Fresh(n) \in Seq(Nat) /\ Len(Fresh(n)) = n
         /\ \A i \in 1..n : Fresh(n)[i] = appended + i
  BY DEF Fresh

(* What stands in front of the window. *)
LEMMA Peeked ==
  ASSUME BufferInv, NEW n \in Nat, n <= readableBytes
  PROVE  /\ Peek(n) \in Seq(Nat) /\ Len(Peek(n)) = n
         /\ \A i \in 1..n : Peek(n)[i] = taken + i
<1>1. /\ buffer \in Seq(Nat) /\ readerIndex \in Nat /\ writerIndex \in Nat
      /\ writerIndex <= Len(buffer) /\ readerIndex + n <= writerIndex
      /\ \A i \in 1..(writerIndex - readerIndex) : buffer[readerIndex + i] = taken + i
  BY DEF BufferInv, Holds, readableBytes
<1>2. /\ Peek(n) \in Seq(Nat) /\ Len(Peek(n)) = n
      /\ \A i \in 1..n : Peek(n)[i] = buffer[readerIndex + i]
  BY <1>1 DEF Peek
<1>3. \A i \in 1..n : i \in 1..(writerIndex - readerIndex)
  BY <1>1
<1> QED BY <1>1, <1>2, <1>3, Zenon

(* retrieve moves the front of the window. *)
LEMMA Retrieved ==
  ASSUME BufferInv, NEW n \in Nat, Retrieve(n), UNCHANGED <<buffer, appended>>
  PROVE  /\ taken' \in Nat /\ writerIndex' - readerIndex' = appended - taken'
         /\ Holds(buffer, readerIndex', writerIndex', taken')
         /\ n <= readableBytes => taken' = taken + n
<1>1. /\ buffer \in Seq(Nat) /\ readerIndex \in Nat /\ writerIndex \in Nat /\ Len(buffer) \in Nat
      /\ kCheapPrepend \in Nat /\ kCheapPrepend <= readerIndex /\ readerIndex <= writerIndex
      /\ writerIndex <= Len(buffer) /\ appended \in Nat /\ taken \in Nat
      /\ writerIndex - readerIndex = appended - taken
      /\ \A i \in 1..(writerIndex - readerIndex) : buffer[readerIndex + i] = taken + i
  BY BufferConstants DEF BufferInv, Holds
<1>2. CASE /\ n < readableBytes
           /\ readerIndex' = readerIndex + n /\ taken' = taken + n /\ UNCHANGED writerIndex
  <2>1. ASSUME NEW i \in 1..(writerIndex - (readerIndex + n))
        PROVE  buffer[(readerIndex + n) + i] = (taken + n) + i
    <3>1. n + i \in 1..(writerIndex - readerIndex)
      BY <1>1
    <3>2. buffer[readerIndex + (n + i)] = taken + (n + i)
      BY <1>1, <3>1, Zenon
    <3>3. readerIndex + (n + i) = (readerIndex + n) + i
      BY <1>1
    <3> QED BY <1>1, <3>2, <3>3
  <2> QED BY <1>1, <1>2, <2>1 DEF Holds, readableBytes
<1>3. CASE n >= readableBytes /\ RetrieveAll
  BY <1>1, <1>3 DEF Holds, readableBytes, RetrieveAll
<1> QED BY <1>2, <1>3 DEF Retrieve
-----------------------------------------------------------------------------
(* What is put in goes behind the window. *)
LEMMA PutKeeps ==
  ASSUME BufferInv, NEW n \in Nat, AppendBytes(n) \/ ReadFd(n)
  PROVE  BufferInv'
<1>0. /\ buffer \in Seq(Nat) /\ readerIndex \in Nat /\ writerIndex \in Nat /\ Len(buffer) \in Nat
      /\ kCheapPrepend <= readerIndex /\ readerIndex <= writerIndex
      /\ writerIndex <= Len(buffer) /\ appended \in Nat /\ taken \in Nat
      /\ writerIndex - readerIndex = appended - taken
      /\ Holds(buffer, readerIndex, writerIndex, taken)
      /\ \A i \in 1..(writerIndex - readerIndex) : buffer[readerIndex + i] = taken + i
  BY DEF BufferInv, Holds
<1>1. /\ appended' = appended + n /\ appended' \in Nat /\ taken' = taken /\ HandedOut'
  <2>1. appended' = appended + n /\ taken' = taken /\ out' = <<>>
    BY DEF AppendBytes, ReadFd
  <2>2. HandedOut'
    BY <2>1 DEF HandedOut
  <2> QED BY <1>0, <2>1, <2>2
<1>2. /\ Fresh(n) \in Seq(Nat) /\ Len(Fresh(n)) = n
      /\ \A i \in 1..n : Fresh(n)[i] = appended + i
  BY <1>0, FreshBytes, Zenon
<1> SUFFICES /\ Holds(buffer', readerIndex', writerIndex', taken)
             /\ writerIndex' - readerIndex' = (writerIndex - readerIndex) + n
  <2>1. (writerIndex - readerIndex) + n = appended' - taken'
    BY <1>0, <1>1
  <2> QED BY <1>0, <1>1, <2>1, Zenon DEF BufferInv
<1>3. CASE AppendBytes(n)
  <2>1. AppendTo(buffer, readerIndex, writerIndex, Fresh(n))
    BY <1>3 DEF AppendBytes
  <2>2. \A i \in 1..Len(Fresh(n)) : Fresh(n)[i] = taken + (writerIndex - readerIndex) + i
    <3>1. taken + (writerIndex - readerIndex) = appended
      BY <1>0
    <3> QED BY <1>2, <3>1
  <2> QED BY <1>0, <1>2, <2>1, <2>2, Appended, SMTT(30)
<1>4. CASE ReadFd(n)
  <2> DEFINE first == IF n <= writableBytes THEN n ELSE writableBytes
             s == SubSeq(Fresh(n), 1, first)
             rest == SubSeq(Fresh(n), first + 1, n)
             filled == Written(buffer, writerIndex, s)
  <2>1. \/ /\ n <= writableBytes
           /\ buffer' = filled /\ writerIndex' = writerIndex + n /\ readerIndex' = readerIndex
        \/ /\ n > writableBytes /\ AppendTo(filled, readerIndex, Len(buffer), rest)
    BY <1>4 DEF ReadFd
  <2>2. first \in Nat /\ first <= n /\ writerIndex + first <= Len(buffer)
    BY <1>0 DEF writableBytes
  <2>3. /\ n <= writableBytes => first = n
        /\ n > writableBytes => writerIndex + first = Len(buffer)
    BY <1>0 DEF writableBytes
  <2> HIDE DEF first
  <2>4. s \in Seq(Nat) /\ Len(s) = first /\ \A i \in 1..first : s[i] = appended + i
    BY <1>2, <2>2
  <2>5. /\ rest \in Seq(Nat) /\ Len(rest) = n - first
        /\ \A i \in 1..(n - first) : rest[i] = appended + first + i
    BY <1>0, <1>2, <2>2
  <2> HIDE DEF s, rest
  <2>6. /\ filled \in Seq(Nat) /\ Len(filled) = Len(buffer)
        /\ \A i \in 1..first : filled[writerIndex + i] = s[i]
        /\ \A i \in 1..Len(buffer) : i <= writerIndex => filled[i] = buffer[i]
    <3>1. buffer \in Seq(Nat) /\ writerIndex \in Nat /\ s \in Seq(Nat)
      BY <1>0, <2>4
    <3>2. /\ filled \in Seq(Nat) /\ Len(filled) = Len(buffer)
          /\ \A i \in 1..Len(s) : writerIndex + i <= Len(buffer) => filled[writerIndex + i] = s[i]
          /\ \A i \in 1..Len(buffer) : i <= writerIndex => filled[i] = buffer[i]
      BY <3>1, WrittenBytes
    <3> HIDE DEF filled
    <3>3. \A i \in 1..first : writerIndex + i <= Len(buffer)
      BY <1>0, <2>2
    <3> QED BY <2>4, <3>2, <3>3
  <2> HIDE DEF filled
  <2>7. ASSUME NEW i \in 1..((writerIndex + first) - readerIndex)
        PROVE  filled[readerIndex + i] = taken + i
    <3>1. CASE i <= writerIndex - readerIndex
      <4>1. /\ readerIndex + i \in 1..Len(buffer) /\ readerIndex + i <= writerIndex
            /\ i \in 1..(writerIndex - readerIndex)
        BY <1>0, <2>2, <3>1
      <4> QED BY <1>0, <2>6, <4>1
    <3>2. CASE i > writerIndex - readerIndex
      <4>1. PICK j \in 1..first : i = (writerIndex - readerIndex) + j
        BY <1>0, <2>2, <3>2
      <4>2. readerIndex + i = writerIndex + j /\ taken + i = appended + j
        BY <1>0, <2>2, <4>1
      <4> QED BY <2>4, <2>6, <4>2
    <3> QED BY <1>0, <2>2, <3>1, <3>2
  <2>8. Holds(filled, readerIndex, writerIndex + first, taken)
    BY <1>0, <2>2, <2>6, <2>7 DEF Holds
  <2>9. CASE n <= writableBytes
    BY <1>0, <2>1, <2>3, <2>8, <2>9 DEF writableBytes
  <2>10. CASE n > writableBytes
    <3>1. AppendTo(filled, readerIndex, Len(buffer), rest)
      BY <1>0, <2>1, <2>10 DEF writableBytes
    <3>2. Holds(filled, readerIndex, Len(buffer), taken)
      BY <2>3, <2>8, <2>10
    <3>3. \A i \in 1..Len(rest) : rest[i] = taken + (Len(buffer) - readerIndex) + i
      <4>1. taken + (Len(buffer) - readerIndex) = appended + first
        BY <1>0, <2>2, <2>3, <2>10, SMTT(30)
      <4> QED BY <2>5, <4>1
    <3>4. /\ Holds(buffer', readerIndex', writerIndex', taken)
          /\ writerIndex' - readerIndex' = (Len(buffer) - readerIndex) + Len(rest)
      BY <1>0, <2>5, <3>1, <3>2, <3>3, Appended, SMTT(30)
    <3>5. (Len(buffer) - readerIndex) + (n - first) = (writerIndex - readerIndex) + n
      BY <1>0, <2>2, <2>3, <2>10
    <3> QED BY <2>5, <3>4, <3>5
  <2> QED BY <1>0, <2>9, <2>10 DEF writableBytes
<1> QED BY <1>3, <1>4

(* What is taken out comes from the front of the window. *)
LEMMA TakeKeeps ==
  ASSUME BufferInv, NEW n \in Nat, Drop(n) \/ RetrieveAsString(n) \/ WriteFd(n)
  PROVE  BufferInv'
<1>0. readableBytes \in Nat
  BY DEF BufferInv, Holds, readableBytes
<1>1. CASE Drop(n)
  <2>1. Retrieve(n) /\ UNCHANGED <<buffer, appended>> /\ out' = <<>>
    BY <1>1 DEF Drop
  <2>2. HandedOut'
    BY <2>1 DEF HandedOut
  <2> QED BY <2>1, <2>2, Retrieved DEF BufferInv
<1>2. ASSUME NEW len \in Nat, len <= readableBytes, Retrieve(len),
             UNCHANGED <<buffer, appended>>, out' = Peek(len)
      PROVE  BufferInv'
  <2>1. /\ out' \in Seq(Nat) /\ Len(out') = len /\ \A i \in 1..len : out'[i] = taken + i
    BY <1>2, Peeked
  <2>2. taken' = taken + len /\ taken \in Nat
    BY <1>2, Retrieved DEF BufferInv
  <2>3. HandedOut'
    <3>1. out' # <<>> => out'[Len(out')] = taken'
      BY <2>1, <2>2
    <3>2. \A i \in 1..Len(out') : i > 1 => out'[i] = out'[i - 1] + 1
      BY <2>1, <2>2
    <3> QED BY <2>1, <3>1, <3>2 DEF HandedOut
  <2> QED BY <1>2, <2>3, Retrieved DEF BufferInv
<1>3. CASE RetrieveAsString(n)
  BY <1>0, <1>2, <1>3 DEF RetrieveAsString
<1>4. CASE WriteFd(n)
  BY <1>2, <1>4 DEF WriteFd
<1> QED BY <1>1, <1>3, <1>4

(* Whatever the sizes and the calls, the buffer is a queue of bytes. *)
THEOREM BytesInOrder == Spec => []BufferIsQueue
<1>1. Init => BufferInv
  BY BufferConstants DEF Init, BufferInv, Holds, HandedOut
<1>2. BufferInv /\ [Next]_vars => BufferInv'
  <2> SUFFICES ASSUME BufferInv, [Next]_vars PROVE BufferInv'
    OBVIOUS
  <2>1. CASE UNCHANGED vars
    BY <2>1 DEF vars, BufferInv, Holds, HandedOut
  <2>2. CASE Next
    <3>1. PICK n \in 0..MaxBytes :
            AppendBytes(n) \/ Drop(n) \/ RetrieveAsString(n) \/ ReadFd(n) \/ WriteFd(n)
      BY <2>2 DEF Next
    <3>2. n \in Nat
      BY BufferConstants
    <3> QED BY <3>1, <3>2, PutKeeps, TakeKeeps
  <2> QED BY <2>1, <2>2
<1>3. BufferInv => BufferIsQueue
  <2> SUFFICES ASSUME BufferInv PROVE BufferIsQueue
    OBVIOUS
  <2>1. /\ readableBytes \in Nat /\ readableBytes = appended - taken
        /\ kCheapPrepend <= readerIndex /\ writerIndex <= Len(buffer)
        /\ taken \in Nat /\ appended \in Nat
    BY DEF BufferInv, Holds, readableBytes
  <2>2. /\ Peek(readableBytes) \in Seq(Nat) /\ Len(Peek(readableBytes)) = readableBytes
        /\ \A i \in 1..readableBytes : Peek(readableBytes)[i] = taken + i
    BY <2>1, Peeked
  <2>3. Peek(readableBytes) = [i \in 1..(appended - taken) |-> taken + i]
    <3> DEFINE x == [i \in 1..(appended - taken) |-> taken + i]
    <3>1. x \in Seq(Nat) /\ Len(x) = readableBytes /\ \A i \in 1..readableBytes : x[i] = taken + i
      BY <2>1
    <3> HIDE DEF x
    <3>2. Peek(readableBytes) = x
      BY <2>2, <3>1, SeqEqual, Zenon
    <3> QED BY <3>2 DEF x
  <2>4. DOMAIN out = 1..Len(out)
    BY DEF BufferInv, HandedOut
  <2> QED BY <2>1, <2>3, <2>4 DEF BufferIsQueue, BufferInv, HandedOut
<1> QED BY <1>1, <1>2, <1>3, PTL DEF Spec
-----------------------------------------------------------------------------
(***************************************************************************)
(* RpcStream.  The inductive invariant keeps, for every packet, where it   *)
(* lies in what the peer has written (Laid); the buffer is a window of     *)
(* that (Windowed), and what is before the window has been consumed.       *)
(***************************************************************************)
Packets == [kind : AllKinds, len : Nat]
PartNames == {"mag", "ic", "head", "body"}
UnitSet == [part : PartNames, pkt : Nat]

(* How much of the stream has left the buffer, and where a packet ends. *)
Consumed == got - Len(buf)
End(i) == start[i] + Size(stream[i])

Typed == /\ stream \in Seq(Packets) /\ start \in Seq(Nat) /\ Len(start) = Len(stream)
         /\ wire \in Seq(UnitSet) /\ buf \in Seq(UnitSet)
         /\ got \in Nat /\ got <= Len(wire) /\ Len(buf) <= got

(* The packets lie one behind the other. *)
Laid ==
  /\ \A i \in 1..Len(stream) : \A j \in 1..Size(stream[i]) :
       wire[start[i] + j] = Unit(Part(stream[i], j), i)
  /\ \A k \in 1..Len(wire) : \E i \in 1..Len(stream) : \E j \in 1..Size(stream[i]) : k = start[i] + j
  /\ \A i, j \in 1..Len(stream) : i < j => End(i) <= start[j]
  /\ \A i \in 1..Len(stream) : End(i) <= Len(wire)
  /\ \A i \in 1..Len(stream) : End(i) = Len(wire) \/ \E j \in 1..Len(stream) : start[j] = End(i)

Windowed == \A j \in 1..Len(buf) : buf[j] = wire[Consumed + j]

Base == Typed /\ Laid /\ Windowed

(* What was handled lies before the window. *)
Ordered ==
  /\ handled \in Seq(Nat) /\ Increasing(handled)
  /\ \A h \in 1..Len(handled) :
       handled[h] \in 1..Len(stream) /\ Good(handled[h]) /\ End(handled[h]) <= Consumed

(* What was answered are the requests and heartbeats among it. *)
Answered ==
  /\ sent \in Seq(Nat) /\ Increasing(sent)
  /\ \A k \in 1..Len(sent) : Handled(sent[k]) /\ stream[sent[k]].kind # "response"
  /\ \A h \in 1..Len(handled) : stream[handled[h]].kind # "response" =>
       \E k \in 1..Len(sent) : sent[k] = handled[h]

(* A framed stream that fits is consumed packet by packet. *)
AllFramed == Fits /\ \A i \in 1..Len(stream) : Framed(i)
ByPacket == AllFramed =>
  /\ Consumed = Len(wire) \/ \E i \in 1..Len(stream) : start[i] = Consumed
  /\ \A i \in 1..Len(stream) : Good(i) => Handled(i) \/ start[i] >= Consumed

(* When onMessage has returned, no complete packet waits in a good stream. *)
AllGood == Fits /\ \A i \in 1..Len(stream) : Good(i)
Drained == (AllGood /\ ~decoding) =>
  \A i \in 1..Len(stream) : start[i] = Consumed => Len(buf) < Size(stream[i])

StreamInv == Base /\ Ordered /\ Answered /\ ByPacket /\ Drained
-----------------------------------------------------------------------------
LEMMA Sizes ==
  ASSUME NEW p \in Packets
  PROVE  /\ Size(p) \in Nat /\ Size(p) >= 1 /\ p.len \in Nat /\ p.kind \in AllKinds
         /\ p.kind \notin {"noise", "huge"} => Size(p) = HeaderSize + p.len + ChecksumSize
         /\ p.kind # "noise" => Size(p) >= HeaderSize
  BY DEF Packets, Size, HeaderSize, ChecksumSize

LEMMA Parts ==
  ASSUME NEW p \in Packets, NEW j \in Nat, 1 <= j
  PROVE  /\ Part(p, j) \in PartNames
         /\ Part(p, j) = "mag" => j = 1 /\ p.kind # "noise"
         /\ p.kind # "noise" => Part(p, 1) = "mag" /\ Part(p, 2) = "ic"
<1>1. Part(p, j) \in PartNames
  BY DEF Part, PartNames
<1>2. ASSUME Part(p, j) = "mag" PROVE j = 1 /\ p.kind # "noise"
  BY <1>2 DEF Part
<1>3. ASSUME p.kind # "noise" PROVE Part(p, 1) = "mag" /\ Part(p, 2) = "ic"
  BY <1>3 DEF Part, HeaderSize
<1> QED BY <1>1, <1>2, <1>3

LEMMA UnitsOf ==
  ASSUME NEW p \in Packets, NEW i \in Nat
  PROVE  /\ Units(p, i) \in Seq(UnitSet) /\ Len(Units(p, i)) = Size(p)
         /\ \A j \in 1..Size(p) : Units(p, i)[j] = Unit(Part(p, j), i)
<1>1. Size(p) \in Nat
  BY Sizes
<1>2. \A j \in 1..Size(p) : Unit(Part(p, j), i) \in UnitSet
  BY <1>1, Parts DEF Unit, UnitSet
<1> QED BY <1>1, <1>2 DEF Units

(* A magic at the head of the buffer is where its packet begins. *)
LEMMA MagicHead ==
  ASSUME Base, Stream!MagicAt(1)
  PROVE  /\ buf[1].pkt \in 1..Len(stream) /\ start[buf[1].pkt] = Consumed
         /\ Stream!First = stream[buf[1].pkt] /\ Stream!First \in Packets /\ Stream!First.kind # "noise"
<1>1. /\ Len(buf) \in Nat /\ Len(buf) >= 1 /\ Len(wire) \in Nat /\ Consumed \in Nat
      /\ Consumed + 1 \in 1..Len(wire)
      /\ buf[1] = wire[Consumed + 1] /\ buf[1].part = "mag"
  BY DEF Base, Typed, Windowed, Stream!MagicAt, Consumed
<1>2. PICK i \in 1..Len(stream) : \E j \in 1..Size(stream[i]) : Consumed + 1 = start[i] + j
  BY <1>1 DEF Base, Laid
<1>3. PICK j \in 1..Size(stream[i]) : Consumed + 1 = start[i] + j
  BY <1>2
<1>4. stream[i] \in Packets /\ start[i] \in Nat
  BY DEF Base, Typed
<1>5. j \in Nat /\ 1 <= j
  BY <1>4, Sizes
<1>6. buf[1] = Unit(Part(stream[i], j), i)
  BY <1>1, <1>3 DEF Base, Laid
<1>7. buf[1].pkt = i /\ Part(stream[i], j) = "mag"
  BY <1>1, <1>6 DEF Unit
<1>8. j = 1 /\ stream[i].kind # "noise"
  BY <1>4, <1>5, <1>7, Parts
<1> QED BY <1>1, <1>3, <1>4, <1>7, <1>8 DEF Stream!First

(* In a framed stream the buffer begins with a magic. *)
LEMMA FramedHead ==
  ASSUME Base, ByPacket, AllFramed, Len(buf) >= HeaderSize
  PROVE  Stream!MagicAt(1) /\ Framed(buf[1].pkt)
<1>1. /\ Len(buf) \in Nat /\ Len(buf) >= 3 /\ Len(wire) \in Nat /\ Consumed \in Nat
      /\ Consumed + 2 <= Len(wire)
      /\ buf[1] = wire[Consumed + 1] /\ buf[2] = wire[Consumed + 2]
  BY DEF Base, Typed, Windowed, Consumed, HeaderSize
<1>2. PICK i \in 1..Len(stream) : start[i] = Consumed
  BY <1>1 DEF ByPacket
<1>3. stream[i] \in Packets /\ Framed(i)
  BY DEF Base, Typed, AllFramed
<1>4. stream[i].kind # "noise" /\ stream[i].kind # "huge"
  BY <1>3 DEF Framed, Good
<1>5. 1 \in 1..Size(stream[i]) /\ 2 \in 1..Size(stream[i])
  BY <1>3, <1>4, Sizes DEF HeaderSize
<1>6. buf[1] = Unit("mag", i) /\ buf[2] = Unit("ic", i)
  <2>1. Part(stream[i], 1) = "mag" /\ Part(stream[i], 2) = "ic"
    BY <1>3, <1>4, Parts
  <2>2. wire[start[i] + 1] = Unit(Part(stream[i], 1), i) /\ wire[start[i] + 2] = Unit(Part(stream[i], 2), i)
    BY <1>5 DEF Base, Laid
  <2> QED BY <1>1, <1>2, <2>1, <2>2
<1> QED BY <1>1, <1>3, <1>6 DEF Stream!MagicAt, Unit
-----------------------------------------------------------------------------
(* What a write of the peer adds. *)
LEMMA PeerAdds ==
  ASSUME Base, NEW p \in [kind : Kinds, len : Lens], Stream!PeerSends(p)
  PROVE  LET n == Len(stream)
             m == Len(wire)
         IN  /\ p \in Packets /\ n \in Nat /\ m \in Nat /\ Consumed' = Consumed
             /\ stream' \in Seq(Packets) /\ Len(stream') = n + 1
             /\ start' \in Seq(Nat) /\ Len(start') = n + 1
             /\ wire' \in Seq(UnitSet) /\ Len(wire') = m + Size(p)
             /\ Size(p) \in Nat /\ Size(p) >= 1
             /\ \A i \in 1..n : stream'[i] = stream[i] /\ start'[i] = start[i]
             /\ stream'[n + 1] = p /\ start'[n + 1] = m
             /\ \A k \in 1..m : wire'[k] = wire[k]
             /\ \A j \in 1..Size(p) : wire'[m + j] = Unit(Part(p, j), n + 1)
<1> DEFINE n == Len(stream)
           m == Len(wire)
           u == Units(p, n + 1)
<1>1. /\ stream \in Seq(Packets) /\ start \in Seq(Nat) /\ wire \in Seq(UnitSet)
      /\ n \in Nat /\ m \in Nat /\ Len(start) = n
  BY DEF Base, Typed
<1>2. p \in Packets
  <2>1. Lens \subseteq Nat /\ Kinds \subseteq AllKinds
    BY StreamConstants
  <2> QED BY <2>1, Zenon DEF Packets
<1>3. Size(p) \in Nat /\ Size(p) >= 1
  BY <1>2, Sizes
<1>4. u \in Seq(UnitSet) /\ Len(u) = Size(p) /\ \A j \in 1..Size(p) : u[j] = Unit(Part(p, j), n + 1)
  BY <1>1, <1>2, UnitsOf
<1>5. /\ stream' = Append(stream, p) /\ wire' = wire \o u /\ start' = Append(start, m)
      /\ got' = got /\ buf' = buf
  BY DEF Stream!PeerSends, Stream!Units, Stream!Unit, Stream!Size, Stream!Part, Stream!HeaderSize,
         Stream!ChecksumSize, Units, Unit, Size, Part, HeaderSize, ChecksumSize
<1> HIDE DEF u, m, n
<1>6. /\ stream' \in Seq(Packets) /\ Len(stream') = n + 1 /\ stream'[n + 1] = p
      /\ \A i \in 1..n : stream'[i] = stream[i]
  BY <1>1, <1>2, <1>5, AppendProperties DEF n
<1>7. /\ start' \in Seq(Nat) /\ Len(start') = n + 1 /\ start'[n + 1] = m
      /\ \A i \in 1..n : start'[i] = start[i]
  BY <1>1, <1>5, AppendProperties
<1>8. /\ wire' \in Seq(UnitSet) /\ Len(wire') = m + Size(p)
      /\ \A k \in 1..m : wire'[k] = wire[k]
      /\ \A j \in 1..Size(p) : wire'[m + j] = u[j]
  <2>1. /\ wire \o u \in Seq(UnitSet) /\ Len(wire \o u) = Len(wire) + Len(u)
        /\ \A i \in 1..Len(wire) + Len(u) :
             (wire \o u)[i] = IF i <= Len(wire) THEN wire[i] ELSE u[i - Len(wire)]
    BY <1>1, <1>4, ConcatProperties, Zenon
  <2>2. /\ wire' \in Seq(UnitSet) /\ Len(wire') = m + Size(p)
        /\ \A i \in 1..(m + Size(p)) : wire'[i] = IF i <= m THEN wire[i] ELSE u[i - m]
    BY <1>4, <1>5, <2>1 DEF m
  <2>3. \A j \in 1..Size(p) : m + j \in 1..(m + Size(p)) /\ ~(m + j <= m) /\ (m + j) - m = j
    BY <1>1, <1>3
  <2>4. \A j \in 1..Size(p) : wire'[m + j] = u[j]
    BY <2>2, <2>3
  <2>5. \A k \in 1..m : wire'[k] = wire[k]
    BY <1>1, <1>3, <2>2
  <2> QED BY <2>2, <2>4, <2>5
<1>9. Consumed' = Consumed
  BY <1>5 DEF Consumed
<1> QED BY <1>1, <1>2, <1>3, <1>4, <1>6, <1>7, <1>8, <1>9, Zenon DEF m, n

LEMMA InRange == \A n \in Nat : n + 1 \in 1..(n + 1) /\ \A i \in 1..n : i \in 1..(n + 1)
  OBVIOUS

LEMMA OldOrNew ==
  \A m, z \in Nat : \A k \in 1..(m + z) : k \in 1..m \/ \E j \in 1..z : k = m + j
<1> SUFFICES ASSUME NEW m \in Nat, NEW z \in Nat, NEW k \in 1..(m + z), k \notin 1..m
             PROVE  \E j \in 1..z : k = m + j
  OBVIOUS
<1>1. k - m \in 1..z /\ k = m + (k - m)
  OBVIOUS
<1> QED BY <1>1

LEMMA PeerBase ==
  ASSUME Base, NEW p \in [kind : Kinds, len : Lens], Stream!PeerSends(p)
  PROVE  Base'
<1>0. PICK n \in Nat, m \in Nat : n = Len(stream) /\ m = Len(wire)
  BY DEF Base, Typed
<1>1. /\ p \in Packets /\ Consumed' = Consumed
      /\ stream' \in Seq(Packets) /\ Len(stream') = n + 1
      /\ start' \in Seq(Nat) /\ Len(start') = n + 1
      /\ wire' \in Seq(UnitSet) /\ Len(wire') = m + Size(p)
      /\ Size(p) \in Nat /\ Size(p) >= 1
      /\ \A i \in 1..n : stream'[i] = stream[i] /\ start'[i] = start[i]
      /\ stream'[n + 1] = p /\ start'[n + 1] = m
      /\ \A k \in 1..m : wire'[k] = wire[k]
      /\ \A j \in 1..Size(p) : wire'[m + j] = Unit(Part(p, j), n + 1)
  BY <1>0, PeerAdds, Zenon
<1>2. got' = got /\ buf' = buf
  BY DEF Stream!PeerSends
<1>3. \A i \in 1..n : /\ stream[i] \in Packets /\ Size(stream[i]) \in Nat /\ Size(stream[i]) >= 1
                      /\ start[i] \in Nat /\ End(i) = start[i] + Size(stream[i])
                      /\ End(i) <= m
  BY <1>0, Sizes, SMTT(30) DEF Base, Typed, Laid, End
<1>4. /\ \A i \in 1..n : End(i)' = End(i)
      /\ End(n + 1)' = m + Size(p)
  BY <1>1 DEF End
<1>5. Typed'
  BY <1>0, <1>1, <1>2 DEF Base, Typed
<1>6. Windowed'
  <2>1. \A j \in 1..Len(buf) : Consumed + j \in 1..m
    BY <1>0 DEF Base, Typed, Consumed
  <2> QED BY <1>1, <1>2, <2>1, Zenon DEF Base, Windowed
<1>7. Laid'
  <2>1. ASSUME NEW i \in 1..(n + 1), NEW j \in 1..Size(stream'[i])
        PROVE  wire'[start'[i] + j] = Unit(Part(stream'[i], j), i)
    <3>1. CASE i \in 1..n
      <4>0. stream'[i] = stream[i] /\ start'[i] = start[i] /\ j \in 1..Size(stream[i])
        BY <1>1, <2>1, <3>1, Zenon
      <4>1. /\ stream'[i] = stream[i] /\ start'[i] = start[i]
            /\ j \in 1..Size(stream[i]) /\ start[i] + j \in 1..m
        BY <1>3, <3>1, <4>0
      <4>2. wire'[start[i] + j] = wire[start[i] + j]
        BY <1>1, <4>1, Zenon
      <4>3. wire[start[i] + j] = Unit(Part(stream[i], j), i)
        BY <1>0, <3>1, <4>1, Zenon DEF Base, Laid
      <4> QED BY <4>1, <4>2, <4>3, Zenon
    <3>2. CASE i = n + 1
      BY <1>1, <2>1, <3>2, Zenon
    <3> QED BY <1>1, <3>1, <3>2
  <2>2. ASSUME NEW k \in 1..Len(wire')
        PROVE  \E i \in 1..(n + 1) : \E j \in 1..Size(stream'[i]) : k = start'[i] + j
    <3>1. CASE k \in 1..m
      <4>1. PICK i \in 1..n : \E j \in 1..Size(stream[i]) : k = start[i] + j
        BY <1>0, <3>1 DEF Base, Laid
      <4>2. i \in 1..(n + 1) /\ stream'[i] = stream[i] /\ start'[i] = start[i]
        BY <1>1
      <4> QED BY <4>1, <4>2
    <3>2. CASE \E j \in 1..Size(p) : k = m + j
      <4>1. PICK j \in 1..Size(p) : k = m + j
        BY <3>2, Zenon
      <4>2. n + 1 \in 1..(n + 1) /\ j \in 1..Size(stream'[n + 1]) /\ k = start'[n + 1] + j
        BY <1>1, <4>1, InRange, Zenon
      <4> QED BY <4>2, Zenon
    <3>3. k \in 1..(m + Size(p)) /\ Size(p) \in Nat
      BY <1>1, <2>2, Zenon
    <3> QED BY <3>1, <3>2, <3>3, OldOrNew, Zenon
  <2>3. ASSUME NEW i \in 1..(n + 1), NEW j \in 1..(n + 1), i < j
        PROVE  End(i)' <= start'[j]
    <3>1. i \in 1..n
      BY <1>1, <2>3
    <3>2. CASE j \in 1..n
      BY <1>0, <1>1, <1>4, <2>3, <3>1, <3>2, Zenon DEF Base, Laid
    <3>3. CASE j = n + 1
      BY <1>1, <1>3, <1>4, <3>1, <3>3
    <3> QED BY <1>1, <3>2, <3>3
  <2>4. ASSUME NEW i \in 1..(n + 1) PROVE End(i)' <= Len(wire')
    <3>1. CASE i \in 1..n
      BY <1>1, <1>3, <1>4, <3>1, SMTT(30)
    <3>2. CASE i = n + 1
      BY <1>1, <1>4, <3>2
    <3> QED BY <1>1, <3>1, <3>2
  <2>5. ASSUME NEW i \in 1..(n + 1)
        PROVE  End(i)' = Len(wire') \/ \E j \in 1..(n + 1) : start'[j] = End(i)'
    <3>1. CASE i \in 1..n
      <4>1. CASE End(i) = m
        <5>1. n + 1 \in 1..(n + 1) /\ start'[n + 1] = End(i)'
          BY <1>1, <1>4, <3>1, <4>1
        <5> QED BY <5>1
      <4>2. CASE \E j \in 1..n : start[j] = End(i)
        <5>1. PICK j \in 1..n : start[j] = End(i)
          BY <4>2
        <5>2. j \in 1..(n + 1) /\ start'[j] = End(i)'
          BY <1>1, <1>4, <3>1, <5>1
        <5> QED BY <5>2
      <4> QED BY <1>0, <3>1, <4>1, <4>2 DEF Base, Laid
    <3>2. CASE i = n + 1
      BY <1>1, <1>4, <3>2
    <3> QED BY <1>1, <3>1, <3>2
  <2> QED BY <1>1, <2>1, <2>2, <2>3, <2>4, <2>5 DEF Laid
<1> QED BY <1>5, <1>6, <1>7 DEF Base
-----------------------------------------------------------------------------
LEMMA Joined ==
  \A S : \A a, b \in Seq(S) :
    /\ a \o b \in Seq(S) /\ Len(a \o b) = Len(a) + Len(b)
    /\ \A i \in 1..Len(a) + Len(b) : (a \o b)[i] = IF i <= Len(a) THEN a[i] ELSE b[i - Len(a)]
  BY ConcatProperties

LEMMA ReadBase ==
  ASSUME Base, Stream!HandleRead
  PROVE  Base' /\ Consumed' = Consumed
<1>1. PICK n \in 1..(Len(wire) - got) :
        buf' = buf \o SubSeq(wire, got + 1, got + n) /\ got' = got + n
  BY Zenon DEF Stream!HandleRead
<1>2. stream' = stream /\ wire' = wire /\ start' = start
  BY DEF Stream!HandleRead
<1>3. /\ wire \in Seq(UnitSet) /\ buf \in Seq(UnitSet) /\ Len(wire) \in Nat /\ Len(buf) \in Nat
      /\ got \in Nat /\ got <= Len(wire) /\ Len(buf) <= got /\ n \in Nat /\ 1 <= n
      /\ got + n <= Len(wire)
  BY DEF Base, Typed
<1> DEFINE s == SubSeq(wire, got + 1, got + n)
<1>4. s \in Seq(UnitSet) /\ Len(s) = n /\ \A j \in 1..n : s[j] = wire[got + j]
  <2>1. \A k \in got + 1 .. got + n : wire[k] \in UnitSet
    BY <1>3
  <2>2. /\ s \in Seq(UnitSet)
        /\ Len(s) = IF got + 1 <= got + n THEN (got + n) - (got + 1) + 1 ELSE 0
        /\ \A i \in 1 .. (got + n) - (got + 1) + 1 : s[i] = wire[(got + 1) + i - 1]
    BY <1>3, <2>1, SubSeqProperties
  <2> HIDE DEF s
  <2>3. (got + n) - (got + 1) + 1 = n /\ got + 1 <= got + n /\ \A i \in 1..n : (got + 1) + i - 1 = got + i
    BY <1>3
  <2> QED BY <2>2, <2>3
<1> HIDE DEF s
<1>5. /\ buf' \in Seq(UnitSet) /\ Len(buf') = Len(buf) + n
      /\ \A i \in 1..Len(buf) + n : buf'[i] = IF i <= Len(buf) THEN buf[i] ELSE s[i - Len(buf)]
  <2>1. buf' = buf \o s
    BY <1>1 DEF s
  <2>2. /\ buf \o s \in Seq(UnitSet) /\ Len(buf \o s) = Len(buf) + Len(s)
        /\ \A i \in 1..Len(buf) + Len(s) :
             (buf \o s)[i] = IF i <= Len(buf) THEN buf[i] ELSE s[i - Len(buf)]
    BY <1>3, <1>4, Joined, Zenon
  <2> QED BY <1>4, <2>1, <2>2
<1>6. Consumed' = Consumed
  BY <1>1, <1>3, <1>5 DEF Consumed
<1>7. Typed'
  <2>1. got + n \in Nat /\ got + n <= Len(wire) /\ Len(buf) + n <= got + n
    BY <1>3
  <2>2. stream \in Seq(Packets) /\ start \in Seq(Nat) /\ Len(start) = Len(stream)
    BY Zenon DEF Base, Typed
  <2> QED BY <1>1, <1>2, <1>3, <1>5, <2>1, <2>2, Zenon DEF Typed
<1>8. Laid'
  BY <1>2 DEF Base, Laid, End
<1>9. Windowed'
  <2>1. ASSUME NEW j \in 1..(Len(buf) + n) PROVE buf'[j] = wire[Consumed + j]
    <3>1. CASE j <= Len(buf)
      <4>1. j \in 1..Len(buf)
        BY <1>3, <3>1
      <4> QED BY <1>5, <3>1, <4>1 DEF Base, Windowed
    <3>2. CASE j > Len(buf)
      <4>1. j - Len(buf) \in 1..n /\ got + (j - Len(buf)) = Consumed + j /\ ~(j <= Len(buf))
        BY <1>3, <3>2 DEF Consumed
      <4> QED BY <1>4, <1>5, <4>1
    <3> QED BY <1>3, <3>1, <3>2
  <2> QED BY <1>2, <1>5, <1>6, <2>1 DEF Windowed
<1> QED BY <1>6, <1>7, <1>8, <1>9 DEF Base

(* decode() only takes from the front of the buffer. *)
LEMMA TrimBase ==
  ASSUME Base, NEW n \in Nat, n <= Len(buf), buf' = SubSeq(buf, n + 1, Len(buf)),
         UNCHANGED <<stream, wire, got, start>>
  PROVE  Base' /\ Consumed' = Consumed + n /\ Len(buf') = Len(buf) - n
<1>3. /\ wire \in Seq(UnitSet) /\ buf \in Seq(UnitSet) /\ Len(wire) \in Nat /\ Len(buf) \in Nat
      /\ got \in Nat /\ got <= Len(wire) /\ Len(buf) <= got
  BY DEF Base, Typed
<1>4. buf' \in Seq(UnitSet) /\ Len(buf') = Len(buf) - n /\ \A j \in 1..(Len(buf) - n) : buf'[j] = buf[n + j]
  <2>1. \A k \in n + 1 .. Len(buf) : buf[k] \in UnitSet
    BY <1>3
  <2> DEFINE s == SubSeq(buf, n + 1, Len(buf))
  <2>2. /\ s \in Seq(UnitSet)
        /\ Len(s) = IF n + 1 <= Len(buf) THEN Len(buf) - (n + 1) + 1 ELSE 0
        /\ \A i \in 1 .. Len(buf) - (n + 1) + 1 : s[i] = buf[(n + 1) + i - 1]
    BY <1>3, <2>1, SubSeqProperties
  <2> HIDE DEF s
  <2>3. /\ Len(buf) - (n + 1) + 1 = Len(buf) - n
        /\ \A i \in 1..(Len(buf) - n) : (n + 1) + i - 1 = n + i
        /\ (IF n + 1 <= Len(buf) THEN Len(buf) - (n + 1) + 1 ELSE 0) = Len(buf) - n
    BY <1>3
  <2>4. buf' = s
    BY DEF s
  <2> QED BY <2>2, <2>3, <2>4, Zenon
<1>5. Consumed' = Consumed + n
  <2>1. Consumed' = got - (Len(buf) - n)
    BY <1>4 DEF Consumed
  <2>2. got - (Len(buf) - n) = (got - Len(buf)) + n
    BY <1>3
  <2> QED BY <2>1, <2>2 DEF Consumed
<1>6. Typed'
  BY <1>3, <1>4 DEF Base, Typed
<1>7. Laid'
  BY DEF Base, Laid, End
<1>8. Windowed'
  <2>1. ASSUME NEW j \in 1..(Len(buf) - n) PROVE buf'[j] = wire[(Consumed + n) + j]
    <3>1. n + j \in 1..Len(buf) /\ Consumed + (n + j) = (Consumed + n) + j
      BY <1>3 DEF Consumed
    <3> QED BY <1>4, <3>1 DEF Base, Windowed
  <2> QED BY <1>4, <1>5, <2>1 DEF Windowed
<1> QED BY <1>4, <1>5, <1>6, <1>7, <1>8 DEF Base
-----------------------------------------------------------------------------
(* Packets do not overlap, so that where they begin tells them apart. *)
LEMMA Apart ==
  ASSUME Base, NEW i \in 1..Len(stream), NEW j \in 1..Len(stream)
  PROVE  /\ start[i] \in Nat /\ End(i) \in Nat /\ start[i] < End(i) /\ End(i) <= Len(wire)
         /\ start[i] = start[j] => i = j
         /\ start[i] < start[j] => i < j /\ End(i) <= start[j]
         /\ End(i) <= start[j] => i < j
<1>1. /\ stream[i] \in Packets /\ stream[j] \in Packets /\ start[i] \in Nat /\ start[j] \in Nat
      /\ Len(stream) \in Nat
  BY DEF Base, Typed
<1>2. /\ Size(stream[i]) \in Nat /\ Size(stream[i]) >= 1 /\ Size(stream[j]) \in Nat /\ Size(stream[j]) >= 1
  BY <1>1, Sizes
<1>3. /\ End(i) = start[i] + Size(stream[i]) /\ End(j) = start[j] + Size(stream[j])
      /\ End(i) <= Len(wire)
      /\ i < j => End(i) <= start[j]
      /\ j < i => End(j) <= start[i]
  BY DEF Base, Laid, End
<1> QED BY <1>1, <1>2, <1>3

(* A step after which more may have been written and taken. *)
Grown == /\ Len(stream') \in Nat /\ Len(stream) <= Len(stream')
         /\ \A i \in 1..Len(stream) : stream'[i] = stream[i] /\ start'[i] = start[i]
         /\ Consumed <= Consumed'

LEMMA OrderedKept ==
  ASSUME Base, Ordered, Base', Grown, UNCHANGED handled
  PROVE  Ordered'
<1>1. Len(stream) \in Nat /\ Consumed \in Int /\ Consumed' \in Int
  BY DEF Base, Typed, Consumed
<1>2. ASSUME NEW h \in 1..Len(handled)
      PROVE  handled[h] \in 1..Len(stream') /\ Good(handled[h])' /\ End(handled[h])' <= Consumed'
  <2>1. PICK i \in 1..Len(stream) : i = handled[h]
    BY DEF Ordered
  <2>2. Good(i) /\ End(i) <= Consumed /\ End(i) \in Nat
    BY <2>1, Apart DEF Ordered
  <2>3. i \in 1..Len(stream') /\ stream'[i] = stream[i] /\ start'[i] = start[i]
    BY <1>1 DEF Grown
  <2>4. start'[i] + Size(stream'[i]) <= Consumed'
    BY <1>1, <2>2, <2>3 DEF End, Grown
  <2>5. handled' = handled
    OBVIOUS
  <2> QED BY <2>1, <2>2, <2>3, <2>4, <2>5 DEF Good, End
<1> QED BY <1>2 DEF Ordered, Increasing

LEMMA AnsweredKept ==
  ASSUME Base, Ordered, Answered, Grown, UNCHANGED <<handled, sent>>
  PROVE  Answered'
<1>1. \A h \in 1..Len(handled) : stream'[handled[h]] = stream[handled[h]]
  BY DEF Ordered, Grown
<1>2. \A k \in 1..Len(sent) : Handled(sent[k])' /\ stream'[sent[k]] = stream[sent[k]]
  <2> SUFFICES ASSUME NEW k \in 1..Len(sent)
               PROVE  Handled(sent[k])' /\ stream'[sent[k]] = stream[sent[k]]
    OBVIOUS
  <2>1. PICK h \in 1..Len(handled) : handled[h] = sent[k]
    BY DEF Answered, Handled
  <2>2. Handled(sent[k])'
    BY <2>1 DEF Handled
  <2> QED BY <1>1, <2>1, <2>2
<1> QED BY <1>1, <1>2 DEF Answered, Increasing

(* A decode() that returns false takes some of the buffer from its front. *)
Failing == \/ Stream!DecodeShort \/ Stream!DecodeOverflow \/ Stream!DecodeResync \/ Stream!DecodeRefused
           \/ Stream!DecodePartial \/ Stream!DecodeBad

LEMMA FailingTakes ==
  ASSUME Base, Failing
  PROVE  /\ UNCHANGED <<stream, wire, got, start, handled, sent>>
         /\ \E n \in 0..Len(buf) : buf' = SubSeq(buf, n + 1, Len(buf))
<1>1. buf \in Seq(UnitSet) /\ Len(buf) \in Nat
  BY DEF Base, Typed
<1>2. UNCHANGED <<stream, wire, got, start, handled, sent>>
  BY DEF Failing, Stream!DecodeShort, Stream!DecodeOverflow, Stream!DecodeResync, Stream!DecodeRefused,
         Stream!DecodePartial, Stream!DecodeBad, Stream!Fails
<1> SUFFICES \E n \in 0..Len(buf) : buf' = SubSeq(buf, n + 1, Len(buf))
  BY <1>2
<1>3. ASSUME buf' = buf PROVE \E n \in 0..Len(buf) : buf' = SubSeq(buf, n + 1, Len(buf))
  <2>1. buf = SubSeq(buf, 1, Len(buf))
    BY <1>1, SubSeqFull
  <2>2. 0 \in 0..Len(buf) /\ 0 + 1 = 1
    BY <1>1
  <2> QED BY <1>3, <2>1, <2>2
<1>4. ASSUME buf' = <<>> PROVE \E n \in 0..Len(buf) : buf' = SubSeq(buf, n + 1, Len(buf))
  <2>1. SubSeq(buf, Len(buf) + 1, Len(buf)) = <<>>
    BY <1>1, SubSeqEmpty
  <2>2. Len(buf) \in 0..Len(buf)
    BY <1>1
  <2> QED BY <1>4, <2>1, <2>2
<1>5. CASE Stream!DecodeResync
  <2>1. \/ \E i \in 2..Len(buf) : buf' = SubSeq(buf, (i - 1) + 1, Len(buf))
        \/ buf' = <<>>
    BY <1>5 DEF Stream!DecodeResync, Stream!Retrieve
  <2>2. CASE \E i \in 2..Len(buf) : buf' = SubSeq(buf, (i - 1) + 1, Len(buf))
    <3>1. PICK i \in 2..Len(buf) : buf' = SubSeq(buf, (i - 1) + 1, Len(buf))
      BY <2>2
    <3>2. i - 1 \in 0..Len(buf)
      BY <1>1
    <3> QED BY <3>1, <3>2, Zenon
  <2> QED BY <1>4, <2>1, <2>2
<1>6. CASE Stream!DecodeBad
  <2>1. Stream!First \in Packets
    BY <1>6, MagicHead DEF Stream!DecodeBad
  <2>2. Stream!TotalLen \in Nat /\ Stream!TotalLen <= Len(buf)
    BY <1>1, <1>6, <2>1, Sizes
      DEF Stream!DecodeBad, Stream!Complete, Stream!TotalLen, Stream!HeaderSize, Stream!ChecksumSize,
          HeaderSize, ChecksumSize
  <2>3. buf' = SubSeq(buf, Stream!TotalLen + 1, Len(buf)) /\ Stream!TotalLen \in 0..Len(buf)
    BY <1>1, <1>6, <2>2 DEF Stream!DecodeBad, Stream!Retrieve
  <2> QED BY <2>3
<1>7. CASE Stream!DecodeShort \/ Stream!DecodePartial
  BY <1>3, <1>7 DEF Stream!DecodeShort, Stream!DecodePartial
<1>8. CASE Stream!DecodeOverflow \/ Stream!DecodeRefused
  BY <1>4, <1>8 DEF Stream!DecodeOverflow, Stream!DecodeRefused
<1> QED BY <1>5, <1>6, <1>7, <1>8 DEF Failing
-----------------------------------------------------------------------------
LEMMA IncreasingAppend ==
  ASSUME NEW s \in Seq(Nat), Increasing(s), NEW x \in Nat, \A k \in 1..Len(s) : s[k] < x
  PROVE  Increasing(Append(s, x))
<1> DEFINE t == Append(s, x)
<1>1. /\ Len(t) = Len(s) + 1 /\ (\A k \in 1..Len(s) : t[k] = s[k]) /\ t[Len(s) + 1] = x
      /\ Len(s) \in Nat
  BY AppendProperties
<1> HIDE DEF t
<1>2. ASSUME NEW i \in 1..Len(t), NEW j \in 1..Len(t), i < j PROVE t[i] < t[j]
  <2>1. i \in 1..Len(s)
    BY <1>1, <1>2
  <2>2. CASE j \in 1..Len(s)
    BY <1>1, <1>2, <2>1, <2>2 DEF Increasing
  <2>3. CASE j = Len(s) + 1
    BY <1>1, <2>1, <2>3
  <2> QED BY <1>1, <2>2, <2>3
<1> QED BY <1>2 DEF Increasing, t

(* A packet that is returned stands at the head of the buffer, whole. *)
LEMMA GoodTakes ==
  ASSUME Base, Stream!DecodeGood
  PROVE  \E i \in 1..Len(stream) :
           /\ start[i] = Consumed /\ Good(i) /\ Consumed' = End(i)
           /\ Base' /\ UNCHANGED <<stream, wire, got, start, decoding>>
           /\ handled' = Append(handled, i)
           /\ \/ stream[i].kind # "response" /\ sent' = Append(sent, i)
              \/ stream[i].kind = "response" /\ sent' = sent
<1>1. PICK i \in 1..Len(stream) : i = buf[1].pkt
  BY MagicHead DEF Stream!DecodeGood
<1>2. start[i] = Consumed /\ Stream!First = stream[i] /\ stream[i] \in Packets
  BY <1>1, MagicHead DEF Stream!DecodeGood
<1>3. Good(i)
  BY <1>2 DEF Stream!DecodeGood, Stream!WellFormed, Good
<1>4. Stream!TotalLen \in Nat /\ Stream!TotalLen = Size(stream[i]) /\ Stream!TotalLen <= Len(buf)
  <2>1. stream[i].kind \notin {"noise", "huge"}
    BY <1>3 DEF Good
  <2>2. Len(buf) \in Nat
    BY DEF Base, Typed
  <2> QED BY <1>2, <2>1, <2>2, Sizes
      DEF Stream!DecodeGood, Stream!Complete, Stream!TotalLen, Stream!HeaderSize, Stream!ChecksumSize,
          HeaderSize, ChecksumSize
<1>5. /\ buf' = SubSeq(buf, Stream!TotalLen + 1, Len(buf))
      /\ UNCHANGED <<stream, wire, got, start, decoding>>
      /\ handled' = Append(handled, i)
  BY <1>1 DEF Stream!DecodeGood, Stream!Retrieve
<1>6. Base' /\ Consumed' = Consumed + Stream!TotalLen
  BY <1>4, <1>5, TrimBase, Zenon
<1>7. Consumed' = End(i)
  BY <1>2, <1>4, <1>6 DEF End
<1>8. \/ stream[i].kind # "response" /\ sent' = Append(sent, i)
      \/ stream[i].kind = "response" /\ sent' = sent
  BY <1>1, <1>2 DEF Stream!DecodeGood, Stream!Reply
<1> QED BY <1>2, <1>3, <1>5, <1>6, <1>7, <1>8

LEMMA GoodKeepsOrder ==
  ASSUME Base, Ordered, Answered, Stream!DecodeGood
  PROVE  Ordered' /\ Answered'
<1>1. PICK i \in 1..Len(stream) :
        /\ start[i] = Consumed /\ Good(i) /\ Consumed' = End(i)
        /\ Base' /\ UNCHANGED <<stream, wire, got, start, decoding>>
        /\ handled' = Append(handled, i)
        /\ \/ stream[i].kind # "response" /\ sent' = Append(sent, i)
           \/ stream[i].kind = "response" /\ sent' = sent
  BY GoodTakes
<1>2. /\ handled \in Seq(Nat) /\ sent \in Seq(Nat) /\ Len(handled) \in Nat /\ Len(sent) \in Nat
      /\ i \in Nat
  BY DEF Ordered, Answered
<1>3. ASSUME NEW h \in 1..Len(handled)
      PROVE  /\ handled[h] \in 1..Len(stream) /\ Good(handled[h]) /\ handled[h] < i
             /\ End(handled[h]) <= End(i)
  <2>1. PICK k \in 1..Len(stream) : k = handled[h]
    BY DEF Ordered
  <2>2. Good(k) /\ End(k) <= start[i]
    BY <1>1, <2>1 DEF Ordered
  <2>3. k < i /\ start[i] < End(i) /\ start[i] \in Nat /\ End(i) \in Nat /\ End(k) \in Nat
    BY <2>2, Apart
  <2>4. End(k) <= End(i)
    BY <2>2, <2>3
  <2> QED BY <2>1, <2>2, <2>3, <2>4
<1>4. /\ handled' \in Seq(Nat) /\ Len(handled') = Len(handled) + 1
      /\ \A h \in 1..Len(handled) : handled'[h] = handled[h]
      /\ handled'[Len(handled) + 1] = i
  BY <1>1, <1>2, AppendProperties
<1>5. Increasing(handled')
  BY <1>1, <1>2, <1>3, IncreasingAppend, Zenon DEF Ordered
<1>6. /\ \A k : Good(k)' <=> Good(k)
      /\ \A k : End(k)' = End(k)
  BY <1>1 DEF Good, End
<1>7. ASSUME NEW h \in 1..Len(handled')
      PROVE  handled'[h] \in 1..Len(stream') /\ Good(handled'[h]) /\ End(handled'[h]) <= Consumed'
  <2>1. CASE h \in 1..Len(handled)
    BY <1>1, <1>3, <1>4, <2>1
  <2>2. CASE h = Len(handled) + 1
    BY <1>1, <1>4, <2>2, Apart
  <2> QED BY <1>2, <1>4, <2>1, <2>2
<1>8. Ordered'
  <2>1. ASSUME NEW h \in 1..Len(handled')
        PROVE  Good(handled[h])' /\ End(handled[h])' <= Consumed'
    BY <1>1, <1>7 DEF Good, End
  <2> QED BY <1>4, <1>5, <1>7, <2>1, SMTT(30) DEF Ordered, Increasing
<1>9. Answered'
  <2>1. ASSUME NEW k \in 1..Len(sent)
        PROVE  /\ \E g \in 1..Len(handled') : handled'[g] = sent[k]
               /\ sent[k] < i /\ stream[sent[k]].kind # "response"
    <3>1. PICK h \in 1..Len(handled) : handled[h] = sent[k]
      BY DEF Answered, Handled
    <3>2. h \in 1..Len(handled') /\ handled'[h] = sent[k] /\ sent[k] < i
      <4>1. h \in 1..Len(handled')
        BY <1>2, <1>4, <3>1
      <4>2. handled'[h] = sent[k] /\ sent[k] < i
        BY <1>3, <1>4, <3>1, Zenon
      <4> QED BY <4>1, <4>2
    <3>3. stream[sent[k]].kind # "response"
      BY DEF Answered
    <3> QED BY <3>2, <3>3
  <2>2. \E g \in 1..Len(handled') : handled'[g] = i
    <3>1. Len(handled) + 1 \in 1..Len(handled')
      BY <1>2, <1>4
    <3> QED BY <1>4, <3>1
  <2>3. \A h \in 1..Len(handled) : stream[handled[h]].kind # "response" =>
          \E k \in 1..Len(sent) : sent[k] = handled[h]
    BY DEF Answered
  <2>4. SUFFICES /\ sent' \in Seq(Nat) /\ Increasing(sent')
                 /\ \A k \in 1..Len(sent') : /\ \E g \in 1..Len(handled') : handled'[g] = sent'[k]
                                             /\ stream[sent'[k]].kind # "response"
                 /\ \A h \in 1..Len(handled') : stream[handled'[h]].kind # "response" =>
                      \E k \in 1..Len(sent') : sent'[k] = handled'[h]
    BY <1>1, Zenon DEF Answered, Handled, Increasing
  <2>5. CASE stream[i].kind = "response" /\ sent' = sent
    <3>1. Increasing(sent')
      BY <2>5 DEF Answered
    <3>2. ASSUME NEW h \in 1..Len(handled'), stream[handled'[h]].kind # "response"
          PROVE  \E k \in 1..Len(sent') : sent'[k] = handled'[h]
      <4>1. h # Len(handled) + 1
        BY <1>4, <2>5, <3>2
      <4>2. h \in 1..Len(handled)
        BY <1>2, <1>4, <4>1
      <4> QED BY <1>4, <2>3, <2>5, <3>2, <4>2, Zenon
    <3> QED BY <1>2, <2>1, <2>5, <3>1, <3>2, Zenon
  <2>6. CASE stream[i].kind # "response" /\ sent' = Append(sent, i)
    <3>1. /\ sent' \in Seq(Nat) /\ Len(sent') = Len(sent) + 1
          /\ \A k \in 1..Len(sent) : sent'[k] = sent[k]
          /\ sent'[Len(sent) + 1] = i
      BY <1>2, <2>6, AppendProperties
    <3>2. Increasing(sent')
      BY <1>2, <2>1, <2>6, IncreasingAppend, Zenon DEF Answered
    <3>3. ASSUME NEW k \in 1..Len(sent')
          PROVE  /\ \E g \in 1..Len(handled') : handled'[g] = sent'[k]
                 /\ stream[sent'[k]].kind # "response"
      <4>1. CASE k \in 1..Len(sent)
        BY <2>1, <3>1, <4>1, Zenon
      <4>2. CASE k = Len(sent) + 1
        BY <2>2, <2>6, <3>1, <4>2
      <4> QED BY <1>2, <3>1, <4>1, <4>2
    <3>4. ASSUME NEW h \in 1..Len(handled'), stream[handled'[h]].kind # "response"
          PROVE  \E k \in 1..Len(sent') : sent'[k] = handled'[h]
      <4>1. CASE h \in 1..Len(handled)
        <5>1. PICK k \in 1..Len(sent) : sent[k] = handled[h]
          BY <1>4, <2>3, <3>4, <4>1
        <5>2. k \in 1..Len(sent') /\ sent'[k] = handled'[h]
          BY <1>2, <1>4, <3>1, <4>1, <5>1
        <5> QED BY <5>2
      <4>2. CASE h = Len(handled) + 1
        <5>1. Len(sent) + 1 \in 1..Len(sent') /\ sent'[Len(sent) + 1] = handled'[h]
          BY <1>2, <1>4, <3>1, <4>2
        <5> QED BY <5>1
      <4> QED BY <1>2, <1>4, <4>1, <4>2
    <3> QED BY <3>1, <3>2, <3>3, <3>4
  <2> QED BY <1>1, <2>5, <2>6, Zenon
<1> QED BY <1>8, <1>9
-----------------------------------------------------------------------------
LEMMA PeerKeeps ==
  ASSUME StreamInv, NEW p \in [kind : Kinds, len : Lens], Stream!PeerSends(p)
  PROVE  StreamInv'
<1> USE DEF StreamInv
<1>0. PICK n \in Nat, m \in Nat : n = Len(stream) /\ m = Len(wire)
  BY DEF Base, Typed
<1>1. /\ p \in Packets /\ Consumed' = Consumed /\ Len(stream') = n + 1
      /\ Len(wire') = m + Size(p) /\ Size(p) \in Nat /\ Size(p) >= 1
      /\ \A i \in 1..n : stream'[i] = stream[i] /\ start'[i] = start[i]
      /\ stream'[n + 1] = p /\ start'[n + 1] = m
  BY <1>0, PeerAdds
<1>2. buf' = buf /\ decoding' = decoding /\ handled' = handled /\ sent' = sent
  BY DEF Stream!PeerSends
<1>3. Base'
  BY PeerBase
<1>4. Consumed \in Nat /\ Consumed <= m /\ (Consumed = m => Len(buf) = 0) /\ Len(buf) \in Nat
  BY <1>0 DEF Base, Typed, Consumed
<1>5. Grown
  BY <1>0, <1>1, <1>4 DEF Grown
<1>6. Ordered' /\ Answered'
  BY <1>2, <1>3, <1>5, OrderedKept, AnsweredKept
<1>7. ByPacket'
  <2> SUFFICES ASSUME AllFramed'
               PROVE  /\ Consumed' = Len(wire') \/ \E i \in 1..(n + 1) : start'[i] = Consumed'
                      /\ \A i \in 1..(n + 1) : Good(i)' => Handled(i)' \/ start'[i] >= Consumed'
    BY <1>1 DEF ByPacket
  <2>1. AllFramed
    <3>1. Fits
      BY <1>0, <1>1, StreamConstants DEF AllFramed, Fits
    <3>2. \A i \in 1..n : i \in 1..(n + 1) /\ stream'[i] = stream[i]
      BY <1>1
    <3>3. \A i \in 1..n : Framed(i)
      BY <1>1, <3>2 DEF AllFramed, Framed, Good
    <3> QED BY <1>0, <3>1, <3>3 DEF AllFramed
  <2>2. \E i \in 1..(n + 1) : start'[i] = Consumed'
    <3>1. CASE Consumed = m
      <4>1. n + 1 \in 1..(n + 1) /\ start'[n + 1] = Consumed'
        BY <1>1, <3>1
      <4> QED BY <4>1
    <3>2. CASE \E i \in 1..n : start[i] = Consumed
      <4>1. PICK i \in 1..n : start[i] = Consumed
        BY <3>2
      <4>2. i \in 1..(n + 1) /\ start'[i] = Consumed'
        BY <1>1, <4>1
      <4> QED BY <4>2
    <3> QED BY <1>0, <2>1, <3>1, <3>2 DEF ByPacket
  <2>3. ASSUME NEW i \in 1..(n + 1), Good(i)' PROVE Handled(i)' \/ start'[i] >= Consumed'
    <3>1. CASE i \in 1..n
      <4>1. Good(i)
        BY <1>1, <2>3, <3>1 DEF Good
      <4>2. Handled(i) \/ start[i] >= Consumed
        BY <1>0, <2>1, <3>1, <4>1 DEF ByPacket
      <4> QED BY <1>1, <1>2, <3>1, <4>2 DEF Handled
    <3>2. CASE i = n + 1
      BY <1>1, <1>4, <3>2
    <3> QED BY <3>1, <3>2
  <2> QED BY <2>2, <2>3
<1>8. Drained'
  <2> SUFFICES ASSUME AllGood', ~decoding, NEW i \in 1..(n + 1), start'[i] = Consumed
               PROVE  Len(buf) < Size(stream'[i])
    BY <1>1, <1>2 DEF Drained
  <2>1. AllGood
    <3>1. Fits
      BY <1>0, <1>1, StreamConstants DEF AllGood, Fits
    <3>2. \A j \in 1..n : j \in 1..(n + 1) /\ stream'[j] = stream[j]
      BY <1>1
    <3>3. \A j \in 1..n : Good(j)
      BY <1>1, <3>2 DEF AllGood, Good
    <3> QED BY <1>0, <3>1, <3>3 DEF AllGood
  <2>2. CASE i \in 1..n
    BY <1>0, <1>1, <2>1, <2>2 DEF Drained
  <2>3. CASE i = n + 1
    BY <1>1, <1>4, <2>3
  <2> QED BY <2>2, <2>3
<1> QED BY <1>3, <1>6, <1>7, <1>8

LEMMA ReadKeeps ==
  ASSUME StreamInv, Stream!HandleRead
  PROVE  StreamInv'
<1> USE DEF StreamInv
<1>1. stream' = stream /\ wire' = wire /\ start' = start /\ handled' = handled /\ sent' = sent
  BY DEF Stream!HandleRead
<1>2. Base' /\ Consumed' = Consumed
  BY ReadBase
<1>3. Grown
  <2>1. Len(stream) \in Nat /\ Consumed \in Int
    BY DEF Base, Typed, Consumed
  <2> QED BY <1>1, <1>2, <2>1 DEF Grown
<1>4. Ordered' /\ Answered'
  BY <1>1, <1>2, <1>3, OrderedKept, AnsweredKept
<1>5. ByPacket'
  <2>1. (AllFramed' <=> AllFramed) /\ (\A i : Good(i)' <=> Good(i)) /\ (\A i : Handled(i)' <=> Handled(i))
    BY <1>1 DEF AllFramed, Fits, Framed, Good, Handled
  <2> QED BY <1>1, <1>2, <2>1 DEF ByPacket
<1>6. Drained'
  BY DEF Stream!HandleRead, Drained
<1> QED BY <1>2, <1>4, <1>5, <1>6

(* Behind a packet that is taken whole, a framed stream goes on with another one. *)
LEMMA TakenWhole ==
  ASSUME Base, ByPacket, AllFramed, NEW i \in 1..Len(stream), start[i] = Consumed
  PROVE  /\ End(i) = Len(wire) \/ \E j \in 1..Len(stream) : start[j] = End(i)
         /\ \A j \in 1..Len(stream) : (Good(j) /\ j # i) => Handled(j) \/ start[j] >= End(i)
<1>1. ASSUME NEW j \in 1..Len(stream), Good(j), j # i, ~Handled(j)
      PROVE  start[j] >= End(i)
  <2>1. start[j] >= start[i] /\ start[j] \in Nat /\ start[i] \in Nat /\ End(i) \in Nat
    BY <1>1, Apart DEF ByPacket
  <2>2. start[i] # start[j]
    BY <1>1, Apart
  <2>3. start[i] < start[j]
    BY <2>1, <2>2
  <2>4. End(i) <= start[j]
    BY <2>3, Apart
  <2> QED BY <2>1, <2>4
<1> QED BY <1>1 DEF Base, Laid

LEMMA FailingKeeps ==
  ASSUME StreamInv, Failing
  PROVE  StreamInv'
<1> USE DEF StreamInv
<1>1. stream' = stream /\ wire' = wire /\ start' = start /\ got' = got /\ handled' = handled /\ sent' = sent
  BY FailingTakes
<1>2. PICK n \in 0..Len(buf) : buf' = SubSeq(buf, n + 1, Len(buf))
  BY FailingTakes
<1>3. /\ buf \in Seq(UnitSet) /\ Len(buf) \in Nat /\ Len(wire) \in Nat /\ Len(stream) \in Nat
      /\ n \in Nat /\ n <= Len(buf) /\ Len(buf) <= Len(wire) /\ Consumed \in Int
  BY DEF Base, Typed, Consumed
<1>4. Base' /\ Consumed' = Consumed + n
  BY <1>1, <1>2, <1>3, TrimBase
<1>5. Grown
  BY <1>1, <1>3, <1>4 DEF Grown
<1>6. Ordered' /\ Answered'
  BY <1>1, <1>4, <1>5, OrderedKept, AnsweredKept
<1>7. /\ (AllFramed' <=> AllFramed) /\ (AllGood' <=> AllGood)
      /\ (\A i : Good(i)' <=> Good(i)) /\ (\A i : Handled(i)' <=> Handled(i))
  BY <1>1 DEF AllFramed, AllGood, Fits, Framed, Good, Handled
<1>8. ASSUME AllFramed PROVE Stream!DecodeShort \/ Stream!DecodePartial \/ Stream!DecodeBad
  <2>1. CASE Stream!DecodeOverflow
    BY <1>3, <1>8, <2>1, StreamConstants DEF Stream!DecodeOverflow, AllFramed, Fits
  <2>2. CASE Stream!DecodeResync
    BY <1>8, <2>2, FramedHead DEF Stream!DecodeResync, Stream!Enough, Stream!HeaderSize, HeaderSize
  <2>3. CASE Stream!DecodeRefused
    <3>1. Framed(buf[1].pkt) /\ ~Stream!Accepted
      BY <1>8, <2>3, FramedHead DEF Stream!DecodeRefused, Stream!Enough, Stream!HeaderSize, HeaderSize
    <3> QED BY <3>1 DEF Framed, Good, Stream!Accepted, Stream!First
  <2> QED BY <2>1, <2>2, <2>3 DEF Failing
<1>9. ByPacket'
  <2> SUFFICES ASSUME AllFramed
               PROVE  /\ Consumed' = Len(wire) \/ \E i \in 1..Len(stream) : start[i] = Consumed'
                      /\ \A i \in 1..Len(stream) : Good(i) => Handled(i) \/ start[i] >= Consumed'
    BY <1>1, <1>7 DEF ByPacket
  <2>1. CASE buf' = buf
    <3>1. Consumed' = Consumed
      BY <1>1, <2>1, Zenon DEF Consumed
    <3> QED BY <3>1 DEF ByPacket
  <2>2. CASE Stream!DecodeBad
    <3>1. PICK i \in 1..Len(stream) : i = buf[1].pkt
      BY <2>2, MagicHead DEF Stream!DecodeBad
    <3>2. start[i] = Consumed /\ Stream!First = stream[i] 
          /\ stream[i] \in Packets /\ stream[i].kind # "noise"
      BY <2>2, <3>1, MagicHead DEF Stream!DecodeBad
    <3>3. ~Good(i) /\ stream[i].kind # "huge"
      BY <2>2, <3>2 DEF Stream!DecodeBad, Stream!WellFormed, Good, Stream!Accepted
    <3>4. Stream!TotalLen \in Nat /\ Stream!TotalLen = Size(stream[i]) /\ Stream!TotalLen <= Len(buf)
      BY <1>3, <2>2, <3>2, <3>3, Sizes
      DEF Stream!DecodeBad, Stream!Complete, Stream!TotalLen, Stream!HeaderSize, Stream!ChecksumSize,
          HeaderSize, ChecksumSize
    <3>5. buf' = SubSeq(buf, Stream!TotalLen + 1, Len(buf))
      BY <2>2 DEF Stream!DecodeBad, Stream!Retrieve
    <3>6. Consumed' = Consumed + Stream!TotalLen
      BY <1>1, <3>4, <3>5, TrimBase, Zenon
    <3>7. Consumed' = End(i)
      BY <3>2, <3>4, <3>6, SMTT(30) DEF End
    <3>8. /\ End(i) = Len(wire) \/ \E j \in 1..Len(stream) : start[j] = End(i)
          /\ \A j \in 1..Len(stream) : (Good(j) /\ j # i) => Handled(j) \/ start[j] >= End(i)
      BY <3>2, TakenWhole
    <3> QED BY <3>3, <3>7, <3>8, Zenon
  <2> QED BY <1>8, <2>1, <2>2 DEF Stream!DecodeShort, Stream!DecodePartial
<1>10. Drained'
  <2> SUFFICES ASSUME AllGood, NEW i \in 1..Len(stream), start[i] = Consumed'
               PROVE  Len(buf') < Size(stream[i])
    BY <1>1, <1>7 DEF Drained
  <2>1. AllFramed
    BY DEF AllGood, AllFramed, Framed
  <2>2. stream[i] \in Packets /\ Good(i)
    BY DEF Base, Typed, AllGood
  <2>3. stream[i].kind \notin {"noise", "huge"}
    BY <2>2 DEF Good
  <2>4. Size(stream[i]) \in Nat /\ Size(stream[i]) >= HeaderSize
        /\ Size(stream[i]) = HeaderSize + stream[i].len + ChecksumSize
    BY <2>2, <2>3, Sizes
  <2>5. CASE Stream!DecodeShort
    BY <1>3, <2>4, <2>5 DEF Stream!DecodeShort, Stream!HeaderSize, HeaderSize
  <2>6. CASE Stream!DecodePartial
    <3>1. buf[1].pkt \in 1..Len(stream) /\ start[buf[1].pkt] = Consumed
          /\ Stream!First = stream[buf[1].pkt]
      BY <2>6, MagicHead DEF Stream!DecodePartial
    <3>2. Consumed' = Consumed /\ buf' = buf
      BY <1>1, <2>6 DEF Stream!DecodePartial, Consumed
    <3>3. buf[1].pkt = i
      BY <3>1, <3>2, Apart
    <3>4. Stream!TotalLen = Size(stream[i])
      BY <2>4, <3>1, <3>3 DEF Stream!TotalLen, Stream!HeaderSize, Stream!ChecksumSize, HeaderSize, ChecksumSize
    <3>5. ~(Len(buf) >= Stream!TotalLen)
      BY <2>6 DEF Stream!DecodePartial, Stream!Complete
    <3> QED BY <1>3, <2>4, <3>2, <3>4, <3>5
  <2>7. CASE Stream!DecodeBad
    <3>1. buf[1].pkt \in 1..Len(stream) /\ Stream!First = stream[buf[1].pkt] /\ ~Stream!WellFormed
      BY <2>7, MagicHead DEF Stream!DecodeBad
    <3> QED BY <3>1 DEF AllGood, Good, Stream!WellFormed
  <2> QED BY <1>8, <2>1, <2>5, <2>6, <2>7
<1> QED BY <1>4, <1>6, <1>9, <1>10

LEMMA GoodKeeps ==
  ASSUME StreamInv, Stream!DecodeGood
  PROVE  StreamInv'
<1> USE DEF StreamInv
<1>1. PICK i \in 1..Len(stream) :
        /\ start[i] = Consumed /\ Good(i) /\ Consumed' = End(i)
        /\ Base' /\ UNCHANGED <<stream, wire, got, start, decoding>>
        /\ handled' = Append(handled, i)
  BY GoodTakes
<1>2. Ordered' /\ Answered'
  BY GoodKeepsOrder
<1>3. ByPacket'
  <2> SUFFICES ASSUME AllFramed
               PROVE  /\ Consumed' = Len(wire) \/ \E j \in 1..Len(stream) : start[j] = Consumed'
                      /\ \A j \in 1..Len(stream) : Good(j) => Handled(j)' \/ start[j] >= Consumed'
    <3>1. AllFramed' => AllFramed
      BY <1>1 DEF AllFramed, Fits, Framed, Good
    <3>2. \A j : Good(j)' => Good(j)
      BY <1>1 DEF Good
    <3> QED BY <1>1, <3>1, <3>2 DEF ByPacket
  <2>1. /\ handled \in Seq(Nat) /\ i \in Nat /\ Len(handled) \in Nat
    BY DEF Ordered
  <2>2. /\ Len(handled') = Len(handled) + 1 /\ handled'[Len(handled) + 1] = i
        /\ \A h \in 1..Len(handled) : handled'[h] = handled[h]
    BY <1>1, <2>1, AppendProperties
  <2>3. Handled(i)'
    <3>1. Len(handled) + 1 \in 1..Len(handled')
      BY <2>1, <2>2
    <3> QED BY <2>2, <3>1 DEF Handled
  <2>4. ASSUME NEW j, Handled(j) PROVE Handled(j)'
    <3>1. PICK h \in 1..Len(handled) : handled[h] = j
      BY <2>4 DEF Handled
    <3>2. h \in 1..Len(handled') /\ handled'[h] = j
      BY <2>1, <2>2, <3>1
    <3> QED BY <3>2 DEF Handled
  <2>5. /\ End(i) = Len(wire) \/ \E j \in 1..Len(stream) : start[j] = End(i)
        /\ \A j \in 1..Len(stream) : (Good(j) /\ j # i) => Handled(j) \/ start[j] >= End(i)
    BY <1>1, TakenWhole
  <2> QED BY <1>1, <2>3, <2>4, <2>5
<1>4. Drained'
  BY <1>1 DEF Stream!DecodeGood, Drained
<1> QED BY <1>1, <1>2, <1>3, <1>4
-----------------------------------------------------------------------------
LEMMA StreamInvariant == Stream!Spec => []StreamInv
<1>1. Stream!Init => StreamInv
  <2> SUFFICES ASSUME Stream!Init PROVE StreamInv
    OBVIOUS
  <2>1. Base
    BY DEF Stream!Init, Base, Typed, Laid, Windowed, Consumed
  <2>2. Ordered /\ Answered
    BY DEF Stream!Init, Ordered, Answered, Increasing
  <2>3. ByPacket /\ Drained
    <3>1. Consumed = Len(wire) /\ Len(stream) = 0
      <4>1. Len(wire) = 0 /\ Len(buf) = 0 /\ Len(stream) = 0 /\ got = 0
        BY DEF Stream!Init
      <4> QED BY <4>1 DEF Consumed
    <3>2. 1..Len(stream) = {}
      BY <3>1
    <3> QED BY <3>1, <3>2, Zenon DEF ByPacket, Drained
  <2> QED BY <2>1, <2>2, <2>3 DEF StreamInv
<1>2. StreamInv /\ [Stream!Next]_(Stream!vars) => StreamInv'
  <2> SUFFICES ASSUME StreamInv, [Stream!Next]_(Stream!vars) PROVE StreamInv'
    OBVIOUS
  <2>1. CASE UNCHANGED Stream!vars
    <3>1. UNCHANGED <<stream, wire, got, buf, decoding, handled, sent, start>>
      BY <2>1, Zenon DEF Stream!vars
    <3>2. Base'
      BY <3>1 DEF StreamInv, Base, Typed, Laid, Windowed, Consumed, End
    <3>3. Ordered'
      BY <3>1 DEF StreamInv, Ordered, Increasing, Good, Consumed, End
    <3>4. Answered'
      BY <3>1 DEF StreamInv, Answered, Increasing, Handled
    <3>5. ByPacket'
      BY <3>1 DEF StreamInv, ByPacket, AllFramed, Fits, Framed, Good, Handled, Consumed
    <3>6. Drained'
      BY <3>1 DEF StreamInv, Drained, AllGood, Fits, Good, Consumed
    <3> QED BY <3>2, <3>3, <3>4, <3>5, <3>6 DEF StreamInv
  <2>2. CASE \E p \in [kind : Kinds, len : Lens] : Stream!PeerSends(p)
    BY <2>2, PeerKeeps
  <2>3. CASE Stream!HandleRead
    BY <2>3, ReadKeeps
  <2>4. CASE Failing
    BY <2>4, FailingKeeps
  <2>5. CASE Stream!DecodeGood
    BY <2>5, GoodKeeps
  <2> QED BY <2>1, <2>2, <2>3, <2>4, <2>5 DEF Stream!Next, Failing
<1> QED BY <1>1, <1>2, PTL DEF Stream!Spec

(* A packet with a bad checksum or body costs no other packet: in a framed stream
   that fits the buffer, a good packet is handled or still to be decoded. *)
THEOREM FramedPacketsKept == Stream!Spec => []NothingFramedLost
<1>1. StreamInv => NothingFramedLost
  <2> SUFFICES ASSUME StreamInv, AllFramed, NEW i \in 1..Len(stream), Good(i), ~Handled(i)
               PROVE  StillToDecode(i)
    BY DEF NothingFramedLost, AllFramed
  <2> USE DEF StreamInv
  <2>1. start[i] >= Consumed
    BY DEF ByPacket
  <2>2. /\ start[i] \in Nat /\ stream[i] \in Packets /\ End(i) <= Len(wire) /\ start[i] < End(i)
        /\ End(i) \in Nat /\ Len(wire) \in Nat /\ Len(buf) \in Nat /\ got \in Nat /\ Len(buf) <= got
    BY Apart DEF Base, Typed
  <2>3. wire[start[i] + 1] = Unit("mag", i)
    <3>1. 1 \in 1..Size(stream[i]) /\ Part(stream[i], 1) = "mag"
      BY <2>2, Sizes, Parts DEF Good
    <3> QED BY <3>1 DEF Base, Laid
  <2>4. CASE start[i] + 1 > got
    <3>1. start[i] + 1 \in got + 1 .. Len(wire)
      BY <2>2, <2>4
    <3> QED BY <2>3, <3>1 DEF StillToDecode
  <2>5. CASE start[i] + 1 <= got
    <3>1. PICK j \in 1..Len(buf) : Consumed + j = start[i] + 1
      <4>1. (start[i] + 1) - Consumed \in 1..Len(buf) /\ Consumed + ((start[i] + 1) - Consumed) = start[i] + 1
        BY <2>1, <2>2, <2>5, SMTT(30) DEF Consumed
      <4> QED BY <4>1
    <3>2. buf[j] = wire[Consumed + j]
      BY DEF Base, Windowed
    <3> QED BY <2>3, <3>1, <3>2 DEF StillToDecode
  <2> QED BY <2>2, <2>4, <2>5
<1> QED BY <1>1, StreamInvariant, PTL

(* However the stream is cut, packets are handled in order and once; in a framed
   stream no good packet is lost; and when a good stream has been read, its requests
   and heartbeats have been answered. *)
THEOREM StreamIsAnswered == Stream!Spec => []StreamAnswered
<1>1. StreamInv => HandledInOrder
  BY DEF StreamInv, Ordered, HandledInOrder
<1>2. StreamInv => EveryRequestAnswered
  <2> SUFFICES ASSUME StreamInv, AllGood, got = Len(wire), ~decoding
               PROVE  /\ Increasing(sent)
                      /\ {sent[k] : k \in 1..Len(sent)} = {i \in 1..Len(stream) : stream[i].kind # "response"}
    BY DEF EveryRequestAnswered, AllGood
  <2> USE DEF StreamInv
  <2>1. AllFramed
    BY DEF AllGood, AllFramed, Framed
  <2>2. Consumed = Len(wire)
    <3> SUFFICES ASSUME NEW i \in 1..Len(stream), start[i] = Consumed PROVE FALSE
      BY <2>1 DEF ByPacket
    <3>1. /\ stream[i] \in Packets /\ start[i] \in Nat /\ Len(wire) \in Nat /\ Len(buf) \in Nat
          /\ End(i) = start[i] + Size(stream[i]) /\ End(i) <= Len(wire)
      BY DEF Base, Typed, Laid, End
    <3>2. Size(stream[i]) \in Nat
      BY <3>1, Sizes
    <3>3. Len(buf) < Size(stream[i])
      BY DEF Drained
    <3> QED BY <3>1, <3>2, <3>3 DEF Consumed
  <2>3. \A i \in 1..Len(stream) : Handled(i)
    <3> SUFFICES ASSUME NEW i \in 1..Len(stream) PROVE Handled(i)
      OBVIOUS
    <3>1. Handled(i) \/ start[i] >= Consumed
      BY <2>1 DEF ByPacket, AllGood
    <3>2. start[i] \in Nat /\ End(i) \in Nat /\ start[i] < End(i) /\ End(i) <= Len(wire) /\ Len(wire) \in Nat
      BY Apart, Zenon DEF Base, Typed
    <3> QED BY <2>2, <3>1, <3>2
  <2>4. \A k \in 1..Len(sent) : sent[k] \in 1..Len(stream) /\ stream[sent[k]].kind # "response"
    BY Zenon DEF Answered, Handled, Ordered
  <2>5. ASSUME NEW i \in 1..Len(stream), stream[i].kind # "response"
        PROVE  \E k \in 1..Len(sent) : sent[k] = i
    <3>1. PICK h \in 1..Len(handled) : handled[h] = i
      BY <2>3 DEF Handled
    <3> QED BY <2>5, <3>1, Zenon DEF Answered
  <2> QED BY <2>4, <2>5, SMTT(30) DEF Answered
<1> QED BY <1>1, <1>2, StreamInvariant, FramedPacketsKept, PTL DEF StreamAnswered
=============================================================================
