-------------------------- MODULE ConnectionsProofs --------------------------
(***************************************************************************)
(* Proofs about connections: one TcpConnection, for any number of threads, *)
(* messages and requests, and the TcpClient, for any number of calls,      *)
(* outages and timers.                                                     *)
(***************************************************************************)
EXTENDS TcpConnection, TcpClientState, SequenceTheorems, TLAPS

Client == INSTANCE TcpClient

(* A write of k bytes moves them from the buffer to the wire. *)
LEMMA PartialWrite ==
  ASSUME NEW S, NEW w \in Seq(S), NEW b \in Seq(S), NEW k \in 0..Len(b)
  PROVE  /\ w \o SubSeq(b, 1, k) \in Seq(S)
         /\ (w \o SubSeq(b, 1, k)) \o SubSeq(b, k + 1, Len(b)) = w \o b
<1> DEFINE x == SubSeq(b, 1, k)
           y == SubSeq(b, k + 1, Len(b))
<1>1. x \in Seq(S) /\ y \in Seq(S)
  OBVIOUS
<1>2. x \o y = b
  <2>1. x \o y = SubSeq(b, 1, Len(b))
    <3>1. 1 \in 1..(Len(b) + 1) /\ k \in (1 - 1)..Len(b) /\ Len(b) \in k..Len(b)
      OBVIOUS
    <3> QED BY <3>1, ConcatAdjacentSubSeq, Zenon
  <2>2. SubSeq(b, 1, Len(b)) = b
    BY SubSeqFull
  <2> QED BY <2>1, <2>2, Zenon
<1> HIDE DEF x, y
<1>3. w \o x \in Seq(S)
  BY <1>1
<1>4. (w \o x) \o y = w \o (x \o y)
  BY <1>1, ConcatAssociative, SMTT(30)
<1> QED BY <1>2, <1>3, <1>4, Zenon DEF x, y

LEMMA Counting == \A n \in Nat : n + 1 \in Nat /\ n + 1 > 0 /\ (n > 0 => n - 1 \in Nat)
  OBVIOUS

LEMMA WaitsAppend ==
  ASSUME NEW S, NEW s \in Seq(S), NEW f \in S, NEW g
  PROVE  Append(s, f) \in Seq(S) /\ (Waits(Append(s, f), g) <=> Waits(s, g) \/ f = g)
<1>1. /\ Append(s, f) \in Seq(S) /\ Len(Append(s, f)) = Len(s) + 1 /\ Len(s) \in Nat
      /\ Append(s, f)[Len(s) + 1] = f /\ \A i \in 1..Len(s) : Append(s, f)[i] = s[i]
  OBVIOUS
<1>2. \A i : i \in 1..(Len(s) + 1) <=> i \in 1..Len(s) \/ i = Len(s) + 1
  BY <1>1
<1> QED BY <1>1, <1>2, Zenon DEF Waits

LEMMA WaitsTail ==
  ASSUME NEW S, NEW s \in Seq(S), s # <<>>, NEW g
  PROVE  Tail(s) \in Seq(S) /\ (Waits(s, g) <=> Waits(Tail(s), g) \/ Head(s) = g)
<1>1. /\ Tail(s) \in Seq(S) /\ 1 \in 1..Len(s) /\ s[1] = Head(s)
      /\ \A i \in 1..Len(Tail(s)) : i + 1 \in 1..Len(s) /\ Tail(s)[i] = s[i + 1]
      /\ \A i \in 1..Len(s) : i = 1 \/ (i - 1 \in 1..Len(Tail(s)) /\ Tail(s)[i - 1] = s[i])
  OBVIOUS
<1> QED BY <1>1, Zenon DEF Waits

LEMMA Queued ==
  ASSUME NEW S, NEW w \in Seq(S), NEW b \in Seq(S), NEW m \in Seq(S)
  PROVE  w \o (b \o m) = (w \o b) \o m /\ w \o <<>> = w
  BY ConcatAssociative

(***************************************************************************)
(* TcpConnection.  The inductive invariant has a part for the connection   *)
(* (Core), one for the functor queue (QueueInv) and the type of sends.     *)
(***************************************************************************)
AllBytes == Senders \X Nat \X {1, 2}
Posted == [op : {"send"}, msg : Seq(AllBytes)] \cup [op : {"shutdown", "close", "destroy", "written"}]
NoShutdown(fs) == \A i \in 1..Len(fs) : fs[i].op # "shutdown"

CoreTypes == /\ state \in {"kConnected", "kDisconnecting", "kDisconnected"}
             /\ events \in SUBSET {"r", "w"} /\ outBuf \in Seq(AllBytes)
             /\ downs \in Nat /\ fin \in BOOLEAN

(* While the connection is up it watches for writability iff something is
   buffered; once it is down it watches nothing.  FIN is only sent after
   kConnected was left, and nothing is buffered behind it. *)
Core == /\ CoreTypes
        /\ downs = 0 => (outBuf # <<>> <=> "w" \in events)
        /\ downs = 0 => state # "kDisconnected"
        /\ downs # 0 => events = {}
        /\ state = "kConnected" => downs = 0
        /\ state = "kConnected" => ~fin
        /\ downs = 0 => (fin => outBuf = <<>>)

(* No shutdownInLoop is queued in kConnected. *)
QueueInv == queue \in Seq(Posted) /\ (state = "kConnected" => NoShutdown(queue))

SendsInv == sends \in [Senders -> Nat]

IInv == Core /\ QueueInv /\ SendsInv
-----------------------------------------------------------------------------
(* Facts about the queue. *)
LEMMA TailQueue ==
  ASSUME NEW fs \in Seq(Posted), fs # <<>>
  PROVE  Tail(fs) \in Seq(Posted) /\ (NoShutdown(fs) => NoShutdown(Tail(fs)))
  BY DEF NoShutdown

LEMMA HeadQueue ==
  ASSUME NEW fs \in Seq(Posted), fs # <<>>
  PROVE  /\ Head(fs).op = "send" => Head(fs).msg \in Seq(AllBytes)
         /\ NoShutdown(fs) => Head(fs).op # "shutdown"
<1>1. Head(fs) \in Posted /\ Head(fs) = fs[1] /\ 1 \in 1..Len(fs)
  OBVIOUS
<1>2. Head(fs).op = "send" => Head(fs).msg \in Seq(AllBytes)
  BY <1>1 DEF Posted
<1> QED BY <1>1, <1>2 DEF NoShutdown

LEMMA AppendQueue ==
  ASSUME NEW fs \in Seq(Posted), NEW f \in Posted
  PROVE  /\ Append(fs, f) \in Seq(Posted)
         /\ NoShutdown(fs) /\ f.op # "shutdown" => NoShutdown(Append(fs, f))
  BY DEF NoShutdown

LEMMA MessageType ==
  ASSUME NEW t \in Senders, NEW i \in Nat
  PROVE  Message(t, i) \in Seq(AllBytes)
<1>1. <<t, i, 1>> \in AllBytes /\ <<t, i, 2>> \in AllBytes
  BY DEF AllBytes
<1> QED BY <1>1 DEF Message

LEMMA FunctorTypes ==
  /\ \A op \in {"shutdown", "close", "destroy", "written"} : [op |-> op] \in Posted /\ [op |-> op].op = op
  /\ \A m \in Seq(AllBytes) : [op |-> "send", msg |-> m] \in Posted
                              /\ [op |-> "send", msg |-> m].op = "send"
  BY DEF Posted

(* A suffix of a sequence is empty iff it starts behind the last element. *)
LEMMA Suffix ==
  ASSUME NEW S, NEW s \in Seq(S), NEW k \in 0..Len(s)
  PROVE  /\ SubSeq(s, k + 1, Len(s)) \in Seq(S)
         /\ SubSeq(s, k + 1, Len(s)) = <<>> <=> k = Len(s)
  OBVIOUS
-----------------------------------------------------------------------------
(* handleClose keeps the connection's invariant, and leaves kConnected. *)
LEMMA CloseKeepsCore ==
  ASSUME Core, HandleClose, UNCHANGED <<outBuf, fin>>
  PROVE  Core' /\ (state' = "kConnected" => state = "kConnected")
<1>1. CASE UNCHANGED connVars
  BY <1>1 DEF Core, CoreTypes, connVars
<1>2. CASE state' = "kDisconnected" /\ events' = {} /\ downs' = downs + 1
  <2>1. downs' \in Nat /\ downs' # 0
    BY <1>2 DEF Core, CoreTypes
  <2>2. CoreTypes'
    BY <1>2, <2>1 DEF Core, CoreTypes
  <2> QED BY <1>2, <2>1, <2>2 DEF Core
<1> QED BY <1>1, <1>2 DEF HandleClose

LEMMA ErrorKeepsCore ==
  ASSUME NEW p \in BOOLEAN, Core, HandleError(p), UNCHANGED <<outBuf, fin>>
  PROVE  Core' /\ (state' = "kConnected" => state = "kConnected")
<1>1. CASE HandleClose
  BY <1>1, CloseKeepsCore
<1>2. CASE UNCHANGED connVars
  BY <1>2 DEF Core, CoreTypes, connVars
<1> QED BY <1>1, <1>2 DEF HandleError

(* sendInLoop in kConnected: a partial write leaves a rest and watches for
   writability, a complete one leaves neither. *)
LEMMA SendKeeps ==
  ASSUME Core, state = "kConnected", NEW m \in Seq(AllBytes),
         NEW fs \in Seq(Posted), NoShutdown(fs), SendInLoop(m, fs), UNCHANGED fin
  PROVE  Core' /\ QueueInv'
<1>0. downs = 0 /\ ~fin /\ fin' = fin /\ CoreTypes
  BY DEF Core
<1>1. CASE /\ "w" \notin events /\ outBuf = <<>>
           /\ \E k \in 0..Len(m) :
                /\ outBuf' = Unsent(m, k) /\ events' = Interest(Unsent(m, k))
                /\ queue' = IF k = Len(m) THEN Append(fs, [op |-> "written"]) ELSE fs
           /\ UNCHANGED <<state, downs>>
  <2>1. PICK k \in 0..Len(m) :
          /\ outBuf' = Unsent(m, k) /\ events' = Interest(Unsent(m, k))
          /\ queue' = IF k = Len(m) THEN Append(fs, [op |-> "written"]) ELSE fs
    BY <1>1
  <2>2. outBuf' \in Seq(AllBytes)
    BY <2>1, Suffix DEF Unsent
  <2>3. events' \in SUBSET {"r", "w"} /\ (outBuf' # <<>> <=> "w" \in events')
    BY <1>0, <1>1, <2>1 DEF Interest, CoreTypes
  <2>4. queue' \in Seq(Posted) /\ NoShutdown(queue')
    <3>1. CASE queue' = fs
      BY <3>1
    <3>2. CASE queue' = Append(fs, [op |-> "written"])
      BY <3>2, AppendQueue, FunctorTypes
    <3> QED BY <2>1, <3>1, <3>2
  <2>5. Core'
    BY <1>0, <1>1, <2>2, <2>3 DEF Core, CoreTypes
  <2> QED BY <2>4, <2>5 DEF QueueInv
<1>2. CASE /\ \E p \in {FALSE, soError} : HandleError(p)
           /\ queue' = fs /\ UNCHANGED outBuf
  <2>1. PICK p \in {FALSE, soError} : HandleError(p)
    BY <1>2, Zenon
  <2>2. CASE HandleClose
    BY <1>0, <1>2, <2>2, CloseKeepsCore DEF QueueInv
  <2>3. CASE UNCHANGED connVars
    BY <1>0, <1>2, <2>3 DEF Core, CoreTypes, connVars, QueueInv
  <2> QED BY <2>1, <2>2, <2>3 DEF HandleError
<1>3. CASE /\ "w" \in events \/ outBuf # <<>>
           /\ outBuf' = outBuf \o m /\ events' = Interest(m)
           /\ queue' = fs /\ UNCHANGED <<state, downs>>
  <2>1. "w" \in events /\ outBuf # <<>>
    BY <1>0, <1>3 DEF Core
  <2>2. outBuf' \in Seq(AllBytes) /\ outBuf' # <<>>
    BY <1>0, <1>3, <2>1 DEF CoreTypes
  <2>3. events' = events
    BY <1>3, <2>1 DEF Interest
  <2> QED BY <1>0, <1>3, <2>1, <2>2, <2>3 DEF Core, CoreTypes, QueueInv
<1> QED BY <1>1, <1>2, <1>3, Zenon DEF SendInLoop
-----------------------------------------------------------------------------
(* The steps of the loop thread. *)
LEMMA RunSendKeeps ==
  ASSUME IInv, RunSend
  PROVE  IInv'
<1>1. queue \in Seq(Posted) /\ queue # <<>> /\ Head(queue).op = "send"
  BY DEF IInv, QueueInv, RunSend, Pop
<1>2. Tail(queue) \in Seq(Posted) /\ (NoShutdown(queue) => NoShutdown(Tail(queue)))
  BY <1>1, TailQueue
<1>3. UNCHANGED <<fin, sends>>
  BY DEF RunSend
<1>4. CASE state = "kConnected" /\ SendInLoop(Head(queue).msg, Tail(queue))
  <2>1. Head(queue).msg \in Seq(AllBytes)
    BY <1>1, HeadQueue
  <2>2. NoShutdown(Tail(queue))
    BY <1>2, <1>4 DEF IInv, QueueInv
  <2>3. Core' /\ QueueInv'
    BY <1>2, <1>3, <1>4, <2>1, <2>2, SendKeeps, Zenon DEF IInv
  <2> QED BY <1>3, <2>3 DEF IInv, SendsInv
<1>5. CASE queue' = Tail(queue) /\ UNCHANGED <<connVars, outBuf>>
  BY <1>2, <1>3, <1>5 DEF IInv, Core, CoreTypes, QueueInv, SendsInv, connVars
<1> QED BY <1>4, <1>5 DEF RunSend

LEMMA FunctorsKeep ==
  ASSUME IInv, RunShutdown \/ RunClose \/ RunWritten \/ ConnectDestroyed
  PROVE  IInv'
<1>1. /\ queue \in Seq(Posted) /\ queue # <<>> /\ queue' = Tail(queue)
      /\ UNCHANGED <<outBuf, sends>>
  BY DEF IInv, QueueInv, RunShutdown, RunClose, RunWritten, ConnectDestroyed, Pop
<1>2. Tail(queue) \in Seq(Posted) /\ (NoShutdown(queue) => NoShutdown(Tail(queue)))
  BY <1>1, TailQueue
<1>3. SUFFICES Core' /\ (state' = "kConnected" => state = "kConnected")
  BY <1>1, <1>2 DEF IInv, QueueInv, SendsInv
<1>4. CASE RunShutdown
  <2>1. state # "kConnected"
    BY <1>1, <1>4, HeadQueue DEF IInv, QueueInv, RunShutdown, Pop
  <2>2. UNCHANGED <<state, events, downs>> /\ fin' = (fin \/ ~("w" \in events))
    BY <1>4 DEF RunShutdown, ShutdownInLoop, connVars
  <2>3. CoreTypes'
    BY <1>1, <2>2 DEF IInv, Core, CoreTypes
  <2>4. downs = 0 => (fin' => outBuf = <<>>)
    BY <2>2, Zenon DEF IInv, Core
  <2> QED BY <1>1, <2>1, <2>2, <2>3, <2>4 DEF IInv, Core
<1>5. CASE RunClose
  BY <1>1, <1>5, CloseKeepsCore DEF IInv, RunClose
<1>6. CASE RunWritten
  BY <1>6 DEF IInv, Core, CoreTypes, RunWritten, connVars
<1>7. CASE ConnectDestroyed
  <2>1. UNCHANGED <<outBuf, fin>>
    BY <1>7 DEF ConnectDestroyed
  <2>2. CASE state' = "kDisconnected" /\ events' = {} /\ downs' = downs + 1
    <3>1. downs' \in Nat /\ downs' # 0
      BY <2>2 DEF IInv, Core, CoreTypes
    <3>2. CoreTypes'
      BY <2>1, <2>2, <3>1 DEF IInv, Core, CoreTypes
    <3> QED BY <2>2, <3>1, <3>2 DEF Core
  <2>3. CASE UNCHANGED <<state, events, downs>>
    BY <2>1, <2>3 DEF IInv, Core, CoreTypes
  <2> QED BY <1>7, <2>2, <2>3 DEF ConnectDestroyed
<1> QED BY <1>4, <1>5, <1>6, <1>7

(* Channel::handleEvent: the events that only close. *)
LEMMA CloseEventsKeep ==
  ASSUME IInv, HandleErr \/ HandleErrClose \/ HandleHup \/ HandleEof \/ HandleReadError
  PROVE  IInv'
<1>1. UNCHANGED <<outBuf, queue, sends, fin>>
  BY Zenon DEF HandleErr, HandleErrClose, HandleHup, HandleEof, HandleReadError
<1>2. HandleClose \/ UNCHANGED connVars
  BY DEF HandleErr, HandleErrClose, HandleHup, HandleEof, HandleReadError, HandleError
<1>3. Core' /\ (state' = "kConnected" => state = "kConnected")
  BY <1>1, <1>2, CloseKeepsCore, Zenon DEF IInv, Core, CoreTypes, connVars
<1> QED BY <1>1, <1>3 DEF IInv, QueueInv, SendsInv

LEMMA HandleReadKeeps ==
  ASSUME IInv, HandleRead
  PROVE  IInv'
<1>1. Loop \in Senders /\ sends[Loop] + 1 \in Nat
  BY DEF IInv, SendsInv, Senders
<1>2. sends' = [sends EXCEPT ![Loop] = sends[Loop] + 1] /\ fin' = fin
  BY DEF HandleRead
<1>3. SendsInv' /\ sends'[Loop] \in Nat
  BY <1>1, <1>2 DEF IInv, SendsInv
<1>4. CASE state = "kConnected" /\ SendInLoop(Message(Loop, sends'[Loop]), queue)
  <2>1. Message(Loop, sends'[Loop]) \in Seq(AllBytes)
    BY <1>1, <1>3, MessageType
  <2>2. queue \in Seq(Posted) /\ NoShutdown(queue)
    BY <1>4 DEF IInv, QueueInv
  <2>3. Core' /\ QueueInv'
    BY <1>2, <1>4, <2>1, <2>2, SendKeeps DEF IInv
  <2> QED BY <1>3, <2>3 DEF IInv
<1>5. CASE UNCHANGED <<connVars, outBuf, queue>>
  BY <1>2, <1>3, <1>5 DEF IInv, Core, CoreTypes, QueueInv, connVars
<1> QED BY <1>4, <1>5 DEF HandleRead

(* handleWrite: with kWriteEvent in its interest the connection is up and has
   something buffered, so FIN has not been sent. *)
LEMMA HandleWriteKeeps ==
  ASSUME IInv, HandleWrite
  PROVE  IInv' /\ (fin => wire' = wire)
<1>0. sends' = sends
  BY DEF HandleWrite
<1>1. CASE UNCHANGED <<connVars, outBuf, queue, wire, fin>>
  BY <1>0, <1>1 DEF IInv, Core, CoreTypes, QueueInv, SendsInv, connVars
<1>2. CASE /\ "w" \in events
           /\ \E k \in 1..Len(outBuf) :
                /\ outBuf' = SubSeq(outBuf, k + 1, Len(outBuf))
                /\ \/ k < Len(outBuf) /\ UNCHANGED <<events, queue, fin>>
                   \/ /\ k = Len(outBuf)
                      /\ events' = events \ {"w"}
                      /\ queue' = Append(queue, [op |-> "written"])
                      /\ FinAfterDrain
           /\ UNCHANGED <<state, downs>>
  <2>1. downs = 0 /\ outBuf # <<>> /\ ~fin /\ CoreTypes
    BY <1>2 DEF IInv, Core
  <2>2. PICK k \in 1..Len(outBuf) :
          /\ outBuf' = SubSeq(outBuf, k + 1, Len(outBuf))
          /\ \/ k < Len(outBuf) /\ UNCHANGED <<events, queue, fin>>
             \/ /\ k = Len(outBuf)
                /\ events' = events \ {"w"}
                /\ queue' = Append(queue, [op |-> "written"])
                /\ FinAfterDrain
    BY <1>2
  <2>3. outBuf \in Seq(AllBytes) /\ k \in 0..Len(outBuf)
    BY <2>1, <2>2 DEF CoreTypes
  <2>4. outBuf' \in Seq(AllBytes) /\ (outBuf' = <<>> <=> k = Len(outBuf))
    BY <2>2, <2>3, Suffix
  <2>5. CASE k < Len(outBuf) /\ UNCHANGED <<events, queue, fin>>
    <3>1. k # Len(outBuf)
      BY <2>3, <2>5
    <3>2. Core'
      BY <1>2, <2>1, <2>4, <2>5, <3>1 DEF IInv, Core, CoreTypes
    <3> QED BY <1>0, <1>2, <2>1, <2>5, <3>2 DEF IInv, QueueInv, SendsInv
  <2>6. CASE /\ k = Len(outBuf)
             /\ events' = events \ {"w"}
             /\ queue' = Append(queue, [op |-> "written"])
             /\ FinAfterDrain
    <3>1. outBuf' = <<>> /\ "w" \notin events' /\ events' \in SUBSET {"r", "w"}
      BY <2>1, <2>4, <2>6 DEF CoreTypes
    <3>2. fin' \in BOOLEAN /\ (state = "kConnected" => ~fin')
      <4>1. CASE state = "kDisconnecting" /\ fin' = (fin \/ ~FALSE)
        BY <4>1, Zenon
      <4>2. CASE state # "kDisconnecting" /\ fin' = fin
        BY <4>2, <2>1 DEF CoreTypes
      <4> QED BY <2>6, <4>1, <4>2 DEF FinAfterDrain, ShutdownInLoop
    <3>3. Core'
      BY <1>2, <2>1, <2>4, <3>1, <3>2 DEF IInv, Core, CoreTypes
    <3>4. QueueInv'
      BY <1>2, <2>6, AppendQueue, FunctorTypes DEF IInv, QueueInv
    <3> QED BY <1>0, <2>1, <3>3, <3>4 DEF IInv, SendsInv
  <2> QED BY <2>2, <2>5, <2>6
<1>3. CASE /\ \E p \in {FALSE, soError} : HandleError(p)
           /\ UNCHANGED <<outBuf, queue, wire, fin>>
  <2>1. HandleClose \/ UNCHANGED connVars
    BY <1>3 DEF HandleError
  <2>2. Core' /\ (state' = "kConnected" => state = "kConnected")
    BY <1>3, <2>1, CloseKeepsCore, Zenon DEF IInv, Core, CoreTypes, connVars
  <2> QED BY <1>0, <1>3, <2>2 DEF IInv, QueueInv, SendsInv
<1> QED BY <1>1, <1>2, <1>3, Zenon DEF HandleWrite

(* The calls on user threads, the idle scan and the owner. *)
LEMMA CallsKeep ==
  ASSUME IInv,
         \/ \E t \in Threads : Send(t) \/ ShutdownTest(t) \/ ShutdownStore(t)
         \/ CheckIdleTimeout \/ RemoveConnection
  PROVE  IInv' /\ wire' = wire
<1>1. CASE \E t \in Threads : Send(t)
  <2>1. PICK t \in Threads : Send(t)
    BY <1>1
  <2>2. t \in Senders /\ sends[t] + 1 \in Nat /\ sends' = [sends EXCEPT ![t] = sends[t] + 1]
    BY <2>1 DEF IInv, SendsInv, Senders, Send
  <2>3. SendsInv' /\ sends'[t] \in Nat
    BY <2>2 DEF IInv, SendsInv
  <2>4. UNCHANGED <<connVars, outBuf, wire, fin>>
    BY <2>1 DEF Send
  <2>5. [op |-> "send", msg |-> Message(t, sends'[t])] \in Posted
        /\ [op |-> "send", msg |-> Message(t, sends'[t])].op # "shutdown"
    BY <2>2, <2>3, MessageType, FunctorTypes
  <2>6. CASE queue' = Append(queue, [op |-> "send", msg |-> Message(t, sends'[t])])
    BY <2>3, <2>4, <2>5, <2>6, AppendQueue DEF IInv, Core, CoreTypes, QueueInv, connVars
  <2>7. CASE queue' = queue
    BY <2>3, <2>4, <2>7 DEF IInv, Core, CoreTypes, QueueInv, connVars
  <2> QED BY <2>1, <2>6, <2>7 DEF Send
<1>2. CASE \E t \in Threads : ShutdownTest(t)
  BY <1>2 DEF IInv, Core, CoreTypes, QueueInv, SendsInv, connVars, ShutdownTest
<1>3. CASE \/ \E t \in Threads : ShutdownStore(t)
           \/ CheckIdleTimeout
  <2>1. /\ state' = "kDisconnecting" /\ UNCHANGED <<events, downs, outBuf, sends, wire, fin>>
        /\ queue' \in {Append(queue, [op |-> "shutdown"]), Append(queue, [op |-> "close"])}
    BY <1>3 DEF ShutdownStore, CheckIdleTimeout
  <2>2. queue' \in Seq(Posted)
    BY <2>1, AppendQueue, FunctorTypes, Zenon DEF IInv, QueueInv
  <2> QED BY <2>1, <2>2 DEF IInv, Core, CoreTypes, QueueInv, SendsInv
<1>4. CASE RemoveConnection
  <2>1. queue' = Append(queue, [op |-> "destroy"])
        /\ UNCHANGED <<state, events, downs, outBuf, sends, wire, fin>>
    BY <1>4 DEF RemoveConnection
  <2>2. QueueInv'
    BY <2>1, AppendQueue, FunctorTypes DEF IInv, QueueInv
  <2> QED BY <2>1, <2>2 DEF IInv, Core, CoreTypes, SendsInv
<1> QED BY <1>1, <1>2, <1>3, <1>4
-----------------------------------------------------------------------------
(* A step of another kind than a write leaves what has been written. *)
LEMMA WritesBeforeFin ==
  ASSUME IInv, Next, fin
  PROVE  wire' = wire
<1>1. state # "kConnected"
  BY DEF IInv, Core
<1>2. CASE RunSend \/ HandleRead
  BY <1>1, <1>2, Zenon DEF RunSend, HandleRead
<1>3. CASE HandleWrite
  BY <1>3, HandleWriteKeeps
<1>4. CASE \/ RunShutdown \/ RunClose \/ RunWritten \/ ConnectDestroyed
           \/ HandleErr \/ HandleErrClose \/ HandleHup \/ HandleEof \/ HandleReadError
  BY <1>4, Zenon DEF RunShutdown, RunClose, RunWritten, ConnectDestroyed, HandleErr, HandleErrClose,
              HandleHup, HandleEof, HandleReadError
<1>5. CASE PeerSends \/ PeerCloses \/ PeerResets \/ PeerGoesQuiet
  BY <1>5, Zenon DEF PeerSends, PeerCloses, PeerResets, PeerGoesQuiet
<1>6. CASE \/ \E t \in Threads : Send(t) \/ ShutdownTest(t) \/ ShutdownStore(t)
           \/ CheckIdleTimeout \/ RemoveConnection
  BY <1>6, CallsKeep
<1> QED BY <1>2, <1>3, <1>4, <1>5, <1>6 DEF Next, LoopStep

LEMMA InitHolds ==
  ASSUME Init
  PROVE  IInv
<1>1. Core
  <2>1. /\ state = "kConnected" /\ events = {"r"} /\ outBuf = <<>> /\ downs = 0 /\ ~fin
        /\ fin \in BOOLEAN
    BY Zenon DEF Init
  <2>2. <<>> \in Seq(AllBytes)
    OBVIOUS
  <2>3. CoreTypes
    BY <2>1, <2>2 DEF CoreTypes
  <2> QED BY <2>1, <2>3 DEF Core
<1>2. QueueInv
  BY DEF Init, QueueInv, NoShutdown
<1>3. SendsInv
  BY DEF Init, SendsInv
<1> QED BY <1>1, <1>2, <1>3 DEF IInv

LEMMA StepKeeps ==
  ASSUME IInv, [Next]_vars
  PROVE  IInv'
<1>1. CASE RunSend
  BY <1>1, RunSendKeeps
<1>2. CASE RunShutdown \/ RunClose \/ RunWritten \/ ConnectDestroyed
  BY <1>2, FunctorsKeep
<1>3. CASE HandleErr \/ HandleErrClose \/ HandleHup \/ HandleEof \/ HandleReadError
  BY <1>3, CloseEventsKeep
<1>4. CASE HandleRead
  BY <1>4, HandleReadKeeps
<1>5. CASE HandleWrite
  BY <1>5, HandleWriteKeeps
<1>6. CASE \/ \E t \in Threads : Send(t) \/ ShutdownTest(t) \/ ShutdownStore(t)
           \/ CheckIdleTimeout \/ RemoveConnection
  BY <1>6, CallsKeep
<1>7. CASE PeerSends \/ PeerCloses \/ PeerResets \/ PeerGoesQuiet
  <2>1. UNCHANGED <<connVars, outBuf, queue, sends, fin>>
    BY <1>7 DEF PeerSends, PeerCloses, PeerResets, PeerGoesQuiet
  <2> QED BY <2>1 DEF connVars, IInv, Core, CoreTypes, QueueInv, SendsInv
<1>8. CASE UNCHANGED vars
  BY <1>8 DEF vars, connVars, IInv, Core, CoreTypes, QueueInv, SendsInv
<1> QED BY <1>1, <1>2, <1>3, <1>4, <1>5, <1>6, <1>7, <1>8 DEF Next, LoopStep

(* The connection watches for writability exactly while something is buffered,
   whatever the threads, the peer and the idle scan do. *)
THEOREM NoOutputLeftBehind == Spec => []WatchesWhileBuffered
<1>1. IInv => WatchesWhileBuffered
  BY DEF IInv, Core, WatchesWhileBuffered
<1> QED BY <1>1, InitHolds, StepKeeps, PTL DEF Spec

(* FIN is the last thing the connection writes. *)
THEOREM FinIsLast == Spec => NothingAfterFin
<1>1. ASSUME IInv, [Next]_vars
      PROVE  [fin' => /\ (downs' = 0 => outBuf' = <<>>)
                      /\ (fin => wire' = wire)]_vars
  <2>1. Core'
    BY <1>1, StepKeeps DEF IInv
  <2>2. fin => wire' = wire
    BY <1>1, WritesBeforeFin, Zenon DEF vars
  <2> QED BY <2>1, <2>2 DEF Core
<1> QED BY <1>1, InitHolds, StepKeeps, PTL DEF Spec, NothingAfterFin
-----------------------------------------------------------------------------
(* The end of a connection.  Until a user thread is inside shutdown(), whose
   store may take the connection out of kDisconnected, the state says whether
   the end was reported. *)
Told(s, d) == (s = "kDisconnected" => d = 1) /\ (s # "kDisconnected" => d = 0)
DownInv == /\ pc \in [Threads -> {"idle", "shut", "done"}]
           /\ ~ShutdownCalled => Told(state, downs)

LEMMA CloseTells ==
  ASSUME Told(state, downs), HandleClose \/ UNCHANGED connVars
  PROVE  Told(state', downs')
  BY DEF Told, HandleClose, connVars

(* Steps of the loop thread. *)
LEMMA LoopTells ==
  ASSUME Told(state, downs), LoopStep \/ HandleWrite
  PROVE  Told(state', downs')
<1>1. CASE RunClose \/ HandleErr \/ HandleErrClose \/ HandleHup \/ HandleEof \/ HandleReadError
           \/ RunShutdown \/ RunWritten
  BY <1>1, CloseTells DEF RunClose, HandleErr, HandleErrClose, HandleHup, HandleEof, HandleReadError,
                          HandleError, RunShutdown, RunWritten
<1>2. CASE ConnectDestroyed
  BY <1>2 DEF ConnectDestroyed, Told
<1>3. ASSUME NEW m, NEW fs, SendInLoop(m, fs) PROVE Told(state', downs')
  <2>1. HandleClose \/ UNCHANGED <<state, downs>>
    BY <1>3, Zenon DEF SendInLoop, HandleError, connVars
  <2> QED BY <2>1, CloseTells DEF Told
<1>4. CASE RunSend \/ HandleRead
  BY <1>3, <1>4, CloseTells DEF RunSend, HandleRead
<1>5. CASE HandleWrite
  <2>1. HandleClose \/ UNCHANGED <<state, downs>>
    BY <1>5, Zenon DEF HandleWrite, HandleError, connVars
  <2> QED BY <2>1, CloseTells DEF Told
<1> QED BY <1>1, <1>2, <1>4, <1>5, Zenon DEF LoopStep

LEMMA NextDown == DownInv /\ [Next]_vars => DownInv'
<1> SUFFICES ASSUME DownInv, [Next]_vars PROVE DownInv'
  OBVIOUS
<1>1. CASE LoopStep \/ HandleWrite
  <2>1. pc' = pc
    BY <1>1, Zenon DEF LoopStep, HandleWrite, RunSend, RunShutdown, RunClose, RunWritten, ConnectDestroyed,
                HandleErr, HandleErrClose, HandleHup, HandleRead, HandleEof, HandleReadError
  <2> QED BY <1>1, <2>1, LoopTells DEF DownInv, ShutdownCalled
<1>2. ASSUME NEW t \in Threads, Send(t) \/ ShutdownTest(t) \/ ShutdownStore(t) PROVE DownInv'
  <2>1. CASE Send(t)
    BY <2>1 DEF Send, DownInv, ShutdownCalled, connVars
  <2>2. CASE ShutdownTest(t) \/ ShutdownStore(t)
    BY <2>2 DEF ShutdownTest, ShutdownStore, DownInv, ShutdownCalled
  <2> QED BY <1>2, <2>1, <2>2
<1>3. CASE CheckIdleTimeout
  BY <1>3 DEF CheckIdleTimeout, DownInv, ShutdownCalled, Told
<1>4. CASE RemoveConnection \/ PeerSends \/ PeerCloses \/ PeerResets \/ PeerGoesQuiet \/ UNCHANGED vars
  <2>1. UNCHANGED <<state, downs, pc>>
    BY <1>4 DEF RemoveConnection, PeerSends, PeerCloses, PeerResets, PeerGoesQuiet, vars, connVars
  <2> QED BY <2>1, Zenon DEF DownInv, ShutdownCalled
<1> QED BY <1>1, <1>2, <1>3, <1>4 DEF Next

(* Unless a user thread calls shutdown(), the end of a connection is reported
   once, however many of EPOLLERR, EPOLLHUP, end of file, failed writes, the idle
   scan and connectDestroyed bring it about. *)
THEOREM EndIsToldOnce == Spec => []DownOnce
<1>1. Init => DownInv
  BY DEF Init, DownInv, Told
<1>2. DownInv => DownOnce
  BY DEF DownInv, DownOnce, Told
<1> QED BY <1>1, <1>2, NextDown, PTL DEF Spec
-----------------------------------------------------------------------------
(***************************************************************************)
(* Whole messages in order.  Every step leaves the stream alone or puts    *)
(* one whole message behind it.  The message is above all those its thread *)
(* has in the stream, because those a thread has queued are increasing and *)
(* above what it has in the stream (Fresh, Increasing), and the loop       *)
(* thread, which does not queue, takes the next number.                    *)
(***************************************************************************)
Whole(s, n) ==
  /\ s \in Seq(AllBytes) /\ Len(s) = 2 * n
  /\ \A p \in 1..n : /\ s[2 * p - 1] = <<s[2 * p - 1][1], s[2 * p - 1][2], 1>>
                     /\ s[2 * p] = <<s[2 * p - 1][1], s[2 * p - 1][2], 2>>
  /\ \A p, r \in 1..n : p < r /\ s[2 * p - 1][1] = s[2 * r - 1][1]
                          => s[2 * p - 1][2] < s[2 * r - 1][2]

(* What t has in s is numbered below i. *)
Below(s, t, i) == \A p \in 1..Len(s) : s[p][1] = t => s[p][2] < i

IsSend(f) == f.op = "send"
Sender(f) == f.msg[1][1]
Number(f) == f.msg[1][2]

Fresh(s, fs, counts) ==
  \A j \in 1..Len(fs) : IsSend(fs[j]) =>
    /\ Sender(fs[j]) \in Threads /\ Number(fs[j]) \in 1..counts[Sender(fs[j])]
    /\ fs[j].msg = Message(Sender(fs[j]), Number(fs[j]))
    /\ Below(s, Sender(fs[j]), Number(fs[j]))

Increasing(fs) ==
  \A j, k \in 1..Len(fs) :
    j < k /\ IsSend(fs[j]) /\ IsSend(fs[k]) /\ Sender(fs[j]) = Sender(fs[k])
      => Number(fs[j]) < Number(fs[k])

StreamInv ==
  /\ wire \in Seq(AllBytes)
  /\ \E n \in Nat : Whole(Stream, n)
  /\ \A t \in Senders : Below(Stream, t, sends[t] + 1)
  /\ Fresh(Stream, queue, sends) /\ Increasing(queue)

LEMMA JoinedSequences ==
  ASSUME NEW S, NEW s \in Seq(S), NEW r \in Seq(S)
  PROVE  /\ s \o r \in Seq(S) /\ Len(s \o r) = Len(s) + Len(r)
         /\ \A k \in 1..Len(s) : (s \o r)[k] = s[k]
         /\ \A k \in 1..Len(r) : (s \o r)[Len(s) + k] = r[k]
  OBVIOUS

(* A message of t above all those it has in s. *)
LEMMA OneMore ==
  ASSUME NEW s, NEW n \in Nat, Whole(s, n), NEW t \in Senders, NEW i \in Nat, Below(s, t, i)
  PROVE  /\ Whole(s \o Message(t, i), n + 1)
         /\ \A u \in Senders, j \in Nat :
              Below(s, u, j) /\ (u = t => i < j) => Below(s \o Message(t, i), u, j)
<1> DEFINE m == Message(t, i)
           r == s \o m
<1>1. m \in Seq(AllBytes) /\ Len(m) = 2 /\ m[1] = <<t, i, 1>> /\ m[2] = <<t, i, 2>>
  BY MessageType DEF Message
<1>2. PICK z \in Nat : z = 2 * n
  OBVIOUS
<1>3. s \in Seq(AllBytes) /\ Len(s) = z
  BY <1>2, Zenon DEF Whole
<1> HIDE DEF m
<1>4. /\ r \in Seq(AllBytes) /\ Len(r) = z + 2
      /\ \A k \in 1..z : r[k] = s[k]
      /\ r[z + 1] = <<t, i, 1>> /\ r[z + 2] = <<t, i, 2>>
  <2>1. /\ r \in Seq(AllBytes) /\ Len(r) = Len(s) + Len(m)
        /\ \A k \in 1..Len(s) : r[k] = s[k]
        /\ \A k \in 1..Len(m) : r[Len(s) + k] = m[k]
    <3>1. s \in Seq(AllBytes) /\ m \in Seq(AllBytes)
      BY <1>1, <1>3
    <3> HIDE DEF AllBytes
    <3> QED BY <3>1, JoinedSequences
  <2> HIDE DEF r
  <2>2. r[z + 1] = m[1] /\ r[z + 2] = m[2]
    BY <1>1, <1>3, <2>1
  <2> QED BY <1>1, <1>3, <2>1, <2>2, Zenon
<1> HIDE DEF r
<1>6. ASSUME NEW p \in 1..(n + 1)
      PROVE  /\ r[2 * p - 1] = <<r[2 * p - 1][1], r[2 * p - 1][2], 1>>
             /\ r[2 * p] = <<r[2 * p - 1][1], r[2 * p - 1][2], 2>>
  <2>1. CASE p \in 1..n
    <3>1. r[2 * p - 1] = s[2 * p - 1] /\ r[2 * p] = s[2 * p]
      BY <1>2, <1>4, <2>1
    <3> QED BY <2>1, <3>1 DEF Whole
  <2>2. CASE p = n + 1
    <3>1. r[2 * p - 1] = <<t, i, 1>> /\ r[2 * p] = <<t, i, 2>>
      BY <1>2, <1>4, <2>2
    <3> QED BY <3>1
  <2> QED BY <2>1, <2>2
<1>7. ASSUME NEW p \in 1..(n + 1), NEW h \in 1..(n + 1), p < h,
             r[2 * p - 1][1] = r[2 * h - 1][1]
      PROVE  r[2 * p - 1][2] < r[2 * h - 1][2]
  <2>1. p \in 1..n /\ 2 * p - 1 \in 1..(2 * n) /\ r[2 * p - 1] = s[2 * p - 1]
    BY <1>2, <1>4, <1>7
  <2>2. CASE h \in 1..n
    <3>1. r[2 * h - 1] = s[2 * h - 1]
      BY <1>2, <1>4, <2>2
    <3> QED BY <1>7, <2>1, <2>2, <3>1, Zenon DEF Whole
  <2>3. CASE h = n + 1
    <3>1. r[2 * h - 1] = <<t, i, 1>>
      BY <1>2, <1>4, <2>3, SMTT(30)
    <3> QED BY <1>2, <1>3, <1>7, <2>1, <3>1 DEF Below
  <2> QED BY <2>2, <2>3
<1>8. Whole(r, n + 1)
  BY <1>2, <1>4, <1>6, <1>7 DEF Whole
<1>9. ASSUME NEW u \in Senders, NEW j \in Nat, Below(s, u, j), u = t => i < j
      PROVE  Below(r, u, j)
  <2> SUFFICES ASSUME NEW k \in 1..(z + 2), r[k][1] = u PROVE r[k][2] < j
    BY <1>4 DEF Below
  <2>1. CASE k \in 1..z
    BY <1>3, <1>4, <1>9, <2>1, Zenon DEF Below
  <2>2. CASE k = z + 1 \/ k = z + 2
    BY <1>4, <1>9, <2>2
  <2> QED BY <2>1, <2>2
<1> QED BY <1>8, <1>9 DEF r, m

(* sendInLoop puts the whole message behind the stream, or nothing. *)
LEMMA SendsWhole ==
  ASSUME wire \in Seq(AllBytes), outBuf \in Seq(AllBytes), NEW m \in Seq(AllBytes),
         NEW fs, SendInLoop(m, fs)
  PROVE  /\ wire' \in Seq(AllBytes) /\ (Stream' = Stream \/ Stream' = Stream \o m)
         /\ queue' = fs \/ queue' = Append(fs, [op |-> "written"])
<1>1. CASE UNCHANGED <<outBuf, wire>> /\ queue' = fs
  BY <1>1 DEF Stream
<1>2. CASE /\ outBuf = <<>>
           /\ \E k \in 0..Len(m) :
                /\ wire' = wire \o SubSeq(m, 1, k) /\ outBuf' = Unsent(m, k)
                /\ queue' = IF k = Len(m) THEN Append(fs, [op |-> "written"]) ELSE fs
  <2>1. PICK k \in 0..Len(m) :
          /\ wire' = wire \o SubSeq(m, 1, k) /\ outBuf' = SubSeq(m, k + 1, Len(m))
          /\ queue' = IF k = Len(m) THEN Append(fs, [op |-> "written"]) ELSE fs
    BY <1>2, Zenon DEF Unsent
  <2>2. wire' \in Seq(AllBytes) /\ wire' \o outBuf' = wire \o m
    BY <2>1, PartialWrite, Zenon
  <2>3. wire \o <<>> = wire
    BY Queued, Zenon
  <2> QED BY <1>2, <2>1, <2>2, <2>3, Zenon DEF Stream
<1>3. CASE outBuf' = outBuf \o m /\ queue' = fs /\ wire' = wire
  <2>1. wire \o (outBuf \o m) = (wire \o outBuf) \o m
    BY Queued, Zenon
  <2> QED BY <1>3, <2>1, Zenon DEF Stream
<1> QED BY <1>1, <1>2, <1>3, Zenon DEF SendInLoop

LEMMA QueueTaken ==
  ASSUME NEW fs \in Seq(Posted), fs # <<>>, NEW s, NEW counts,
         Fresh(s, fs, counts), Increasing(fs)
  PROVE  /\ Fresh(s, Tail(fs), counts) /\ Increasing(Tail(fs))
         /\ IsSend(Head(fs)) =>
              /\ Sender(Head(fs)) \in Threads /\ Number(Head(fs)) \in 1..counts[Sender(Head(fs))]
              /\ Head(fs).msg = Message(Sender(Head(fs)), Number(Head(fs)))
              /\ Below(s, Sender(Head(fs)), Number(Head(fs)))
              /\ \A j \in 1..Len(Tail(fs)) :
                   IsSend(Tail(fs)[j]) /\ Sender(Tail(fs)[j]) = Sender(Head(fs))
                     => Number(Head(fs)) < Number(Tail(fs)[j])
<1>1. /\ Head(fs) = fs[1] /\ 1 \in 1..Len(fs) /\ Len(Tail(fs)) = Len(fs) - 1
      /\ \A j \in 1..Len(Tail(fs)) : j + 1 \in 1..Len(fs) /\ Tail(fs)[j] = fs[j + 1]
  OBVIOUS
<1>2. Fresh(s, Tail(fs), counts)
  BY <1>1 DEF Fresh
<1>3. Increasing(Tail(fs))
  BY <1>1 DEF Increasing
<1>4. ASSUME IsSend(Head(fs)), NEW j \in 1..Len(Tail(fs)), IsSend(Tail(fs)[j]),
             Sender(Tail(fs)[j]) = Sender(Head(fs))
      PROVE  Number(Head(fs)) < Number(Tail(fs)[j])
  BY <1>1, <1>4 DEF Increasing
<1> QED BY <1>1, <1>2, <1>3, <1>4 DEF Fresh

LEMMA Positions ==
  /\ \A n \in Nat : \A k \in 1..(n + 1) : k \in 1..n \/ k = n + 1
  /\ \A n \in Nat : \A j, k \in 1..(n + 1) : j < k => j \in 1..n
  /\ \A n, m \in Nat : \A j \in 1..n : n <= m => j \in Nat /\ j \in 1..m
  /\ \A s \in Seq(AllBytes) : \A p \in 1..Len(s) : s[p][2] \in Nat
  BY DEF AllBytes

LEMMA Successor == \A n \in Nat : n + 1 \in Nat /\ \A j \in Nat : j <= n => j < n + 1
  OBVIOUS

LEMMA BelowLater ==
  \A s, u : \A i, j \in Nat :
    (\A p \in 1..Len(s) : s[p][2] \in Nat) /\ Below(s, u, i + 1) /\ i <= j => Below(s, u, j + 1)
  BY DEF Below

LEMMA PlainPosted ==
  \A op \in {"shutdown", "close", "destroy", "written"} : [op |-> op] \in Posted /\ ~IsSend([op |-> op])
  BY FunctorTypes DEF IsSend

LEMMA QueuePosted ==
  ASSUME NEW fs \in Seq(Posted), NEW f \in Posted, NEW s, NEW counts,
         Fresh(s, fs, counts), Increasing(fs),
         IsSend(f) =>
           /\ Sender(f) \in Threads /\ Number(f) \in 1..counts[Sender(f)]
           /\ f.msg = Message(Sender(f), Number(f)) /\ Below(s, Sender(f), Number(f))
           /\ \A j \in 1..Len(fs) :
                IsSend(fs[j]) /\ Sender(fs[j]) = Sender(f) => Number(fs[j]) < Number(f)
  PROVE  Fresh(s, Append(fs, f), counts) /\ Increasing(Append(fs, f))
<1>1. /\ Len(Append(fs, f)) = Len(fs) + 1 /\ Append(fs, f)[Len(fs) + 1] = f
      /\ Len(fs) \in Nat /\ \A j \in 1..Len(fs) : Append(fs, f)[j] = fs[j]
  OBVIOUS
<1>2. Fresh(s, Append(fs, f), counts)
  <2> SUFFICES ASSUME NEW j \in 1..(Len(fs) + 1), IsSend(Append(fs, f)[j])
               PROVE  LET g == Append(fs, f)[j]
                      IN  /\ Sender(g) \in Threads /\ Number(g) \in 1..counts[Sender(g)]
                          /\ g.msg = Message(Sender(g), Number(g))
                          /\ Below(s, Sender(g), Number(g))
    BY <1>1, Zenon DEF Fresh
  <2>1. CASE j \in 1..Len(fs)
    BY <1>1, <2>1, Zenon DEF Fresh
  <2>2. CASE j = Len(fs) + 1
    BY <1>1, <2>2, Zenon
  <2> QED BY <1>1, <2>1, <2>2, Positions, ZenonT(30)
<1>3. Increasing(Append(fs, f))
  <2> SUFFICES ASSUME NEW j \in 1..(Len(fs) + 1), NEW k \in 1..(Len(fs) + 1), j < k,
                      IsSend(Append(fs, f)[j]), IsSend(Append(fs, f)[k]),
                      Sender(Append(fs, f)[j]) = Sender(Append(fs, f)[k])
               PROVE  Number(Append(fs, f)[j]) < Number(Append(fs, f)[k])
    BY <1>1, Zenon DEF Increasing
  <2>1. j \in 1..Len(fs) /\ Append(fs, f)[j] = fs[j]
    BY <1>1, Positions, Zenon
  <2>2. CASE k \in 1..Len(fs)
    BY <1>1, <2>1, <2>2 DEF Increasing
  <2>3. CASE k = Len(fs) + 1
    BY <1>1, <2>1, <2>3, Zenon
  <2> QED BY <1>1, <2>2, <2>3, Positions, ZenonT(30)
<1> QED BY <1>2, <1>3, Zenon

(* A step that leaves the stream, and sends nothing. *)
LEMMA StreamStays ==
  ASSUME StreamInv, queue \in Seq(Posted), wire' \in Seq(AllBytes), Stream' = Stream,
         sends' = sends,
         \/ queue' = queue \/ (queue # <<>> /\ queue' = Tail(queue))
         \/ \E f \in Posted : ~IsSend(f) /\ queue' = Append(queue, f)
  PROVE  StreamInv'
<1>1. Fresh(Stream, queue', sends) /\ Increasing(queue')
  <2>1. CASE queue' = queue
    BY <2>1, Zenon DEF StreamInv
  <2>2. CASE queue # <<>> /\ queue' = Tail(queue)
    BY <2>2, QueueTaken, Zenon DEF StreamInv
  <2>3. CASE \E f \in Posted : ~IsSend(f) /\ queue' = Append(queue, f)
    BY <2>3, QueuePosted, Zenon DEF StreamInv
  <2> QED BY <2>1, <2>2, <2>3
<1> QED BY <1>1 DEF StreamInv

(* A step that puts message i of t behind the stream; fs is what is left queued. *)
LEMMA StreamGrows ==
  ASSUME StreamInv, SendsInv, SendsInv', wire' \in Seq(AllBytes), NEW t \in Senders, NEW i \in Nat,
         Below(Stream, t, i), Stream' = Stream \o Message(t, i), i <= sends'[t],
         \A u \in Senders : sends[u] <= sends'[u],
         NEW fs \in Seq(Posted), Fresh(Stream, fs, sends), Increasing(fs),
         \A j \in 1..Len(fs) : IsSend(fs[j]) /\ Sender(fs[j]) = t => i < Number(fs[j]),
         queue' = fs \/ queue' = Append(fs, [op |-> "written"])
  PROVE  StreamInv'
<1>1. PICK n \in Nat : Whole(Stream, n)
  BY DEF StreamInv
<1>2. /\ Whole(Stream', n + 1) /\ n + 1 \in Nat
      /\ \A u \in Senders, j \in Nat :
           Below(Stream, u, j) /\ (u = t => i < j) => Below(Stream', u, j)
  <2>1. n + 1 \in Nat
    OBVIOUS
  <2>2. /\ Whole(Stream \o Message(t, i), n + 1)
        /\ \A u \in Senders, j \in Nat :
             Below(Stream, u, j) /\ (u = t => i < j) => Below(Stream \o Message(t, i), u, j)
    BY <1>1, OneMore, ZenonT(30)
  <2> QED BY <2>1, <2>2, Zenon
<1>3. ASSUME NEW u \in Senders
      PROVE  Below(Stream', u, sends'[u] + 1)
  <2>1. sends[u] \in Nat /\ sends'[u] \in Nat
    BY DEF SendsInv
  <2>2. \A p \in 1..Len(Stream) : Stream[p][2] \in Nat
    BY <1>1, Positions, Zenon DEF Whole
  <2>3. Below(Stream, u, sends'[u] + 1)
    BY <2>1, <2>2, BelowLater, Zenon DEF StreamInv
  <2>4. sends'[u] + 1 \in Nat /\ \A j \in Nat : j <= sends'[u] => j < sends'[u] + 1
    BY <2>1, Successor, Zenon
  <2> QED BY <1>2, <2>3, <2>4, Zenon
<1>4. Fresh(Stream', fs, sends')
  <2> SUFFICES ASSUME NEW j \in 1..Len(fs), IsSend(fs[j])
               PROVE  /\ Sender(fs[j]) \in Threads
                      /\ Number(fs[j]) \in 1..sends'[Sender(fs[j])]
                      /\ fs[j].msg = Message(Sender(fs[j]), Number(fs[j]))
                      /\ Below(Stream', Sender(fs[j]), Number(fs[j]))
    BY Zenon DEF Fresh
  <2>1. /\ Sender(fs[j]) \in Threads /\ Number(fs[j]) \in 1..sends[Sender(fs[j])]
        /\ fs[j].msg = Message(Sender(fs[j]), Number(fs[j]))
        /\ Below(Stream, Sender(fs[j]), Number(fs[j]))
    BY DEF Fresh
  <2>2. /\ Sender(fs[j]) \in Senders /\ sends[Sender(fs[j])] \in Nat
        /\ sends'[Sender(fs[j])] \in Nat
    BY <2>1 DEF Senders, SendsInv
  <2>3. Number(fs[j]) \in Nat /\ Number(fs[j]) \in 1..sends'[Sender(fs[j])]
    BY <2>1, <2>2, Positions, Zenon
  <2>4. Below(Stream', Sender(fs[j]), Number(fs[j]))
    BY <1>2, <2>1, <2>2, <2>3, Zenon
  <2> QED BY <2>1, <2>3, <2>4, Zenon
<1>5. Fresh(Stream', queue', sends') /\ Increasing(queue')
  <2>1. CASE queue' = fs
    BY <1>4, <2>1, Zenon
  <2>2. CASE queue' = Append(fs, [op |-> "written"])
    <3>1. [op |-> "written"] \in Posted /\ ~IsSend([op |-> "written"])
      BY PlainPosted, Zenon
    <3> QED BY <1>4, <2>2, <3>1, QueuePosted, Zenon
  <2> QED BY <2>1, <2>2
<1> QED BY <1>2, <1>3, <1>5, Zenon DEF StreamInv

LEMMA FreshLater ==
  ASSUME SendsInv, SendsInv', \A u \in Senders : sends[u] <= sends'[u],
         NEW s, NEW fs, Fresh(s, fs, sends)
  PROVE  Fresh(s, fs, sends')
<1> SUFFICES ASSUME NEW j \in 1..Len(fs), IsSend(fs[j])
             PROVE  Number(fs[j]) \in 1..sends'[Sender(fs[j])]
  BY Zenon DEF Fresh
<1>1. Sender(fs[j]) \in Threads /\ Number(fs[j]) \in 1..sends[Sender(fs[j])]
  BY DEF Fresh
<1>2. /\ Sender(fs[j]) \in Senders /\ sends[Sender(fs[j])] \in Nat
      /\ sends'[Sender(fs[j])] \in Nat
  BY <1>1 DEF Senders, SendsInv
<1> QED BY <1>1, <1>2, Positions, Zenon

(* A step that leaves the stream, and counts a message. *)
LEMMA StreamWaits ==
  ASSUME StreamInv, SendsInv, SendsInv', \A u \in Senders : sends[u] <= sends'[u],
         wire' \in Seq(AllBytes), Stream' = Stream,
         Fresh(Stream, queue', sends'), Increasing(queue')
  PROVE  StreamInv'
<1>1. PICK n \in Nat : Whole(Stream, n)
  BY DEF StreamInv
<1>2. \A p \in 1..Len(Stream) : Stream[p][2] \in Nat
  BY <1>1, Positions, Zenon DEF Whole
<1>3. \A u \in Senders : sends[u] \in Nat /\ sends'[u] \in Nat
  BY Zenon DEF SendsInv
<1>4. \A u \in Senders : Below(Stream, u, sends'[u] + 1)
  BY <1>2, <1>3, BelowLater, Zenon DEF StreamInv
<1> QED BY <1>1, <1>4 DEF StreamInv

LEMMA StreamStep ==
  ASSUME IInv, StreamInv, [Next]_vars
  PROVE  StreamInv'
<1>0. /\ outBuf \in Seq(AllBytes) /\ queue \in Seq(Posted) /\ wire \in Seq(AllBytes)
      /\ SendsInv /\ SendsInv'
  BY StepKeeps, Zenon DEF IInv, Core, CoreTypes, QueueInv, StreamInv
<1>1. CASE RunSend
  <2>1. /\ queue # <<>> /\ IsSend(Head(queue)) /\ sends' = sends
        /\ \/ SendInLoop(Head(queue).msg, Tail(queue))
           \/ queue' = Tail(queue) /\ UNCHANGED <<outBuf, wire>>
    BY <1>1 DEF RunSend, Pop, IsSend
  <2>2. CASE Stream' = Stream /\ wire' \in Seq(AllBytes) /\ queue' = Tail(queue)
    BY <1>0, <2>1, <2>2, StreamStays
  <2>3. CASE SendInLoop(Head(queue).msg, Tail(queue))
    <3> DEFINE t == Sender(Head(queue))
               i == Number(Head(queue))
               fs == Tail(queue)
    <3>1. /\ Fresh(Stream, fs, sends) /\ Increasing(fs)
          /\ t \in Threads /\ i \in 1..sends[t] /\ Head(queue).msg = Message(t, i)
          /\ Below(Stream, t, i)
          /\ \A j \in 1..Len(fs) : IsSend(fs[j]) /\ Sender(fs[j]) = t => i < Number(fs[j])
      BY <1>0, <2>1, QueueTaken, Zenon DEF StreamInv
    <3>2. t \in Senders /\ sends[t] \in Nat /\ i \in Nat /\ i <= sends'[t]
      BY <1>0, <2>1, <3>1 DEF Senders, SendsInv
    <3>3. fs \in Seq(Posted) /\ Message(t, i) \in Seq(AllBytes)
      BY <1>0, <2>1, <3>2, TailQueue, MessageType
    <3>4. /\ wire' \in Seq(AllBytes) /\ (Stream' = Stream \/ Stream' = Stream \o Message(t, i))
          /\ queue' = fs \/ queue' = Append(fs, [op |-> "written"])
      BY <1>0, <2>3, <3>1, <3>3, SendsWhole, Zenon
    <3>5. \A u \in Senders : sends[u] <= sends'[u]
      BY <1>0, <2>1 DEF SendsInv
    <3> HIDE DEF t, i, fs
    <3>6. CASE Stream' = Stream \o Message(t, i)
      BY <1>0, <3>1, <3>2, <3>3, <3>4, <3>5, <3>6, StreamGrows, Zenon
    <3>7. CASE Stream' = Stream
      <4>1. Fresh(Stream, queue', sends) /\ Increasing(queue')
        <5>1. [op |-> "written"] \in Posted /\ ~IsSend([op |-> "written"])
          BY PlainPosted, Zenon
        <5> QED BY <3>1, <3>3, <3>4, <5>1, QueuePosted, Zenon
      <4> QED BY <2>1, <3>4, <3>7, <4>1 DEF StreamInv
    <3> QED BY <3>4, <3>6, <3>7
  <2> QED BY <1>0, <2>1, <2>2, <2>3 DEF Stream
<1>2. CASE HandleRead
  <2> DEFINE i == sends[Loop] + 1
  <2>1. /\ Loop \in Senders /\ Loop \notin Threads /\ sends[Loop] \in Nat /\ i \in Nat
    BY <1>0, BoundsAssumption DEF Senders, SendsInv
  <2>2. sends' = [sends EXCEPT ![Loop] = i] /\ sends'[Loop] = i
    BY <1>0, <1>2, <2>1 DEF HandleRead, SendsInv
  <2>3. /\ Below(Stream, Loop, i) /\ Fresh(Stream, queue, sends) /\ Increasing(queue)
        /\ \A j \in 1..Len(queue) : IsSend(queue[j]) => Sender(queue[j]) # Loop
    BY <2>1 DEF StreamInv, Fresh
  <2>4. \A u \in Senders : sends[u] \in Nat /\ sends'[u] \in Nat /\ sends[u] <= sends'[u]
    BY <1>0, <2>1, <2>2 DEF SendsInv
  <2>5. Message(Loop, i) \in Seq(AllBytes)
    BY <2>1, MessageType
  <2>6. /\ wire' \in Seq(AllBytes) /\ (Stream' = Stream \/ Stream' = Stream \o Message(Loop, i))
        /\ queue' = queue \/ queue' = Append(queue, [op |-> "written"])
    <3>1. CASE SendInLoop(Message(Loop, i), queue)
      BY <1>0, <2>5, <3>1, SendsWhole
    <3>2. CASE UNCHANGED <<outBuf, queue, wire>>
      BY <1>0, <3>2 DEF Stream
    <3> QED BY <1>2, <2>2, <3>1, <3>2 DEF HandleRead
  <2> HIDE DEF i
  <2>7. CASE Stream' = Stream \o Message(Loop, i)
    <3>1. i <= sends'[Loop]
      BY <2>1, <2>2
    <3> QED BY <1>0, <2>1, <2>3, <2>4, <2>6, <2>7, <3>1, StreamGrows, Zenon
  <2>8. CASE Stream' = Stream
    <3>1. Fresh(Stream, queue, sends')
      BY <1>0, <2>3, <2>4, FreshLater
    <3>2. [op |-> "written"] \in Posted /\ ~IsSend([op |-> "written"])
      BY PlainPosted, Zenon
    <3>3. Fresh(Stream, queue', sends') /\ Increasing(queue')
      BY <1>0, <2>3, <2>6, <3>1, <3>2, QueuePosted, Zenon
    <3> QED BY <1>0, <2>4, <2>6, <2>8, <3>3, StreamWaits, Zenon
  <2> QED BY <2>6, <2>7, <2>8
<1>3. CASE \E t \in Threads : Send(t)
  <2>1. PICK t \in Threads : Send(t)
    BY <1>3
  <2> DEFINE i == sends[t] + 1
             f == [op |-> "send", msg |-> Message(t, i)]
  <2>2. /\ t \in Senders /\ sends[t] \in Nat /\ i \in Nat /\ i > 0
        /\ sends' = [sends EXCEPT ![t] = i] /\ sends'[t] = i
    BY <1>0, <2>1 DEF Senders, SendsInv, Send
  <2>3. \A u \in Senders : sends[u] \in Nat /\ sends'[u] \in Nat /\ sends[u] <= sends'[u]
    BY <1>0, <2>2 DEF SendsInv
  <2>4. /\ UNCHANGED <<outBuf, wire>> /\ Stream' = Stream
        /\ queue' = queue \/ queue' = Append(queue, f)
    BY <2>1, <2>2 DEF Send, Stream
  <2>5. /\ f \in Posted /\ Sender(f) = t /\ Number(f) = i
        /\ f.msg = Message(Sender(f), Number(f))
    BY <2>2, MessageType, FunctorTypes, Zenon DEF Sender, Number, Message
  <2>6. Fresh(Stream, queue, sends') /\ Increasing(queue) /\ Below(Stream, t, i)
    BY <1>0, <2>2, <2>3, FreshLater, Zenon DEF StreamInv
  <2>7. \A j \in 1..Len(queue) : IsSend(queue[j]) /\ Sender(queue[j]) = t => Number(queue[j]) < i
    BY <2>2 DEF StreamInv, Fresh
  <2> HIDE DEF f, i
  <2>8. Fresh(Stream, queue', sends') /\ Increasing(queue')
    <3>1. CASE queue' = queue
      BY <2>6, <3>1
    <3>2. CASE queue' = Append(queue, f)
      <4>1. Number(f) \in 1..sends'[Sender(f)]
        BY <2>2, <2>5
      <4> QED BY <1>0, <2>5, <2>6, <2>7, <3>2, <4>1, QueuePosted, Zenon
    <3> QED BY <2>4, <3>1, <3>2
  <2> QED BY <1>0, <2>3, <2>4, <2>8, StreamWaits, Zenon
<1>4. CASE HandleWrite
  <2>1. CASE UNCHANGED <<outBuf, queue, wire>>
    BY <1>0, <1>4, <2>1, StreamStays, Zenon DEF Stream, HandleWrite
  <2>2. CASE \E k \in 1..Len(outBuf) :
               /\ wire' = wire \o SubSeq(outBuf, 1, k)
               /\ outBuf' = SubSeq(outBuf, k + 1, Len(outBuf))
               /\ queue' = queue \/ queue' = Append(queue, [op |-> "written"])
    <3>1. PICK k \in 1..Len(outBuf) :
               /\ wire' = wire \o SubSeq(outBuf, 1, k)
               /\ outBuf' = SubSeq(outBuf, k + 1, Len(outBuf))
               /\ queue' = queue \/ queue' = Append(queue, [op |-> "written"])
      BY <2>2, Zenon
    <3>2. k \in 0..Len(outBuf)
      OBVIOUS
    <3>3. wire' \in Seq(AllBytes) /\ Stream' = Stream
      BY <1>0, <3>1, <3>2, PartialWrite, Zenon DEF Stream
    <3>4. [op |-> "written"] \in Posted /\ ~IsSend([op |-> "written"])
      BY PlainPosted, Zenon
    <3> QED BY <1>0, <1>4, <3>1, <3>3, <3>4, StreamStays DEF HandleWrite
  <2> QED BY <1>4, <2>1, <2>2, Zenon DEF HandleWrite
<1>5. CASE /\ UNCHANGED <<outBuf, wire, sends>>
           /\ \/ queue' = queue \/ (queue # <<>> /\ queue' = Tail(queue))
              \/ \E op \in {"shutdown", "close", "destroy", "written"} :
                   queue' = Append(queue, [op |-> op])
  <2>1. Stream' = Stream
    BY <1>5 DEF Stream
  <2>2. \A op \in {"shutdown", "close", "destroy", "written"} :
          [op |-> op] \in Posted /\ ~IsSend([op |-> op])
    BY PlainPosted, Zenon
  <2> QED BY <1>0, <1>5, <2>1, <2>2, StreamStays
<1>6. CASE UNCHANGED vars
  BY <1>5, <1>6, Zenon DEF vars
<1>7. CASE RunShutdown \/ RunClose \/ RunWritten \/ ConnectDestroyed
  BY <1>5, <1>7 DEF RunShutdown, RunClose, RunWritten, ConnectDestroyed, Pop
<1>8. CASE HandleErr \/ HandleErrClose \/ HandleHup \/ HandleEof \/ HandleReadError
  BY <1>5, <1>8, Zenon DEF HandleErr, HandleErrClose, HandleHup, HandleEof, HandleReadError
<1>9. CASE PeerSends \/ PeerCloses \/ PeerResets \/ PeerGoesQuiet
  BY <1>5, <1>9, Zenon DEF PeerSends, PeerCloses, PeerResets, PeerGoesQuiet
<1>10. CASE \/ \E t \in Threads : ShutdownTest(t) \/ ShutdownStore(t)
            \/ CheckIdleTimeout \/ RemoveConnection
  BY <1>5, <1>10 DEF ShutdownTest, ShutdownStore, CheckIdleTimeout, RemoveConnection
<1> QED BY <1>1, <1>2, <1>3, <1>4, <1>6, <1>7, <1>8, <1>9, <1>10 DEF Next, LoopStep

(* Whoever sends, and however the kernel splits the writes: the stream is made
   of whole messages, each thread's in the order in which it sent them. *)
THEOREM MessagesAreWhole == Spec => []WholeMessagesInOrder
<1>1. Init => StreamInv
  <2> SUFFICES ASSUME Init PROVE StreamInv
    OBVIOUS
  <2>1. wire = <<>> /\ Stream = <<>> /\ queue = <<>> /\ wire \in Seq(AllBytes)
    BY DEF Init, Stream
  <2>2. Whole(<<>>, 0) /\ 0 \in Nat
    BY DEF Whole
  <2> QED BY <2>1, <2>2 DEF StreamInv, Below, Fresh, Increasing
<1>2. StreamInv => WholeMessagesInOrder
  <2> SUFFICES ASSUME NEW n \in Nat, Whole(Stream, n) PROVE WholeMessagesInOrder
    BY Zenon DEF StreamInv
  <2>1. Len(Stream) = 2 * n /\ Len(Stream) \div 2 = n
    BY DEF Whole
  <2> HIDE DEF Stream
  <2> QED BY <2>1 DEF WholeMessagesInOrder, Whole
<1> QED BY <1>1, <1>2, InitHolds, StepKeeps, StreamStep, PTL DEF Spec

(* Whoever sends, and whatever the kernel takes: output that is left is whole and in order,
   and the loop is told when it can go on. *)
THEOREM NoOutputLost == Spec => []OutputIsKept
  BY MessagesAreWhole, NoOutputLeftBehind, PTL DEF OutputIsKept
-----------------------------------------------------------------------------
(***************************************************************************)
(* TcpClient.                                                              *)
(***************************************************************************)
States == {"disconnected", "connecting", "connected"}

\* An established connection is the connector's last success, and nothing
\* that reconnects starts from there.
LiveInv ==
  /\ cState \in States
  /\ connection \in {"none", "up", "closing"}
  /\ connection = "up" => cState = "connected"
  /\ cLpc = "publish" => cState = "connected" /\ connection # "up"
  /\ cLpc = "restart" => connection = "none"

LEMMA NextLive == LiveInv /\ [Client!Next]_(Client!vars) => LiveInv'
<1> SUFFICES ASSUME LiveInv, [Client!Next]_(Client!vars) PROVE LiveInv'
  OBVIOUS
<1> USE DEF LiveInv, States, Client!connectorVars
<1>1. CASE UNCHANGED Client!vars
  BY <1>1, Zenon DEF Client!vars
<1>2. CASE Client!UserStep
  BY <1>2, Zenon DEF Client!UserStep, Client!Connect, Client!Stop, Client!DisconnectPermanently,
              Client!Disconnect, Client!EnsureConnected,
              Client!StopFlag, Client!StopPost, Client!PermanentlyClose, Client!ShutDown
<1>3. CASE Client!Outage \/ Client!Recovery
  BY <1>3, Zenon DEF Client!Outage, Client!Recovery
<1>4. CASE Client!RunTask
  <2>1. CASE Client!StartInLoop
    BY <1>4, <2>1, Zenon DEF Client!RunTask, Client!StartInLoop, Client!TryConnect, Client!Retry
  <2>2. CASE Client!StopInLoop
    BY <1>4, <2>2, SMTT(30) DEF Client!RunTask, Client!StopInLoop
  <2>3. CASE Client!EnsureInLoop
    BY <1>4, <2>3 DEF Client!RunTask, Client!EnsureInLoop, Client!Restart, Client!TryConnect,
                      Client!Retry
  <2>4. QED
    BY <1>4, <2>1, <2>2, <2>3, Zenon DEF Client!RunTask
<1>5. CASE Client!RetryTimer
  BY <1>5 DEF Client!RetryTimer, Client!TryConnect, Client!Retry
<1>6. CASE Client!ConnectFailed \/ Client!Connected
  BY <1>6 DEF Client!ConnectFailed, Client!Connected, Client!Retry
<1>7. CASE Client!NewConnection \/ Client!RemoveConnection \/ Client!RemoveReplaced
  BY <1>7 DEF Client!NewConnection, Client!RemoveConnection, Client!RemoveReplaced
<1>8. CASE Client!RestartAfterLoss
  BY <1>8 DEF Client!RestartAfterLoss, Client!Restart, Client!TryConnect, Client!Retry
<1>9. QED
  BY <1>1, <1>2, <1>3, <1>4, <1>5, <1>6, <1>7, <1>8 DEF Client!Next, Client!LoopStep

\* Whoever reconnects, a connection that works is never replaced.
THEOREM LiveConnectionsStay == Client!Spec => []NeverReplacesLive
<1>1. Client!Init => LiveInv
  BY DEF Client!Init, LiveInv, States
<1>2. LiveInv => NeverReplacesLive
  BY DEF LiveInv, NeverReplacesLive
<1>3. QED
  BY <1>1, <1>2, NextLive, PTL DEF Client!Spec

-----------------------------------------------------------------------------
\* The channel is registered exactly while a connect is in progress, and a
\* connection is shut down only for good.
CleanChannel ==
  /\ channel \in BOOLEAN /\ disconnecting \in BOOLEAN
  /\ channel = (cState = "connecting")
  /\ overwritten = FALSE
  /\ cLpc = "restart" => cState # "connecting"
  /\ connection = "closing" \/ upc \in {"permFlag", "permPost", "permClose"} => disconnecting

ChannelInv == LiveInv /\ ("disconnect" \notin called => CleanChannel)

LEMMA NextChannel == ChannelInv /\ [Client!Next]_(Client!vars) => ChannelInv'
<1> SUFFICES ASSUME ChannelInv, [Client!Next]_(Client!vars), "disconnect" \notin called' PROVE CleanChannel'
  BY NextLive DEF ChannelInv
<1>0. LiveInv /\ LiveInv' /\ "disconnect" \notin called /\ CleanChannel
  <2>1. "disconnect" \notin called
    BY Zenon DEF Client!Next, Client!vars, Client!UserStep, Client!LoopStep, Client!Connect,
           Client!Stop, Client!DisconnectPermanently, Client!Disconnect,
           Client!EnsureConnected, Client!StopFlag, Client!StopPost, Client!PermanentlyClose,
           Client!Begin, Client!RunTask, Client!RetryTimer,
           Client!ConnectFailed, Client!Connected, Client!NewConnection,
           Client!RemoveConnection, Client!RestartAfterLoss,
           Client!RemoveReplaced, Client!Outage, Client!Recovery, Client!userVars
  <2>2. QED
    BY <2>1, NextLive DEF ChannelInv
<1> USE <1>0 DEF CleanChannel, LiveInv, States, Client!connectorVars, Client!userVars
<1>1. CASE UNCHANGED Client!vars
  BY <1>1 DEF Client!vars
<1>2. CASE Client!UserStep
  BY <1>2, Zenon DEF Client!UserStep, Client!Connect, Client!Stop, Client!DisconnectPermanently,
              Client!Disconnect, Client!EnsureConnected,
              Client!StopFlag, Client!StopPost, Client!PermanentlyClose, Client!ShutDown,
              Client!Begin
<1>3. CASE Client!Outage \/ Client!Recovery
  BY <1>3, Zenon DEF Client!Outage, Client!Recovery
<1>4. CASE Client!RunTask
  <2>1. CASE Client!StartInLoop
    BY <1>4, <2>1, Zenon DEF Client!RunTask, Client!StartInLoop, Client!TryConnect, Client!Retry
  <2>2. CASE Client!StopInLoop
    BY <1>4, <2>2, Zenon DEF Client!RunTask, Client!StopInLoop
  <2>3. CASE Client!EnsureInLoop
    BY <1>4, <2>3, Zenon DEF Client!RunTask, Client!EnsureInLoop, Client!Restart, Client!TryConnect,
                      Client!Retry
  <2>4. QED
    BY <1>4, <2>1, <2>2, <2>3, Zenon DEF Client!RunTask
<1>5. CASE Client!RetryTimer
  BY <1>5, Zenon DEF Client!RetryTimer, Client!TryConnect, Client!Retry
<1>6. CASE Client!ConnectFailed \/ Client!Connected
  BY <1>6, Zenon DEF Client!ConnectFailed, Client!Connected, Client!Retry
<1>7. CASE Client!NewConnection \/ Client!RemoveConnection \/ Client!RemoveReplaced
  BY <1>7, Zenon DEF Client!NewConnection, Client!RemoveConnection, Client!RemoveReplaced
<1>8. CASE Client!RestartAfterLoss
  BY <1>8, Zenon DEF Client!RestartAfterLoss, Client!Restart, Client!TryConnect, Client!Retry
<1>9. QED
  BY <1>1, <1>2, <1>3, <1>4, <1>5, <1>6, <1>7, <1>8, Zenon DEF Client!Next, Client!LoopStep

\* As long as nobody calls disconnect() on a client that keeps reconnecting,
\* no connect is started over the channel of another one.
THEOREM OneConnectAtATime == Client!Spec => []NoChannelOverwrite
<1>1. Client!Init => ChannelInv
  BY Zenon DEF Client!Init, ChannelInv, CleanChannel, LiveInv, States
<1>2. ChannelInv => NoChannelOverwrite
  BY DEF ChannelInv, CleanChannel, NoChannelOverwrite
<1>3. QED
  BY <1>1, <1>2, NextChannel, PTL DEF Client!Spec

\* Whatever the user calls and whenever connections are lost, a client keeps the connection
\* that works, and until disconnect() is called makes one at a time.
THEOREM ClientHasOneConnection == Client!Spec => []OneConnection
  BY LiveConnectionsStay, OneConnectAtATime, PTL DEF OneConnection

-----------------------------------------------------------------------------
\* As long as nobody stops the client: connect_ is set, no stop is posted, and a connector
\* that is done has left a connection or hands one over.
Unstopped == "stop" \notin called /\ "permanent" \notin called
Tasks == {"start", "stop", "ensure"}

TryTypes == timers \in Nat /\ tasks \in Seq(Tasks) /\ (cState = "connecting" => channel)
TryFree ==
  Unstopped => /\ upc \in {"new", "idle"} /\ (upc = "idle" => connect) /\ ~disconnecting
               /\ ~Waits(tasks, "stop")
               /\ cState = "connected" => connection # "none" \/ cLpc # "idle"
NotYet == upc = "new" => /\ cState = "disconnected" /\ connection = "none" /\ cLpc = "idle"
                         /\ tasks = <<>> /\ ~(timers > 0) /\ replaced = 0
TryInv == TryTypes /\ NotYet /\ TryFree /\ KeepsTrying

\* A connect that is not in progress afterwards is retried, or failed for good.
LEMMA TryResult ==
  ASSUME NEW w, NEW n \in Nat, Client!TryConnect(w, n)
  PROVE  /\ timers' \in Nat /\ cState' \in {"connecting", "disconnected"}
         /\ cState' = "connecting" => channel'
         /\ w => fatal' \/ cState' = "connecting" \/ timers' > 0
  BY Counting, Zenon DEF Client!TryConnect, Client!Retry

LEMMA TaskPosted ==
  \A f \in Tasks :
    TryTypes /\ tasks' = Append(tasks, f)
      => tasks' \in Seq(Tasks) /\ \A g : Waits(tasks', g) <=> Waits(tasks, g) \/ f = g
<1> SUFFICES ASSUME NEW f \in Tasks, TryTypes, tasks' = Append(tasks, f), NEW g
             PROVE  tasks' \in Seq(Tasks) /\ (Waits(tasks', g) <=> Waits(tasks, g) \/ f = g)
  BY Zenon
<1>1. Append(tasks, f) \in Seq(Tasks) /\ (Waits(Append(tasks, f), g) <=> Waits(tasks, g) \/ f = g)
  BY WaitsAppend, Zenon DEF TryTypes
<1> QED BY <1>1, Zenon

LEMMA TaskNames == "start" \in Tasks /\ "stop" \in Tasks /\ "ensure" \in Tasks
  BY DEF Tasks

LEMMA UserTries ==
  ASSUME TryInv, Client!UserStep
  PROVE  TryInv'
<1>0. UNCHANGED <<cState, channel, timers, cLpc, fatal>>
  BY Zenon DEF Client!UserStep, Client!Connect, Client!Stop, Client!DisconnectPermanently,
               Client!Disconnect, Client!EnsureConnected, Client!StopFlag, Client!StopPost,
               Client!PermanentlyClose, Client!connectorVars
<1>a. NotYet'
  BY Zenon DEF NotYet, Client!UserStep, Client!Connect, Client!Stop, Client!DisconnectPermanently,
               Client!Disconnect, Client!EnsureConnected, Client!StopFlag, Client!StopPost,
               Client!PermanentlyClose, Client!Begin
<1>1. CASE Client!Connect
  <2>1. /\ tasks' = Append(tasks, "start") /\ connect' = TRUE /\ upc' = "idle"
        /\ UNCHANGED <<connection, called, disconnecting>>
    BY <1>1, Zenon DEF Client!Connect, Client!Post
  <2>2. tasks' \in Seq(Tasks) /\ Waits(tasks', "start") /\ (Waits(tasks', "stop") => Waits(tasks, "stop"))
    BY <2>1, TaskPosted, TaskNames, Zenon DEF TryInv
  <2> QED BY <1>0, <1>a, <2>1, <2>2, Zenon DEF TryInv, TryTypes, TryFree, Unstopped, KeepsTrying
<1>2. CASE Client!Stop \/ Client!DisconnectPermanently
  <2>1. tasks' = tasks /\ ~Unstopped'
    BY <1>2, Zenon DEF Client!Stop, Client!DisconnectPermanently, Client!Begin, Unstopped
  <2> QED BY <1>0, <1>a, <2>1, Zenon DEF TryInv, TryTypes, TryFree, KeepsTrying, Unstopped
<1>3. CASE Client!StopFlag \/ Client!StopPost \/ Client!PermanentlyClose
  <2>1. called' = called /\ ~Unstopped
    BY <1>3, Zenon DEF TryInv, TryFree, Client!StopFlag, Client!StopPost, Client!PermanentlyClose
  <2>2. tasks' \in Seq(Tasks)
    <3>1. tasks' = tasks \/ tasks' = Append(tasks, "stop")
      BY <1>3, Zenon DEF Client!StopFlag, Client!StopPost, Client!PermanentlyClose, Client!Post
    <3> QED BY <3>1, TaskPosted, TaskNames, Zenon DEF TryInv, TryTypes
  <2> QED BY <1>0, <1>a, <2>1, <2>2, Zenon DEF TryInv, TryTypes, TryFree, KeepsTrying, Unstopped
<1>4. CASE Client!Disconnect \/ Client!EnsureConnected
  <2>1. /\ upc = "idle" /\ upc' = "idle" /\ UNCHANGED <<connect, disconnecting>>
        /\ Unstopped' => Unstopped
    BY <1>4, Zenon DEF Client!Disconnect, Client!EnsureConnected, Client!Begin, Unstopped,
                       Client!connectorVars
  <2>2. connection' = "none" <=> connection = "none"
    BY <1>4 DEF Client!Disconnect, Client!EnsureConnected, Client!ShutDown
  <2>3. /\ tasks' \in Seq(Tasks) /\ (Waits(tasks, "start") => Waits(tasks', "start"))
        /\ Waits(tasks', "stop") => Waits(tasks, "stop")
    <3>1. tasks' = tasks \/ tasks' = Append(tasks, "ensure")
      BY <1>4, Zenon DEF Client!Disconnect, Client!EnsureConnected, Client!Post
    <3> QED BY <3>1, TaskPosted, TaskNames, Zenon DEF TryInv, TryTypes
  <2> QED BY <1>0, <1>a, <2>1, <2>2, <2>3, Zenon DEF TryInv, TryTypes, TryFree, Unstopped, KeepsTrying
<1> QED BY <1>1, <1>2, <1>3, <1>4, Zenon DEF Client!UserStep

LEMMA TaskTries ==
  ASSUME LiveInv, TryInv, Client!RunTask
  PROVE  TryInv'
<1>1. /\ tasks # <<>> /\ tasks' = Tail(tasks) /\ cLpc = "idle"
      /\ UNCHANGED <<connection, cLpc, upc, called, disconnecting>> /\ NotYet'
  BY Zenon DEF Client!RunTask, Client!userVars, TryInv, NotYet
<1>2. /\ tasks' \in Seq(Tasks) /\ timers \in Nat
      /\ \A g : Waits(tasks, g) <=> Waits(tasks', g) \/ Head(tasks) = g
  BY <1>1, WaitsTail, Zenon DEF TryInv, TryTypes
<1>3. CASE Head(tasks) = "start" /\ Client!StartInLoop
  <2>1. CASE connect
    <3>1. connect' = connect /\ Client!TryConnect(connect, timers)
      BY <1>3, <2>1, Zenon DEF Client!StartInLoop
    <3> QED BY <1>1, <1>2, <2>1, <3>1, TryResult, Zenon
            DEF TryInv, TryTypes, TryFree, KeepsTrying, Unstopped
  <2>2. CASE ~connect
    <3>1. UNCHANGED <<connect, cState, channel, timers, fatal>>
      BY <1>3, <2>2, Zenon DEF Client!StartInLoop
    <3>2. Unstopped => upc = "new"
      BY <2>2, Zenon DEF TryInv, TryFree
    <3> QED BY <1>1, <1>2, <3>1, <3>2, Zenon
            DEF TryInv, TryTypes, TryFree, KeepsTrying, Unstopped
  <2> QED BY <2>1, <2>2, Zenon
<1>4. CASE Head(tasks) = "stop" /\ Client!StopInLoop
  <2>1. ~Unstopped /\ timers' = timers /\ cState' # "connecting"
    BY <1>2, <1>4, Zenon DEF TryInv, TryFree, Client!StopInLoop
  <2> QED BY <1>1, <1>2, <2>1, Zenon DEF TryInv, TryTypes, TryFree, KeepsTrying, Unstopped
<1>5. CASE Head(tasks) = "ensure" /\ Client!EnsureInLoop
  <2>1. Waits(tasks', "start") <=> Waits(tasks, "start")
    <3>1. "ensure" # "start"
      OBVIOUS
    <3> QED BY <1>2, <1>5, <3>1, Zenon
  <2>2. CASE UNCHANGED Client!connectorVars
    BY <1>1, <1>2, <2>1, <2>2, Zenon
    DEF TryInv, TryTypes, TryFree, KeepsTrying, Unstopped, Client!connectorVars
  <2>3. CASE Client!Restart
    <3>1. connect' = TRUE /\ Client!TryConnect(TRUE, timers)
      BY <2>3, Zenon DEF Client!Restart
    <3> QED BY <1>1, <1>2, <3>1, TryResult, Zenon
            DEF TryInv, TryTypes, TryFree, KeepsTrying, Unstopped
  <2> QED BY <1>5, <2>2, <2>3, Zenon DEF Client!EnsureInLoop
<1> QED BY <1>3, <1>4, <1>5, Zenon DEF Client!RunTask

LEMMA LoopTries ==
  ASSUME LiveInv, TryInv, Client!LoopStep, ~Client!RunTask
  PROVE  TryInv'
<1>0. /\ UNCHANGED <<tasks, upc, called, disconnecting>> /\ timers \in Nat
  BY Zenon DEF Client!LoopStep, Client!RetryTimer, Client!ConnectFailed, Client!Connected,
               Client!NewConnection, Client!RemoveConnection, Client!RestartAfterLoss,
               Client!RemoveReplaced, Client!userVars, TryInv, TryTypes
<1>a. upc # "new" /\ NotYet'
  <2>1. ~(0 > 0)
    OBVIOUS
  <2> QED BY <1>0, <2>1, Zenon
          DEF Client!LoopStep, Client!RetryTimer, Client!ConnectFailed, Client!Connected,
              Client!NewConnection, Client!RemoveConnection, Client!RestartAfterLoss,
              Client!RemoveReplaced, TryInv, NotYet
<1>b. Unstopped => connect
  BY <1>a, Zenon DEF TryInv, TryFree
<1>1. CASE Client!RetryTimer
  <2>1. cLpc = "idle" /\ timers > 0 /\ UNCHANGED <<connect, connection, cLpc>> /\ timers - 1 \in Nat
    BY <1>0, <1>1, Counting, Zenon DEF Client!RetryTimer
  <2>2. CASE Client!TryConnect(connect, timers - 1)
    BY <1>0, <1>a, <1>b, <2>1, <2>2, TryResult, Zenon DEF TryInv, TryTypes, TryFree, KeepsTrying, Unstopped
  <2>3. CASE /\ ~(connect /\ cState = "disconnected")
             /\ timers' = timers - 1 /\ UNCHANGED <<cState, channel, fatal>>
    BY <1>0, <1>a, <1>b, <2>1, <2>3, Zenon DEF TryInv, TryTypes, TryFree, KeepsTrying, Unstopped, LiveInv, States
  <2> QED BY <1>1, <2>2, <2>3, Zenon DEF Client!RetryTimer
<1>2. CASE Client!ConnectFailed
  <2>1. /\ cState' = "disconnected" /\ timers' = (IF connect THEN timers + 1 ELSE timers)
        /\ UNCHANGED <<connect, connection, cLpc, fatal>>
    BY <1>2, Zenon DEF Client!ConnectFailed, Client!Retry
  <2> QED BY <1>0, <1>a, <1>b, <2>1, Counting, Zenon DEF TryInv, TryTypes, TryFree, KeepsTrying, Unstopped
<1>3. CASE Client!Connected
  <2>1. /\ cState' = "connected" /\ cLpc' = (IF connect THEN "publish" ELSE "idle")
        /\ UNCHANGED <<connect, connection, timers, fatal>>
    BY <1>3, Zenon DEF Client!Connected
  <2> QED BY <1>0, <1>a, <1>b, <2>1, Zenon DEF TryInv, TryTypes, TryFree, KeepsTrying, Unstopped
<1>4. CASE Client!NewConnection \/ Client!RemoveReplaced
  <2>1. /\ UNCHANGED Client!connectorVars
        /\ connection' = "up" \/ UNCHANGED <<connection, cLpc>>
    BY <1>4, Zenon DEF Client!NewConnection, Client!RemoveReplaced
  <2> QED BY <1>0, <1>a, <1>b, <2>1, Zenon
          DEF TryInv, TryTypes, TryFree, KeepsTrying, Unstopped, Client!connectorVars
<1>5. CASE Client!RemoveConnection
  <2>1. UNCHANGED Client!connectorVars /\ (disconnecting \/ cLpc' = "restart")
    BY <1>5, Zenon DEF Client!RemoveConnection
  <2> QED BY <1>0, <1>a, <1>b, <2>1, Zenon
          DEF TryInv, TryTypes, TryFree, KeepsTrying, Unstopped, Client!connectorVars
<1>6. CASE Client!RestartAfterLoss
  <2>1. connect' = TRUE /\ Client!TryConnect(TRUE, timers) /\ connection' = connection
    BY <1>6, Zenon DEF Client!RestartAfterLoss, Client!Restart
  <2> QED BY <1>0, <1>a, <1>b, <2>1, TryResult, Zenon DEF TryInv, TryTypes, TryFree, KeepsTrying, Unstopped
<1> QED BY <1>1, <1>2, <1>3, <1>4, <1>5, <1>6, Zenon DEF Client!LoopStep

\* Whatever fails, and whoever pokes the client, as long as nobody stops it there is a
\* connection, or a connect, a timer or a functor that leads to one, or a connect failed
\* for good.
THEOREM NeverGivesUp == Client!Spec => []KeepsTrying
<1> DEFINE I == LiveInv /\ TryInv
<1>1. Client!Init => I
  <2> SUFFICES ASSUME Client!Init PROVE I
    OBVIOUS
  <2>1. LiveInv
    BY DEF Client!Init, LiveInv, States
  <2>2. timers \in Nat /\ ~(timers > 0) /\ tasks \in Seq(Tasks) /\ ~Waits(tasks, "stop")
    BY DEF Client!Init, Waits
  <2> QED BY <2>1, <2>2, Zenon DEF Client!Init, TryInv, TryTypes, NotYet, TryFree, KeepsTrying
<1>2. I /\ [Client!Next]_(Client!vars) => I'
  <2> SUFFICES ASSUME I, [Client!Next]_(Client!vars) PROVE I'
    OBVIOUS
  <2>1. LiveInv'
    BY NextLive, Zenon
  <2>2. CASE Client!Outage \/ Client!Recovery \/ UNCHANGED Client!vars
    <3>1. UNCHANGED <<cState, connect, channel, timers, connection, disconnecting, tasks, cLpc, upc,
                      called, fatal, replaced>>
      BY <2>2, Zenon DEF Client!Outage, Client!Recovery, Client!vars, Client!connectorVars, Client!userVars
    <3> QED BY <2>1, <3>1, Zenon DEF TryInv, TryTypes, NotYet, TryFree, KeepsTrying, Unstopped
  <2> QED BY <2>1, <2>2, UserTries, TaskTries, LoopTries, Zenon DEF Client!Next
<1>3. I => KeepsTrying
  BY DEF TryInv
<1> QED BY <1>1, <1>2, <1>3, PTL DEF Client!Spec
==============================================================================
