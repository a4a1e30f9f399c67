------------------------------- MODULE NetData ------------------------------
(***************************************************************************)
(* Two netdataraw objects at the ends of a TCP connection, one direction:  *)
(* an application puts bytes in mSendBuf and calls send(); the other calls *)
(* recv() and empties mRecvBuf as onClientData does.  The bytes are        *)
(* numbered, so the stream given is 1, 2, 3 ...                            *)
(*                                                                         *)
(* sb, rb    mSendBuf of one end and mRecvBuf of the other                 *)
(* wire      bytes sent and not received        up  the connection stands  *)
(* spc       where the sender is: in the application, in send() between    *)
(*           two regions, in ::send's loop, or gone                        *)
(* size, sent  the region send() works on, and how much of it is out       *)
(* rpc       where the receiver is: in the application, in the first or    *)
(*           second recvnow of recv(), emptying the buffer, or gone        *)
(* nds       what recv() reports                                           *)
(* given, taken  how many bytes were put in, and what the receiver was     *)
(*           shown                                                         *)
(* fails   how often send() reported a failure                            *)
(***************************************************************************)
EXTENDS CycBufOps

CONSTANTS
    Total,          \* the bytes the sending application has
    WireRoom,       \* what the sockets of both ends hold together
    MaxFails        \* bound on the failures an application retries

ASSUME NetDataAssumption ==
    /\ Total \in Nat /\ WireRoom \in Nat \ {0} /\ MaxFails \in Nat
    /\ Byte = 0 .. Total

VARIABLES sb, rb, wire, up, spc, size, sent, rpc, nds, given, taken, fails

svars == <<sb, spc, size, sent, given, fails>>
rvars == <<rb, rpc, nds, taken>>
vars == <<svars, rvars, wire, up>>

Init ==
    /\ sb = Cleared /\ rb = Cleared /\ wire = << >> /\ up = TRUE
    /\ spc = "app" /\ size = 0 /\ sent = 0
    /\ rpc = "app" /\ nds = "ok"
    /\ given = 0 /\ taken = << >> /\ fails = 0

\* A break of the connection loses what is under way.
Break ==
    /\ up /\ up' = FALSE /\ wire' = << >>
    /\ UNCHANGED <<svars, rvars>>

-----------------------------------------------------------------------------
\* The sending end.

\* getSendBuf, a copy of k bytes, commitSendBuf and the call of send().
Give(k) ==
    /\ spc = "app"
    /\ k <= WriteTailRegion(sb).n /\ given + k <= Total
    /\ LET bytes == [i \in 1 .. k |-> given + i]
           w == IF IsFull(sb) THEN sb ELSE WriteReady(sb)
           filled == [w EXCEPT !.buf = Place(w.buf, w.tail, bytes)]
       IN  sb' = AfterPushWriteTail(filled, k)
    /\ given' = given + k
    /\ spc' = "region"
    /\ UNCHANGED <<size, sent, fails, rvars, wire, up>>

\* send() looks for data; when there is none it returns true.
SendRegion ==
    /\ spc = "region"
    /\ size' = ReadHeadRegion(sb).n /\ sent' = 0
    /\ sb' = ReadReady(sb)
    /\ spc' = IF size' = 0 THEN "app" ELSE "send"
    /\ UNCHANGED <<given, fails, rvars, wire, up>>

\* Mutant: the next ::send begins at the region's start.
SendSomeAgain(k) ==
    /\ spc = "send" /\ up
    /\ k <= size - sent /\ Len(wire) + k <= WireRoom
    /\ wire' = wire \o Region(sb, sb.head, k)
    /\ sent' = sent + k
    /\ IF sent' = size
       THEN sb' = AfterPushReadHead(sb, size) /\ spc' = "region"
       ELSE UNCHANGED <<sb, spc>>
    /\ UNCHANGED <<size, given, fails, rvars, up>>

\* One ::send; the region is given back when all of it is out.
SendSome(k) ==
    /\ spc = "send" /\ up
    /\ k <= size - sent /\ Len(wire) + k <= WireRoom
    /\ wire' = wire \o Region(sb, sb.head + sent, k)
    /\ sent' = sent + k
    /\ IF sent' = size
       THEN sb' = AfterPushReadHead(sb, size) /\ spc' = "region"
       ELSE UNCHANGED <<sb, spc>>
    /\ UNCHANGED <<size, given, fails, rvars, up>>

\* Mutant: what was got out so far is given back.
SendFailsPushed ==
    /\ spc = "send"
    /\ \/ fails < MaxFails /\ spc' = "app"
       \/ ~up /\ spc' = "gone"
    /\ fails' = fails + 1
    /\ sb' = AfterPushReadHead(sb, size)
    /\ UNCHANGED <<size, sent, given, rvars, wire, up>>

\* ::send returns -1.  The application goes on after ndstate::fail and stops
\* after ndstate::disconnected, which a reset connection gives at some time.
SendFails ==
    /\ spc = "send"
    /\ \/ fails < MaxFails /\ spc' = "app"
       \/ ~up /\ spc' = "gone"
    /\ fails' = fails + 1
    /\ UNCHANGED <<sb, size, sent, given, rvars, wire, up>>

\* All is sent and the connection is closed.
Leave ==
    /\ spc = "app" /\ given = Total
    /\ spc' = "gone"
    /\ UNCHANGED <<sb, size, sent, given, fails, rvars, wire, up>>

-----------------------------------------------------------------------------
\* The receiving end.

CallRecv ==
    /\ rpc = "app"
    /\ rpc' = "first" /\ nds' = "ok"
    /\ UNCHANGED <<svars, rb, taken, wire, up>>

\* recvnow finds no room.
RecvFull ==
    /\ rpc \in {"first", "second"} /\ WriteTailRegion(rb).n = 0
    /\ rb' = WriteReady(rb)
    /\ rpc' = "empty" /\ nds' = "bufferfull"
    /\ UNCHANGED <<svars, taken, wire, up>>

\* Mutant: a region filled to its end is taken for all there was.
RecvSomeOnce ==
    LET room == WriteTailRegion(rb)
        k == Least(room.n, Len(wire))
        w == WriteReady(rb)
        filled == [w EXCEPT !.buf = Place(w.buf, w.tail, SubSeq(wire, 1, k))]
    IN  /\ rpc \in {"first", "second"} /\ k > 0
        /\ rb' = AfterPushWriteTail(filled, k)
        /\ wire' = SubSeq(wire, k + 1, Len(wire))
        /\ rpc' = "empty"
        /\ UNCHANGED <<svars, taken, up, nds>>

\* recvnow receives.  A region filled to its end calls for a second recvnow;
\* a second one filled to its end reports a full buffer.
RecvSome ==
    LET room == WriteTailRegion(rb)
        k == Least(room.n, Len(wire))
        w == WriteReady(rb)
        filled == [w EXCEPT !.buf = Place(w.buf, w.tail, SubSeq(wire, 1, k))]
    IN  /\ rpc \in {"first", "second"} /\ k > 0
        /\ rb' = AfterPushWriteTail(filled, k)
        /\ wire' = SubSeq(wire, k + 1, Len(wire))
        /\ rpc' = IF k = room.n /\ rpc = "first" THEN "second" ELSE "empty"
        /\ nds' = IF k = room.n /\ rpc = "second" THEN "bufferfull" ELSE nds
        /\ UNCHANGED <<svars, taken, up>>

\* Mutant: a caller told of the end looks no further.
RecvNothingGone ==
    /\ rpc \in {"first", "second"} /\ WriteTailRegion(rb).n > 0 /\ wire = << >>
    /\ rb' = WriteReady(rb)
    /\ nds' \in (IF up /\ spc # "gone" THEN {"ok"}
                 ELSE IF up THEN {"disconnected"} ELSE {"fail", "disconnected"})
    /\ rpc' = IF nds' = "disconnected" THEN "gone" ELSE IF nds' = "fail" THEN "app" ELSE "empty"
    /\ UNCHANGED <<svars, taken, wire, up>>

\* recvnow has room and there is nothing to receive: EAGAIN, the end of the
\* connection, or an error.
RecvNothing ==
    /\ rpc \in {"first", "second"} /\ WriteTailRegion(rb).n > 0 /\ wire = << >>
    /\ rb' = WriteReady(rb)
    /\ nds' \in (IF up /\ spc # "gone" THEN {"ok"}
                 ELSE IF up THEN {"disconnected"} ELSE {"fail", "disconnected"})
    /\ rpc' = IF nds' = "fail" THEN "app" ELSE "empty"
    /\ UNCHANGED <<svars, taken, wire, up>>

\* getRecvBuf and clearRecvBuf until nothing is left, then recv() again if
\* the buffer was full (onClientData).  After a disconnection it is
\* onClientDisconnect that does it.
Empty ==
    /\ rpc = "empty"
    /\ LET n == ReadHeadRegion(rb).n
       IN  /\ taken' = taken \o ReadChunkBytes(rb, n)
           /\ rb' = AfterPushReadHead(rb, n)
           /\ rpc' = IF n > 0 THEN "empty"
                     ELSE IF nds = "bufferfull" THEN "first"
                     ELSE IF nds = "disconnected" THEN "gone" ELSE "app"
    /\ UNCHANGED <<svars, nds, wire, up>>

-----------------------------------------------------------------------------
Sender ==
    \/ \E k \in 0 .. Size : Give(k) \/ (k > 0 /\ SendSome(k))
    \/ SendRegion \/ SendFails \/ Leave

Receiver == CallRecv \/ RecvFull \/ RecvSome \/ RecvNothing \/ Empty

Next == Sender \/ Receiver \/ Break

\* A send() that was called goes on, and so does the receiving end, which
\* select() calls whenever there is something to receive.
Spec ==
    /\ Init /\ [][Next]_vars
    /\ WF_vars(SendRegion) /\ WF_vars(\E k \in 1 .. Size : SendSome(k))
    /\ WF_vars(Receiver)

-----------------------------------------------------------------------------
TypeOK ==
    /\ sb \in CycBufs /\ rb \in CycBufs /\ up \in BOOLEAN
    /\ wire \in Seq(1 .. Total) /\ Len(wire) <= WireRoom
    /\ taken \in Seq(1 .. Total)
    /\ given \in 0 .. Total /\ fails \in Nat /\ size \in 0 .. End /\ sent \in 0 .. size
    /\ spc \in {"app", "region", "send", "gone"} /\ (spc = "send" => size <= Count(sb))
    /\ rpc \in {"app", "first", "second", "empty", "gone"}
    /\ nds \in {"ok", "bufferfull", "fail", "disconnected"}

\* What has left the sending buffer, in the order it arrives or will arrive.
Stream == taken \o Contents(rb) \o wire
Unsent == LET q == Contents(sb)
          IN  IF spc = "send" THEN SubSeq(q, sent + 1, Len(q)) ELSE q

\* Without a failure nothing is lost, repeated or reordered on the way from
\* one application to the other, through both buffers' wraps and any split
\* of the regions over ::send and ::recv.
StreamIsExact ==
    fails = 0 /\ up => Stream \o Unsent = [i \in 1 .. given |-> i]

\* After fails sends that the application retried, bytes may come twice (the
\* region is sent again from its start) but none is skipped.
StreamHasNoGap ==
    up => \A i \in 1 .. Len(Stream) :
            Stream[i] \in 1 .. (IF i = 1 THEN 1 ELSE Stream[i - 1] + 1)

\* recv() comes back only when it has received all there was, or reports a
\* buffer that has no room left: a caller that empties the buffer and waits
\* for the socket to become readable again misses nothing.
RecvTakesAll ==
    [][rpc' = "empty" /\ rpc \in {"first", "second"} =>
         \/ wire' = << >>
         \/ nds' = "bufferfull" /\ WriteTailRegion(rb').n = 0]_vars

\* Whatever the receiver was not told of as disconnected it has been shown:
\* a connection that ends loses nothing that was received.
NothingLeftBehind == rpc = "gone" => Contents(rb) = << >>

\* Every byte given is shown in the end, unless a send fails or the
\* connection breaks.
Delivered ==
    \A n \in 1 .. Total : given >= n ~> Len(taken) >= n \/ fails > 0 \/ ~up

=============================================================================
