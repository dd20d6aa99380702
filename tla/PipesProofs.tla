----------------------------- MODULE PipesProofs -----------------------------
(***************************************************************************)
(* The exchange over the two FIFOs, for every number of clients, starts,   *)
(* crashes and kills: types, and what holds as long as no exchange was     *)
(* disturbed.                                                              *)
(***************************************************************************)
EXTENDS Pipes, SequenceTheorems, TLAPS

(* The reply FIFO has room for one reply: a message has less than 4 KiB    *)
(* (ERRAID_PIPE_MESSAGE_LIMIT), a pipe 64 KiB.                             *)
RoomForOne == ReplyCapacity >= HeaderLen + PayloadLen("LIST")

Unsent == {"idle", "opened", "connected"}

(* What is in the request FIFO, and read from it, was written by clients   *)
(* and is no reply.                                                        *)
RequestUnit == {u \in Unit : u.msg.kind \in RequestKinds}

(* Holds also when the exchange is disturbed: how much the daemon and the  *)
(* clients have half read, and that nothing is known of a client that has  *)
(* written nothing.                                                        *)
HalfRead ==
    /\ requests \in Seq(RequestUnit) /\ in \in Seq(RequestUnit)
    /\ pc \in {"down", "opening", "loop"} => in = <<>>
    /\ pc = "read" => Len(in) <= HeaderLen
    /\ pc \in {"handle", "reply", "payload"} => Len(in) = HeaderLen + 1
    /\ pc \in {"reply", "payload"} => answer \in ReplyKinds

HalfHeard ==
    \A c \in Clients :
        IF client[c] = "waiting" THEN Len(heard[c]) < Wanted(c) ELSE heard[c] = <<>>

Unheard ==
    /\ \A i \in DOMAIN requests : client[requests[i].msg.client] \notin Unsent
    /\ \A i \in DOMAIN in : client[in[i].msg.client] \notin Unsent
    /\ \A p \in performed : client[p[1]] \notin Unsent

(* The units from .. to of a message: from + 1 to `to` of its header and   *)
(* then its payload.                                                       *)
UnitAt(msg, i) ==
    IF i <= HeaderLen THEN [part |-> "header", i |-> i, msg |-> msg]
                      ELSE [part |-> "payload", i |-> i - HeaderLen, msg |-> msg]

Slice(units, msg, from, to) ==
    /\ units \in Seq(Unit) /\ from + Len(units) = to
    /\ \A i \in 1..Len(units) : units[i] = UnitAt(msg, from + i)

Full(msg) == HeaderLen + PayloadLen(msg.kind)

NotPerformed(c) == \A d \in Clients : <<c, d>> \notin performed

(* Units of its request that a client has written.                         *)
Sent(c) == CASE client[c] = "half"    -> HeaderLen
             [] client[c] = "waiting" -> HeaderLen + 1
             [] OTHER                 -> 0

(* A client whose request has not been handled: what it has written is in  *)
(* the request FIFO, or read by the daemon.                                *)
Asking(c) ==
    LET msg == Request(c, kind[c]) IN
    /\ heard[c] = <<>> /\ replies = <<>> /\ NotPerformed(c)
    /\ pc \in {"down", "loop", "next", "read", "handle"}
    /\ pc \in {"loop", "next"} => Slice(requests, msg, 0, Sent(c))
    /\ pc = "read" =>
           /\ client[c] \in {"half", "waiting"}
           /\ \E n \in {0, HeaderLen} :
                  Slice(in, msg, 0, n) /\ Slice(requests, msg, n, Sent(c))
    /\ pc = "handle" =>
           client[c] = "waiting" /\ requests = <<>> /\ Slice(in, msg, 0, HeaderLen + 1)

(* A client whose request has been handled: what has been written of the   *)
(* reply, which is true, is in the reply FIFO or was read by the client.   *)
Answered(c) ==
    \E k \in ReplyKinds :
        LET msg == [client |-> c, kind |-> k] IN
        /\ client[c] = "waiting"
        /\ IF k = "ERROR" THEN NotPerformed(c) ELSE <<c, c>> \in performed
        /\ pc \in {"down", "reply", "payload", "next", "loop"}
        /\ pc # "down" => requests = <<>>
        /\ pc \in {"reply", "payload"} => Asked.client = c /\ answer = k
        /\ \E read \in 0..Full(msg), written \in {0, HeaderLen, Full(msg)} :
               /\ Slice(heard[c], msg, 0, read)
               /\ Slice(replies, msg, read, written)
               /\ pc = "reply" => written = 0
               /\ pc = "payload" => written = HeaderLen
               /\ pc \in {"next", "loop"} => written = Full(msg)

AllQuiet ==
    /\ Live = {} /\ requests = <<>> /\ replies = <<>>
    /\ pc \in {"down", "opening", "loop", "next"}

(* As long as the exchange is not disturbed one client at a time is at     *)
(* work; it has been answered or it has not.                               *)
Undisturbed ==
    AllQuiet \/ \E c \in Clients : Live = {c} /\ (Asking(c) \/ Answered(c))

PipesInv == TypeOK /\ HalfRead /\ HalfHeard /\ Unheard /\ (~disturbed => Undisturbed)

-----------------------------------------------------------------------------
(* Messages and their units                                                *)

LEMMA UnitsOf ==
    ASSUME NEW part \in {"header", "payload"}, NEW n \in Nat, NEW msg \in Message
    PROVE  /\ Units(part, n, msg) \in Seq(Unit) /\ Len(Units(part, n, msg)) = n
           /\ \A i \in 1..n :
                  Units(part, n, msg)[i] = [part |-> part, i |-> i, msg |-> msg]
<1>1. \A i \in 1..n : [part |-> part, i |-> i, msg |-> msg] \in Unit
    BY DEF Unit
<1>2. Units(part, n, msg) = [i \in 1..n |-> [part |-> part, i |-> i, msg |-> msg]]
    BY DEF Units
<1> HIDE DEF Unit
<1>3. Units(part, n, msg) \in [1..n -> Unit]
    BY <1>1, <1>2
<1>4. Units(part, n, msg) \in Seq(Unit)
    BY <1>3, SeqDef
<1>5. Len(Units(part, n, msg)) = n
    BY <1>2, <1>3, <1>4, LenProperties
<1> QED
    BY <1>2, <1>4, <1>5

LEMMA MessageUnits ==
    ASSUME NEW msg \in Message
    PROVE  /\ HeaderOf(msg) \in Seq(Unit) /\ Len(HeaderOf(msg)) = HeaderLen
           /\ PayloadOf(msg) \in Seq(Unit) /\ Len(PayloadOf(msg)) = PayloadLen(msg.kind)
           /\ \A i \in 1..HeaderLen : HeaderOf(msg)[i] = UnitAt(msg, i)
           /\ \A i \in 1..PayloadLen(msg.kind) : PayloadOf(msg)[i] = UnitAt(msg, HeaderLen + i)
<1>1. HeaderLen \in Nat /\ PayloadLen(msg.kind) \in Nat
    BY DEF HeaderLen, PayloadLen
<1>2. /\ HeaderOf(msg) \in Seq(Unit) /\ Len(HeaderOf(msg)) = HeaderLen
      /\ \A i \in 1..HeaderLen : HeaderOf(msg)[i] = UnitAt(msg, i)
    <2>1. /\ HeaderOf(msg) \in Seq(Unit) /\ Len(HeaderOf(msg)) = HeaderLen
          /\ \A i \in 1..HeaderLen :
                 HeaderOf(msg)[i] = [part |-> "header", i |-> i, msg |-> msg]
        BY <1>1, UnitsOf DEF HeaderOf
    <2>2. \A i \in 1..HeaderLen : i <= HeaderLen
        BY <1>1
    <2> QED
        BY ONLY <2>1, <2>2 DEF UnitAt
<1> DEFINE n == PayloadLen(msg.kind)
<1>3. /\ PayloadOf(msg) \in Seq(Unit) /\ Len(PayloadOf(msg)) = n
      /\ \A i \in 1..n : PayloadOf(msg)[i] = [part |-> "payload", i |-> i, msg |-> msg]
    BY <1>1, UnitsOf DEF PayloadOf
<1> HIDE DEF n
<1>4. \A i \in 1..n : UnitAt(msg, HeaderLen + i) = [part |-> "payload", i |-> i, msg |-> msg]
    <2>1. \A i \in 1..n : ~(2 + i <= 2) /\ (2 + i) - 2 = i
        BY <1>1 DEF n
    <2> QED
        BY <2>1 DEF UnitAt, HeaderLen
<1> QED
    BY <1>2, <1>3, <1>4 DEF n

(* How many units one read takes from the FIFO.                            *)
Taken(buffer, fifo, length) == Least(Len(fifo), length - Len(buffer))

IsOneRead(T, buffer, fifo, length) ==
    LET m    == Taken(buffer, fifo, length)
        got  == ReadInto(buffer, fifo, length)
        rest == Unread(buffer, fifo, length)
    IN  /\ Len(buffer) \in Nat /\ Len(fifo) \in Nat /\ m \in Nat
        /\ \/ m = Len(fifo) /\ Len(buffer) + m <= length
           \/ m < Len(fifo) /\ Len(buffer) + m = length
        /\ got \in Seq(T) /\ Len(got) = Len(buffer) + m
        /\ \A i \in 1..Len(buffer) : got[i] = buffer[i]
        /\ \A i \in 1..m : got[Len(buffer) + i] = fifo[i]
        /\ rest \in Seq(T) /\ Len(rest) = Len(fifo) - m
        /\ \A i \in 1..(Len(fifo) - m) : rest[i] = fifo[m + i]

LEMMA OneRead ==
    ASSUME NEW T, NEW buffer \in Seq(T), NEW fifo \in Seq(T),
           NEW length \in Nat, Len(buffer) <= length
    PROVE  IsOneRead(T, buffer, fifo, length)
<1> DEFINE m == Taken(buffer, fifo, length)
           head == SubSeq(fifo, 1, m)
           rest == SubSeq(fifo, m + 1, Len(fifo))
<1>1. /\ m \in Nat /\ m <= Len(fifo) /\ Len(buffer) \in Nat /\ Len(fifo) \in Nat
      /\ \/ m = Len(fifo) /\ Len(buffer) + m <= length
         \/ m < Len(fifo) /\ Len(buffer) + m = length
    BY DEF Taken, Least
<1> HIDE DEF m
<1>2. head \in Seq(T) /\ Len(head) = m /\ \A i \in 1..m : head[i] = fifo[i]
    <2>1. \A i \in 1..m : fifo[i] \in T
        BY <1>1, ElementOfSeq
    <2> QED
        BY <1>1, <2>1, SubSeqProperties
<1>3. /\ rest \in Seq(T) /\ Len(rest) = Len(fifo) - m
      /\ \A i \in 1..(Len(fifo) - m) : rest[i] = fifo[m + i]
    <2>1. \A i \in (m + 1)..Len(fifo) : fifo[i] \in T
        BY <1>1, ElementOfSeq
    <2>2. \A i \in 1..(Len(fifo) - m) : (m + 1) + i - 1 = m + i
        BY <1>1
    <2>3. /\ rest \in Seq(T)
          /\ Len(rest) = IF m + 1 <= Len(fifo) THEN Len(fifo) - (m + 1) + 1 ELSE 0
          /\ \A i \in 1..(Len(fifo) - (m + 1) + 1) : rest[i] = fifo[(m + 1) + i - 1]
        BY <1>1, <2>1, SubSeqProperties
    <2>4. Len(fifo) - (m + 1) + 1 = Len(fifo) - m
        BY <1>1
    <2>5. IF m + 1 <= Len(fifo) THEN Len(fifo) - m = Len(fifo) - m ELSE Len(fifo) - m = 0
        BY <1>1
    <2>6. Len(rest) = Len(fifo) - m
        BY <2>3, <2>4, <2>5
    <2> HIDE DEF rest
    <2>7. \A i \in 1..(Len(fifo) - m) : rest[i] = fifo[(m + 1) + i - 1]
        BY ONLY <2>3, <2>4
    <2> QED
        BY ONLY <2>2, <2>3, <2>6, <2>7
<1> HIDE DEF head, rest
<1>4. /\ buffer \o head \in Seq(T) /\ Len(buffer \o head) = Len(buffer) + m
      /\ \A i \in 1..Len(buffer) : (buffer \o head)[i] = buffer[i]
      /\ \A i \in 1..m : (buffer \o head)[Len(buffer) + i] = head[i]
    <2>1. /\ buffer \o head \in Seq(T) /\ Len(buffer \o head) = Len(buffer) + Len(head)
          /\ \A i \in 1..(Len(buffer) + Len(head)) :
                 (buffer \o head)[i] = IF i <= Len(buffer) THEN buffer[i]
                                       ELSE head[i - Len(buffer)]
        BY <1>2, ConcatProperties
    <2>2. \A i \in 1..m : /\ Len(buffer) + i \in 1..(Len(buffer) + m)
                         /\ ~(Len(buffer) + i <= Len(buffer))
                         /\ (Len(buffer) + i) - Len(buffer) = i
        BY <1>1
    <2>3. \A i \in 1..Len(buffer) : i \in 1..(Len(buffer) + m) /\ i <= Len(buffer)
        BY <1>1
    <2> QED
        BY ONLY <1>2, <2>1, <2>2, <2>3
<1>5. ReadInto(buffer, fifo, length) = buffer \o head /\ Unread(buffer, fifo, length) = rest
    BY DEF ReadInto, Unread, Taken, m, head, rest
<1> QED
    BY <1>1, <1>2, <1>3, <1>4, <1>5 DEF m, IsOneRead

(* The units of a request are units of requests.                           *)
LEMMA RequestUnits ==
    ASSUME NEW c \in Clients, NEW k \in RequestKinds
    PROVE  /\ Request(c, k) \in Message
           /\ HeaderOf(Request(c, k)) \in Seq(RequestUnit)
           /\ PayloadOf(Request(c, k)) \in Seq(RequestUnit)
<1> DEFINE msg == Request(c, k)
<1>1. msg \in Message /\ msg.kind \in RequestKinds
    BY DEF Request, Message
<1> HIDE DEF msg
<1>2. ASSUME NEW s \in Seq(Unit), \A i \in 1..Len(s) : s[i].msg = msg
      PROVE  s \in Seq(RequestUnit)
    <2>1. \A i \in 1..Len(s) : s[i] \in RequestUnit
        BY <1>1, <1>2, ElementOfSeq DEF RequestUnit
    <2>2. Len(s) \in Nat /\ s \in [1..Len(s) -> Unit]
        BY LenProperties
    <2>3. s \in [1..Len(s) -> RequestUnit]
        BY <2>1, <2>2
    <2> QED
        BY <2>2, <2>3, SeqDef
<1>3. \A i : UnitAt(msg, i).msg = msg
    BY DEF UnitAt
<1> QED
    BY <1>1, <1>2, <1>3, MessageUnits DEF msg

(* Two sequences of units of requests, one after the other.                *)
IsJoined(T, s, t) ==
    /\ s \o t \in Seq(T) /\ Len(s \o t) = Len(s) + Len(t)
    /\ Len(s) \in Nat /\ Len(t) \in Nat
    /\ DOMAIN s = 1..Len(s) /\ DOMAIN (s \o t) = 1..(Len(s) + Len(t))
    /\ \A i \in 1..Len(s) : (s \o t)[i] = s[i]
    /\ \A i \in 1..Len(t) : (s \o t)[Len(s) + i] = t[i]
    /\ \A i \in 1..(Len(s) + Len(t)) :
           \/ i \in 1..Len(s) /\ (s \o t)[i] = s[i]
           \/ \E j \in 1..Len(t) : i = Len(s) + j /\ (s \o t)[i] = t[j]

LEMMA Joined ==
    ASSUME NEW T, NEW s \in Seq(T), NEW t \in Seq(T)
    PROVE  IsJoined(T, s, t)
<1>1. Len(s) \in Nat /\ Len(t) \in Nat
    BY LenProperties
<1>2. /\ s \o t \in Seq(T) /\ Len(s \o t) = Len(s) + Len(t)
      /\ \A i \in 1..(Len(s) + Len(t)) :
             (s \o t)[i] = IF i <= Len(s) THEN s[i] ELSE t[i - Len(s)]
    BY ConcatProperties
<1>3. DOMAIN s = 1..Len(s) /\ DOMAIN (s \o t) = 1..(Len(s) + Len(t))
    BY <1>2, LenProperties
<1>4. ASSUME NEW i \in 1..Len(s) PROVE (s \o t)[i] = s[i]
    BY <1>1, <1>2
<1>5. ASSUME NEW i \in 1..Len(t) PROVE (s \o t)[Len(s) + i] = t[i]
    <2>1. /\ Len(s) + i \in 1..(Len(s) + Len(t)) /\ ~(Len(s) + i <= Len(s))
          /\ (Len(s) + i) - Len(s) = i
        BY <1>1
    <2> QED
        BY <1>2, <2>1
<1>6. ASSUME NEW i \in 1..(Len(s) + Len(t)), i \notin 1..Len(s)
      PROVE  \E j \in 1..Len(t) : i = Len(s) + j /\ (s \o t)[i] = t[j]
    <2>1. /\ i - Len(s) \in 1..Len(t) /\ i = Len(s) + (i - Len(s)) /\ ~(i <= Len(s))
        BY <1>1, <1>6
    <2> QED
        BY <1>2, <2>1
<1> QED
    BY <1>1, <1>2, <1>3, <1>4, <1>5, <1>6 DEF IsJoined

-----------------------------------------------------------------------------
(* Types, and what holds also of a disturbed exchange                      *)

Typed == TypeOK /\ HalfRead /\ HalfHeard /\ Unheard

(* A request that is complete has a sender, and a payload of one unit.     *)
LEMMA RequestRead ==
    ASSUME Typed
    PROVE  /\ HeaderRead(in) => /\ Expected(in) = HeaderLen + 1
                               /\ Asked \in Message /\ Asked.client \in Clients
                               /\ Asked.kind \in RequestKinds
           /\ Len(in) > HeaderLen => Body \in Unit /\ Body.msg.client \in Clients
<1>1. in \in Seq(RequestUnit) /\ HeaderLen \in Nat \ {0}
    BY DEF Typed, HalfRead, HeaderLen
<1>2. \A i \in 1..Len(in) : in[i] \in RequestUnit
    BY <1>1, ElementOfSeq
<1>3. \A u \in RequestUnit : /\ u.msg \in Message /\ u.msg.client \in Clients
                            /\ u.msg.kind \in RequestKinds
                            /\ u \in Unit /\ PayloadLen(u.msg.kind) = 1
    BY DEF RequestUnit, Unit, Message, PayloadLen, RequestKinds
<1>4. Len(in) \in Nat
    BY <1>1, LenProperties
<1> QED
    BY <1>1, <1>2, <1>3, <1>4 DEF HeaderRead, Expected, Asked, Body

LEMMA Replaced ==
    ASSUME NEW T, NEW f \in [Clients -> T], NEW c \in Clients, NEW v \in T
    PROVE  /\ [f EXCEPT ![c] = v] \in [Clients -> T]
           /\ [f EXCEPT ![c] = v][c] = v
           /\ \A x \in Clients \ {c} : [f EXCEPT ![c] = v][x] = f[x]
OBVIOUS

Statuses == {"idle", "opened", "connected", "half", "waiting"} \cup Ended

(* What each step of a client does to the clients.                         *)
LEMMA ClientSteps ==
    ASSUME Typed, NEW c \in Clients, OpenRequests(c) \/ Exchange(c) \/ Kill(c)
    PROVE  \E v \in Statuses, k \in RequestKinds :
               /\ client' = [client EXCEPT ![c] = v]
               /\ kind' = [kind EXCEPT ![c] = k]
               /\ client[c] \notin Unsent => v \notin Unsent
<1> USE DEF Typed, TypeOK, Unsent, Ended, Statuses
<1>1. [client EXCEPT ![c] = client[c]] = client /\ [kind EXCEPT ![c] = kind[c]] = kind
      /\ client[c] \in Statuses /\ kind[c] \in RequestKinds
    OBVIOUS
<1>2. CASE OpenRequests(c)
    BY <1>1, <1>2 DEF OpenRequests
<1>3. CASE OpenReplies(c)
    BY <1>1, <1>3 DEF OpenReplies
<1>4. CASE WriteHeader(c)
    BY <1>1, <1>4 DEF WriteHeader, Write
<1>5. CASE WritePayload(c)
    <2>1. kind' = kind
        BY <1>5 DEF WritePayload
    <2>2. \E v \in {"waiting", "failed"} : client' = [client EXCEPT ![c] = v]
        BY <1>5 DEF WritePayload, Write
    <2> QED
        BY <1>1, <2>1, <2>2
<1>6. ASSUME NEW how \in {"done", "refused", "failed", "killed"}, EndsAs(c, how)
      PROVE  \E v \in Statuses, k \in RequestKinds :
                 /\ client' = [client EXCEPT ![c] = v]
                 /\ kind' = [kind EXCEPT ![c] = k]
                 /\ client[c] \notin Unsent => v \notin Unsent
    <2>1. "DATA" \in RequestKinds /\ how \in Statuses /\ how \notin Unsent
        BY DEF RequestKinds
    <2>2. client' = [client EXCEPT ![c] = how] /\ kind' = [kind EXCEPT ![c] = "DATA"]
        BY <1>6 DEF EndsAs
    <2> QED
        BY ONLY <2>1, <2>2
<1>7. CASE ReadReply(c)
    <2>1. CASE UNCHANGED <<client, kind>>
        BY <1>1, <2>1
    <2>2. CASE \E how \in {"done", "refused", "failed"} : EndsAs(c, how)
        BY <1>6, <2>2
    <2> QED
        BY <1>7, <2>1, <2>2 DEF ReadReply, Outcome
<1>8. CASE ReadEnd(c)
    BY <1>6, <1>8 DEF ReadEnd
<1>9. CASE Kill(c)
    BY <1>6, <1>9 DEF Kill
<1> QED
    BY <1>2, <1>3, <1>4, <1>5, <1>7, <1>8, <1>9 DEF Exchange

(* No client forgets that it has written.                                  *)
LEMMA NoReturn ==
    ASSUME Typed, [Next]_vars
    PROVE  \A x \in Clients : client[x] \notin Unsent => client'[x] \notin Unsent
<1>1. ASSUME NEW c \in Clients, OpenRequests(c) \/ Exchange(c) \/ Kill(c)
      PROVE  \A x \in Clients : client[x] \notin Unsent => client'[x] \notin Unsent
    <2>1. PICK v \in Statuses, k \in RequestKinds :
              client' = [client EXCEPT ![c] = v] /\ (client[c] \notin Unsent => v \notin Unsent)
        BY <1>1, ClientSteps
    <2> QED
        BY <2>1 DEF Typed, TypeOK
<1>2. CASE Start \/ Crash \/ Signal \/ Serve \/ UNCHANGED vars
    BY <1>2 DEF Start, Crash, Signal, Serve, Ends, Ready, Stop, Poll, ReadRequest, Handle,
        ReplyHeader, ReplyPayload, NextRequest, tadmor, vars
<1> QED
    BY <1>1, <1>2 DEF Next

(* The units that stay in a FIFO, or are added to it.                      *)
LEMMA UnheardKept ==
    ASSUME Typed, [Next]_vars,
           \A i \in DOMAIN requests' : client'[requests'[i].msg.client] \notin Unsent,
           \A i \in DOMAIN in' : client'[in'[i].msg.client] \notin Unsent,
           \A p \in performed' : p \in performed \/ client'[p[1]] \notin Unsent
    PROVE  Unheard'
<1>1. \A p \in performed : p[1] \in Clients /\ client[p[1]] \notin Unsent
    BY DEF Typed, TypeOK, Unheard
<1> QED
    BY <1>1, NoReturn DEF Unheard

LEMMA SameUnits ==
    ASSUME Typed, [Next]_vars
    PROVE  /\ \A i \in DOMAIN requests : client'[requests[i].msg.client] \notin Unsent
           /\ \A i \in DOMAIN in : client'[in[i].msg.client] \notin Unsent
           /\ requests \in Seq(Unit) /\ in \in Seq(Unit)
<1>1. requests \in Seq(RequestUnit) /\ in \in Seq(RequestUnit)
    BY DEF Typed, HalfRead
<1>2. \A u \in RequestUnit : u.msg.client \in Clients /\ u \in Unit
    BY DEF RequestUnit, Unit, Message
<1>3. /\ \A i \in DOMAIN requests : requests[i] \in RequestUnit
      /\ \A i \in DOMAIN in : in[i] \in RequestUnit
    BY <1>1, ElementOfSeq, LenProperties
<1>4. requests \in Seq(Unit) /\ in \in Seq(Unit)
    BY <1>1, <1>2, SeqMonotonic
<1> QED
    BY <1>2, <1>3, <1>4, NoReturn DEF Typed, Unheard

(* What a step of a client leaves alone.                                   *)
LEMMA ClientSide ==
    ASSUME Typed, NEW c \in Clients, OpenRequests(c) \/ Exchange(c) \/ Kill(c)
    PROVE  /\ UNCHANGED <<daemon, performed>>
           /\ kills' \in Nat /\ disturbed' \in BOOLEAN
           /\ client' \in [Clients -> Statuses] /\ kind' \in [Clients -> RequestKinds]
<1>1. UNCHANGED <<daemon, performed>>
    <2>1. CASE OpenRequests(c) \/ OpenReplies(c) \/ Kill(c) \/ ReadEnd(c)
        BY <2>1 DEF OpenRequests, OpenReplies, ReadEnd, Kill, seen
    <2>2. CASE WriteHeader(c) \/ WritePayload(c)
        BY <2>2 DEF WriteHeader, WritePayload, Write
    <2>3. CASE ReadReply(c)
        BY <2>3 DEF ReadReply
    <2> QED
        BY <2>1, <2>2, <2>3 DEF Exchange
<1>2. kills' \in {kills, kills + 1}
    BY DEF OpenRequests, OpenReplies, WriteHeader, WritePayload, Write, ReadReply, ReadEnd,
        Kill, Exchange
<1>3. UNCHANGED disturbed \/ \E event : Disturbs(event)
    BY DEF OpenRequests, OpenReplies, WriteHeader, WritePayload, Write, ReadReply, ReadEnd,
        Kill, Exchange, seen
<1>4. disturbed' \in BOOLEAN
    BY <1>3 DEF Disturbs, Typed, TypeOK
<1>5. client' \in [Clients -> Statuses] /\ kind' \in [Clients -> RequestKinds]
    BY ClientSteps DEF Typed, TypeOK, Statuses
<1> QED
    BY <1>1, <1>2, <1>4, <1>5 DEF Typed, TypeOK

LEMMA ClosedKeeps ==
    ASSUME Closed
    PROVE  requests' \in {<<>>, requests} /\ replies' \in {<<>>, replies}
BY DEF Closed

LEMMA Empty ==
    ASSUME NEW T
    PROVE  <<>> \in Seq(T) /\ Len(<<>>) = 0 /\ DOMAIN <<>> = {}
OBVIOUS

(* What a client has read of a reply is less than a reply.                 *)
LEMMA StillHalfHeard ==
    ASSUME Typed, NEW c \in Clients, client[c] = "waiting",
           LET got == ReadInto(heard[c], replies, Wanted(c))
           IN  /\ ~ReplyComplete(c, got)
               /\ heard' = [heard EXCEPT ![c] = got]
    PROVE  Len(heard'[c]) < Wanted(c)'
<1> DEFINE got == ReadInto(heard[c], replies, Wanted(c))
<1>1. /\ heard[c] \in Seq(Unit) /\ Len(heard[c]) < Wanted(c)
      /\ replies \in Seq(Unit) /\ heard'[c] = got
    BY DEF Typed, TypeOK, HalfHeard
<1>2. HeaderLen = 2 /\ \A k : PayloadLen(k) \in {1, 2}
    BY DEF HeaderLen, PayloadLen
<1>3. Wanted(c) \in Nat
    BY <1>2 DEF Wanted, Expected
<1> DEFINE m == Taken(heard[c], replies, Wanted(c))
<1>4. /\ got \in Seq(Unit) /\ m \in Nat /\ Len(got) = Len(heard[c]) + m
      /\ Len(got) <= Wanted(c)
      /\ \A i \in 1..Len(heard[c]) : got[i] = heard[c][i]
    <2>1. Len(heard[c]) <= Wanted(c)
        BY <1>1, <1>3, LenProperties
    <2>2. IsOneRead(Unit, heard[c], replies, Wanted(c))
        BY ONLY <1>1, <1>3, <2>1, OneRead
    <2> QED
        BY ONLY <1>3, <2>2 DEF IsOneRead
<1>5. Len(heard[c]) \in Nat /\ Len(replies) \in Nat
    BY <1>1, LenProperties
<1>6. Len(got) <= Wanted(c)
    BY <1>4
<1> HIDE DEF got, m
<1>7. Wanted(c)' = IF HeaderRead(got) THEN Expected(got) ELSE HeaderLen
    BY <1>1 DEF Wanted, Expected, HeaderRead
<1>8. CASE HeaderRead(heard[c])
    <2>1. got[HeaderLen] = heard[c][HeaderLen] /\ Len(got) >= Len(heard[c])
        BY <1>2, <1>4, <1>5, <1>8 DEF HeaderRead
    <2>2. HeaderRead(got) /\ Expected(got) = Wanted(c)
        BY <1>2, <1>4, <1>5, <1>8, <2>1 DEF HeaderRead, Expected, Wanted
    <2>3. Len(got) # Wanted(c)
        BY <1>8 DEF ReplyComplete, got
    <2> QED
        BY <1>1, <1>3, <1>4, <1>5, <1>6, <1>7, <2>2, <2>3
<1>9. CASE ~HeaderRead(heard[c])
    <2>1. Wanted(c) = HeaderLen
        BY <1>9 DEF Wanted
    <2>2. CASE HeaderRead(got)
        <3>1. Len(got) = HeaderLen
            BY <1>2, <1>4, <1>5, <1>6, <2>1, <2>2 DEF HeaderRead
        <3>2. Expected(got) \in {3, 4}
            BY DEF Expected, PayloadLen, HeaderLen
        <3>3. Wanted(c)' = Expected(got)
            BY <1>7, <2>2
        <3>4. heard'[c] = got /\ Len(got) = 2
            BY <1>1, <1>2, <3>1
        <3>5. Len(heard'[c]) = 2
            BY <3>4
        <3>6. 2 < Wanted(c)'
            BY <3>2, <3>3
        <3> QED
            BY ONLY <3>5, <3>6
    <2>3. CASE ~HeaderRead(got)
        BY <1>1, <1>2, <1>4, <1>5, <1>7, <2>3 DEF HeaderRead
    <2> QED
        BY <2>2, <2>3
<1> QED
    BY <1>8, <1>9

LEMMA EndsHeard ==
    ASSUME Typed, NEW c \in Clients, NEW how \in Ended, EndsAs(c, how)
    PROVE  heard' \in [Clients -> Seq(Unit)] /\ HalfHeard'
<1>1. client' = [client EXCEPT ![c] = how] /\ heard' = [heard EXCEPT ![c] = <<>>]
    BY DEF EndsAs
<1>2. how # "waiting"
    BY DEF Ended
<1>3. heard' \in [Clients -> Seq(Unit)] /\ heard'[c] = <<>> /\ client'[c] = how
    BY <1>1, Empty DEF Typed, TypeOK
<1>4. \A x \in Clients : x # c => heard'[x] = heard[x] /\ client'[x] = client[x]
    BY <1>1 DEF Typed, TypeOK
<1>5. \A x \in Clients : heard'[x] = heard[x] => Wanted(x)' = Wanted(x)
    BY DEF Wanted, HeaderRead, Expected
<1> QED
    BY <1>2, <1>3, <1>4, <1>5 DEF HalfHeard, Typed

LEMMA ClientHeard ==
    ASSUME Typed, NEW c \in Clients, OpenRequests(c) \/ Exchange(c) \/ Kill(c)
    PROVE  heard' \in [Clients -> Seq(Unit)] /\ HalfHeard'
<1>1. heard \in [Clients -> Seq(Unit)] /\ client \in [Clients -> Statuses] /\ HalfHeard
    BY DEF Typed, TypeOK, Statuses
<1>2. \A x \in Clients : heard'[x] = heard[x] => Wanted(x)' = Wanted(x)
    BY DEF Wanted, HeaderRead, Expected
<1>3. ASSUME heard' = heard,
             \A x \in Clients :
                 \/ client'[x] = client[x]
                 \/ client[x] # "waiting" /\ client'[x] # "waiting"
      PROVE  heard' \in [Clients -> Seq(Unit)] /\ HalfHeard'
    BY <1>1, <1>2, <1>3 DEF HalfHeard
<1>4. CASE OpenRequests(c) \/ OpenReplies(c)
    BY <1>1, <1>3, <1>4 DEF OpenRequests, OpenReplies
<1>5. CASE WriteHeader(c)
    <2>1. client[c] = "connected" /\ heard' = heard
        BY <1>5 DEF WriteHeader, Write
    <2>2. \E v \in {"half", "failed"} : client' = [client EXCEPT ![c] = v]
        BY <1>5 DEF WriteHeader, Write
    <2> QED
        BY <1>1, <1>3, <2>1, <2>2
<1>6. CASE WritePayload(c)
    <2>1. client[c] = "half" /\ heard' = heard
        BY <1>6 DEF WritePayload, Write
    <2>2. \E v \in {"waiting", "failed"} : client' = [client EXCEPT ![c] = v]
        BY <1>6 DEF WritePayload, Write
    <2>3. heard[c] = <<>> /\ Wanted(c) > 0
        BY <1>1, <2>1 DEF HalfHeard, Wanted, HeaderRead, HeaderLen
    <2>4. /\ \A x \in Clients \ {c} : client'[x] = client[x] /\ heard'[x] = heard[x]
          /\ client'[c] \in {"waiting", "failed"} /\ heard'[c] = <<>>
        BY <1>1, <2>1, <2>2, <2>3
    <2>5. Len(heard'[c]) < Wanted(c)'
        BY <1>2, <2>1, <2>3
    <2> QED
        BY <1>1, <1>2, <2>1, <2>4, <2>5 DEF HalfHeard
<1>7. CASE ReadReply(c)
    <2> DEFINE got == ReadInto(heard[c], replies, Wanted(c))
    <2>1. CASE \E how \in Ended : EndsAs(c, how)
        BY <2>1, EndsHeard
    <2>2. CASE /\ client[c] = "waiting" /\ ~ReplyComplete(c, got)
               /\ heard' = [heard EXCEPT ![c] = got] /\ UNCHANGED client
        <3>1. Len(heard'[c]) < Wanted(c)'
            BY <2>2, StillHalfHeard
        <3>2. got \in Seq(Unit)
            <4>1. /\ heard[c] \in Seq(Unit) /\ replies \in Seq(Unit)
                  /\ Len(heard[c]) < Wanted(c) /\ Wanted(c) \in Nat
                BY <2>2 DEF Typed, TypeOK, HalfHeard, Wanted, Expected, HeaderLen, PayloadLen
            <4>2. Len(heard[c]) <= Wanted(c)
                BY <4>1, LenProperties
            <4> QED
                BY <4>1, <4>2, OneRead DEF IsOneRead
        <3> HIDE DEF got
        <3>3. \A x \in Clients \ {c} : client'[x] = client[x] /\ heard'[x] = heard[x]
            BY <1>1, <2>2
        <3>4. heard' \in [Clients -> Seq(Unit)] /\ client'[c] = "waiting"
            BY <1>1, <2>2, <3>2
        <3> QED
            BY <1>1, <1>2, <3>1, <3>3, <3>4 DEF HalfHeard
    <2>3. \A k : Outcome(k) \in Ended
        BY DEF Outcome, Ended
    <2>4. "failed" \in Ended
        BY DEF Ended
    <2> QED
        BY <1>7, <2>1, <2>2, <2>3, <2>4 DEF ReadReply
<1>8. CASE ReadEnd(c) \/ Kill(c)
    <2>1. \E how \in Ended : EndsAs(c, how)
        BY <1>8 DEF ReadEnd, Kill, Ended
    <2> QED
        BY <2>1, EndsHeard
<1> QED
    BY <1>4, <1>5, <1>6, <1>7, <1>8 DEF Exchange

(* What a client does to the FIFOs: its own units are added to the         *)
(* requests, and a read takes some of the replies.                         *)
LEMMA ClientRequests ==
    ASSUME Typed, NEW c \in Clients, OpenRequests(c) \/ Exchange(c) \/ Kill(c)
    PROVE  /\ requests' \in Seq(RequestUnit)
           /\ \A i \in DOMAIN requests' : client'[requests'[i].msg.client] \notin Unsent
<1>1. requests \in Seq(RequestUnit) /\ <<>> \in Seq(RequestUnit) /\ DOMAIN <<>> = {}
    BY Empty DEF Typed, HalfRead
<1>2. \A i \in DOMAIN requests : client'[requests[i].msg.client] \notin Unsent
    BY SameUnits DEF Next
<1>3. CASE requests' \in {<<>>, requests}
    BY <1>1, <1>2, <1>3
<1>4. ASSUME NEW k \in RequestKinds,
             NEW units \in {HeaderOf(Request(c, k)), PayloadOf(Request(c, k))},
             NEW next \in {"half", "waiting"}, Write(c, units, next)
      PROVE  /\ requests' \in Seq(RequestUnit)
             /\ \A i \in DOMAIN requests' : client'[requests'[i].msg.client] \notin Unsent
    <2>1. CASE Closed
        BY <1>3, <2>1, ClosedKeeps
    <2>2. CASE client' = [client EXCEPT ![c] = next] /\ requests' = requests \o units
        <3>1. units \in Seq(RequestUnit) /\ Request(c, k) \in Message
            BY RequestUnits
        <3>2. \A i \in 1..Len(units) : units[i].msg = Request(c, k)
            <4>1. \A i : UnitAt(Request(c, k), i).msg = Request(c, k)
                BY DEF UnitAt
            <4> QED
                BY <3>1, <4>1, MessageUnits
        <3>3. Request(c, k).client = c /\ client'[c] \notin Unsent
            BY <2>2 DEF Request, Unsent, Typed, TypeOK
        <3>4. /\ DOMAIN requests' = 1..(Len(requests) + Len(units))
              /\ requests' \in Seq(RequestUnit) /\ DOMAIN requests = 1..Len(requests)
              /\ \A i \in 1..(Len(requests) + Len(units)) :
                     \/ i \in 1..Len(requests) /\ requests'[i] = requests[i]
                     \/ \E j \in 1..Len(units) : i = Len(requests) + j /\ requests'[i] = units[j]
            <4>1. IsJoined(RequestUnit, requests, units)
                BY <1>1, <3>1, Joined
            <4> QED
                BY <2>2, <4>1 DEF IsJoined
        <3>5. ASSUME NEW i \in DOMAIN requests'
              PROVE  client'[requests'[i].msg.client] \notin Unsent
            <4>1. CASE i \in 1..Len(requests) /\ requests'[i] = requests[i]
                BY ONLY <1>2, <3>4, <4>1
            <4>2. CASE \E j \in 1..Len(units) :
                           i = Len(requests) + j /\ requests'[i] = units[j]
                <5>1. requests'[i].msg = Request(c, k)
                    BY ONLY <3>2, <4>2
                <5> QED
                    BY ONLY <3>3, <5>1
            <4>3. i \in 1..(Len(requests) + Len(units))
                BY ONLY <3>4, <3>5
            <4> QED
                BY ONLY <3>4, <4>1, <4>2, <4>3
        <3> QED
            BY ONLY <3>4, <3>5
    <2> QED
        BY <1>4, <2>1, <2>2 DEF Write
<1>5. CASE WriteHeader(c)
    BY <1>4, <1>5 DEF WriteHeader
<1>6. CASE WritePayload(c)
    <2>1. kind[c] \in RequestKinds
        BY DEF Typed, TypeOK
    <2> QED
        BY <1>4, <1>6, <2>1 DEF WritePayload
<1>7. CASE OpenRequests(c) \/ OpenReplies(c) \/ ReadReply(c) \/ ReadEnd(c) \/ Kill(c)
    <2>1. requests' \in {<<>>, requests}
        BY <1>7 DEF OpenRequests, OpenReplies, ReadReply, ReadEnd, Kill, Closed, fifos
    <2> QED
        BY <1>3, <2>1
<1> QED
    BY <1>5, <1>6, <1>7 DEF Exchange

LEMMA ClientReplies ==
    ASSUME Typed, NEW c \in Clients, OpenRequests(c) \/ Exchange(c) \/ Kill(c)
    PROVE  replies' \in Seq(Unit) /\ Len(replies') <= ReplyCapacity
<1>1. replies \in Seq(Unit) /\ Len(replies) <= ReplyCapacity /\ ReplyCapacity \in Nat
    BY PipesAssumption DEF Typed, TypeOK
<1>5. <<>> \in Seq(Unit) /\ Len(<<>>) <= ReplyCapacity
    BY <1>1, Empty
<1>2. CASE replies' \in {<<>>, replies}
    BY <1>1, <1>5, <1>2
<1>3. CASE ReadReply(c)
    <2> DEFINE rest == Unread(heard[c], replies, Wanted(c))
    <2>1. rest \in Seq(Unit) /\ Len(rest) <= Len(replies)
        <3>1. /\ heard[c] \in Seq(Unit) /\ Len(heard[c]) < Wanted(c) /\ Wanted(c) \in Nat
            BY <1>3 DEF ReadReply, Typed, TypeOK, HalfHeard, Wanted, Expected, HeaderLen,
                PayloadLen
        <3>2. Len(heard[c]) <= Wanted(c) /\ Len(replies) \in Nat
            BY <1>1, <3>1, LenProperties
        <3>3. ASSUME NEW b \in Seq(Unit), NEW f \in Seq(Unit), NEW l \in Nat, Len(b) <= l
              PROVE  Unread(b, f, l) \in Seq(Unit) /\ Len(Unread(b, f, l)) <= Len(f)
            BY <3>3, OneRead, SMTT(20) DEF IsOneRead
        <3> QED
            BY <1>1, <3>1, <3>2, <3>3
    <2>2. replies' \in {<<>>, rest}
        BY <1>3 DEF ReadReply
    <2> HIDE DEF rest
    <2>3. Len(rest) \in Nat /\ Len(replies) \in Nat
        BY <1>1, <2>1, LenProperties
    <2>4. Len(rest) <= ReplyCapacity
        BY ONLY <1>1, <2>1, <2>3
    <2> QED
        BY ONLY <1>5, <2>1, <2>2, <2>4
<1>4. CASE OpenRequests(c) \/ OpenReplies(c) \/ WriteHeader(c) \/ WritePayload(c)
           \/ ReadEnd(c) \/ Kill(c)
    <2>1. replies' \in {<<>>, replies}
        BY <1>4 DEF OpenRequests, OpenReplies, WriteHeader, WritePayload, Write, ReadEnd, Kill,
            Closed, fifos
    <2> QED
        BY <1>2, <2>1
<1> QED
    BY <1>3, <1>4 DEF Exchange

LEMMA ClientTyped ==
    ASSUME Typed, NEW c \in Clients, OpenRequests(c) \/ Exchange(c) \/ Kill(c)
    PROVE  Typed'
<1>1. UNCHANGED <<daemon, performed>>
    BY ClientSide
<1>2. pc' = pc /\ in' = in /\ answer' = answer /\ should_quit' = should_quit
      /\ starts' = starts /\ performed' = performed
    BY <1>1 DEF daemon
<1>3. requests' \in Seq(Unit)
    <2>1. \A u \in RequestUnit : u \in Unit
        BY DEF RequestUnit
    <2> QED
        BY <2>1, ClientRequests, SeqMonotonic
<1>4. TypeOK'
    BY <1>2, <1>3, ClientSide, ClientReplies, ClientHeard DEF Typed, TypeOK, Statuses
<1>5. HalfRead'
    BY <1>2, ClientRequests DEF Typed, HalfRead
<1>6. Unheard'
    <2>1. [Next]_vars
        BY DEF Next
    <2> QED
        BY <1>2, <2>1, SameUnits, ClientRequests, UnheardKept
<1> QED
    BY <1>4, <1>5, <1>6, ClientHeard DEF Typed

(* The steps of the daemon leave the clients alone.                        *)
LEMMA DaemonSide ==
    ASSUME Typed, Start \/ Crash \/ Signal \/ Serve \/ UNCHANGED vars
    PROVE  /\ UNCHANGED <<tadmor, kills>>
           /\ client' \in [Clients -> Statuses] /\ kind' \in [Clients -> RequestKinds]
           /\ heard' \in [Clients -> Seq(Unit)] /\ kills' \in Nat /\ HalfHeard'
<1>1. UNCHANGED <<tadmor, kills>>
    BY DEF Start, Crash, Signal, Serve, Ends, Ready, Stop, Poll, ReadRequest, Handle,
        ReplyHeader, ReplyPayload, NextRequest, vars, tadmor
<1>2. client' = client /\ kind' = kind /\ heard' = heard /\ kills' = kills
    BY <1>1 DEF tadmor
<1>3. HalfHeard'
    BY <1>2 DEF Typed, HalfHeard, Wanted, HeaderRead, Expected
<1> QED
    BY <1>1, <1>2, <1>3 DEF Typed, TypeOK, Statuses

(* Steps of the daemon that move nothing in the request FIFO.              *)
LEMMA QuietTyped ==
    ASSUME Typed, Start \/ Signal \/ Ready \/ Poll \/ NextRequest \/ UNCHANGED vars
    PROVE  Typed'
<1>1. [Next]_vars /\ UNCHANGED <<requests, replies, performed>>
    BY DEF Next, Serve, Start, Signal, Ready, Poll, NextRequest, vars, fifos, seen
<1>2. disturbed' \in BOOLEAN
    <2>1. UNCHANGED disturbed \/ Disturbs(Live # {})
        BY DEF Start, Signal, Ready, Poll, NextRequest, vars, seen
    <2> QED
        BY <2>1 DEF Disturbs, Typed, TypeOK
<1>3. TypeOK'
    <2>1. pc' \in {pc, "opening", "loop", "read"}
        BY DEF Start, Signal, Ready, Poll, NextRequest, vars
    <2>2. in' \in {in, <<>>} /\ answer' \in {answer, "NONE"}
        BY DEF Start, Signal, Ready, Poll, NextRequest, vars
    <2>3. should_quit' \in {should_quit, TRUE, FALSE} /\ starts' \in {starts, starts + 1}
        BY DEF Start, Signal, Ready, Poll, NextRequest, vars
    <2>4. in' \in Seq(Unit) /\ answer' \in ReplyKinds \cup {"NONE"} /\ starts' \in Nat
        <3>1. in' \in Seq(Unit)
            BY <2>2, Empty DEF Typed, TypeOK
        <3>2. answer' \in ReplyKinds \cup {"NONE"}
            BY <2>2 DEF Typed, TypeOK
        <3>3. starts' \in Nat
            BY <2>3 DEF Typed, TypeOK
        <3> QED
            BY <3>1, <3>2, <3>3
    <2>5. should_quit' \in BOOLEAN
        BY <2>3 DEF Typed, TypeOK
    <2> QED
        BY <1>1, <1>2, <2>1, <2>4, <2>5, DaemonSide DEF Serve, Typed, TypeOK, Statuses
<1>4. HalfRead'
    <2>1. Len(<<>>) = 0 /\ <<>> \in Seq(RequestUnit)
        BY Empty
    <2>2. CASE Start \/ Signal \/ Ready \/ Poll \/ UNCHANGED vars
        BY <2>1, <2>2 DEF Start, Signal, Ready, Poll, vars, fifos, RepliesOpen, Typed, HalfRead,
            HeaderLen
    <2>3. CASE NextRequest
        BY <2>1, <2>3 DEF NextRequest, fifos, Typed, HalfRead, HeaderLen
    <2> QED
        BY <2>2, <2>3
<1>5. Unheard'
    <2>1. in' \in {in, <<>>} /\ DOMAIN <<>> = {}
        BY Empty DEF Start, Signal, Ready, Poll, NextRequest, vars
    <2> QED
        BY <1>1, <2>1, SameUnits, UnheardKept
<1> QED
    BY <1>3, <1>4, <1>5, DaemonSide DEF Serve, Typed

LEMMA EndsTyped ==
    ASSUME Typed, Crash \/ Stop
    PROVE  Typed'
<1>1. [Next]_vars /\ Ends
    BY DEF Next, Serve, Crash, Stop
<1>2. /\ requests' \in {<<>>, requests} /\ replies' \in {<<>>, replies}
      /\ pc' = "down" /\ in' = <<>> /\ answer' = "NONE" /\ should_quit' = FALSE
      /\ starts' = starts /\ performed' = performed
    BY <1>1, ClosedKeeps DEF Ends
<1>3. disturbed' \in BOOLEAN
    BY <1>1 DEF Ends, Disturbs, Typed, TypeOK
<1>4. /\ <<>> \in Seq(Unit) /\ <<>> \in Seq(RequestUnit) /\ Len(<<>>) = 0
      /\ DOMAIN <<>> = {} /\ Len(<<>>) <= ReplyCapacity
    BY Empty, PipesAssumption
<1>5. TypeOK'
    BY <1>2, <1>3, <1>4, DaemonSide DEF Serve, Typed, TypeOK, Statuses
<1>6. HalfRead'
    BY <1>2, <1>4 DEF Typed, HalfRead
<1>7. Unheard'
    BY <1>1, <1>2, <1>4, SameUnits, UnheardKept
<1> QED
    BY <1>5, <1>6, <1>7, DaemonSide DEF Serve, Typed

LEMMA HandleTyped ==
    ASSUME Typed, Handle
    PROVE  Typed'
<1>1. [Next]_vars /\ Serve
    BY DEF Next, Serve
<1>2. /\ requests' = requests /\ replies' = replies /\ in' = in /\ starts' = starts
      /\ pc' = "reply" /\ pc = "handle" /\ answer' \in ReplyKinds /\ disturbed' = disturbed
    BY DEF Handle, fifos, ReplyKinds
<1>3. Len(in) = HeaderLen + 1
    BY <1>2 DEF Typed, HalfRead
<1>4. /\ Asked.client \in Clients /\ Body.msg.client \in Clients
      /\ client[Asked.client] \notin Unsent
    <2>1. HeaderRead(in) /\ Len(in) > HeaderLen /\ HeaderLen \in 1..Len(in)
        BY <1>3 DEF HeaderRead, HeaderLen
    <2>2. DOMAIN in = 1..Len(in)
        BY LenProperties DEF Typed, TypeOK
    <2> QED
        BY <2>1, <2>2, RequestRead DEF Typed, Unheard, Asked
<1>5. should_quit' \in BOOLEAN
    BY DEF Handle, Typed, TypeOK
<1>6. performed' \in {performed, performed \cup {<<Asked.client, Body.msg.client>>}}
    BY DEF Handle
<1>7. TypeOK'
    <2>1. performed' \subseteq Clients \X Clients
        BY <1>4, <1>6 DEF Typed, TypeOK
    <2> QED
        BY <1>1, <1>2, <1>5, <2>1, DaemonSide DEF Typed, TypeOK, Statuses
<1>8. HalfRead'
    BY <1>2, <1>3 DEF Typed, HalfRead
<1>9. Unheard'
    <2>1. client' = client
        BY <1>1, DaemonSide DEF tadmor
    <2> QED
        BY <1>1, <1>2, <1>4, <1>6, <2>1, SameUnits, UnheardKept
<1> QED
    BY <1>1, <1>7, <1>8, <1>9, DaemonSide DEF Typed

LEMMA ReadRequestTyped ==
    ASSUME Typed, ReadRequest
    PROVE  Typed'
<1> DEFINE length == IF HeaderRead(in) THEN Expected(in) ELSE HeaderLen
           got == ReadInto(in, requests, length)
           rest == Unread(in, requests, length)
<1>1. [Next]_vars /\ Serve
    BY DEF Next, Serve
<1>2. /\ requests \in Seq(RequestUnit) /\ in \in Seq(RequestUnit)
      /\ Len(in) \in Nat /\ Len(requests) \in Nat
      /\ DOMAIN in = 1..Len(in) /\ DOMAIN requests = 1..Len(requests)
    BY LenProperties DEF Typed, HalfRead
<1>3. Len(in) <= HeaderLen /\ pc = "read" /\ requests # <<>>
    BY DEF ReadRequest, Typed, HalfRead
<1>4. length = IF HeaderRead(in) THEN HeaderLen + 1 ELSE HeaderLen
    BY RequestRead
<1>5. length \in Nat /\ Len(in) <= length
    BY <1>2, <1>3, <1>4 DEF HeaderLen
<1> HIDE DEF length
<1> DEFINE m == Taken(in, requests, length)
<1>6. /\ m \in Nat /\ Len(in) + m <= length /\ m <= Len(requests)
      /\ got \in Seq(RequestUnit) /\ Len(got) = Len(in) + m
      /\ \A i \in 1..Len(in) : got[i] = in[i]
      /\ \A i \in 1..m : got[Len(in) + i] = requests[i]
      /\ rest \in Seq(RequestUnit) /\ Len(rest) = Len(requests) - m
      /\ \A i \in 1..(Len(requests) - m) : rest[i] = requests[m + i]
    <2>1. IsOneRead(RequestUnit, in, requests, length)
        BY ONLY <1>2, <1>5, OneRead
    <2> QED
        BY ONLY <1>5, <2>1 DEF IsOneRead
<1> HIDE DEF m
<1>7. /\ requests' = rest /\ replies' = replies /\ answer' = answer
      /\ should_quit' = should_quit /\ starts' = starts
      /\ performed' = performed /\ disturbed' = disturbed
    BY DEF ReadRequest, length, seen
<1>8. \/ in' = <<>> /\ pc' = "loop"
      \/ HeaderRead(in) /\ Len(got) = length /\ in' = got /\ pc' = "handle"
      \/ ~HeaderRead(in) /\ in' = got /\ pc' = "read"
    <2>1. Len(got) \in Nat /\ Len(in) \in Nat
        BY <1>2, <1>6
    <2> QED
        BY <1>3, <2>1 DEF ReadRequest, length
<1> HIDE DEF got, rest
<1>9. /\ <<>> \in Seq(RequestUnit) /\ Len(<<>>) = 0 /\ DOMAIN <<>> = {}
    BY Empty
<1>10. in' \in Seq(RequestUnit) /\ in' \in {<<>>, got} /\ pc' \in {"loop", "read", "handle"}
    BY <1>6, <1>8, <1>9
<1>11. HalfRead'
    <2>1. pc' = "handle" => Len(in') = HeaderLen + 1
        BY <1>4, <1>8
    <2>2. pc' = "read" => Len(in') <= HeaderLen
        <3>1. ~HeaderRead(in) => Len(got) <= HeaderLen
            BY <1>4, <1>6
        <3> QED
            BY <1>8, <3>1
    <2> QED
        BY <1>6, <1>7, <1>8, <1>10, <2>1, <2>2 DEF HalfRead
<1>12. TypeOK'
    <2>1. \A u \in RequestUnit : u \in Unit
        BY DEF RequestUnit
    <2>2. requests' \in Seq(Unit) /\ in' \in Seq(Unit)
        BY <1>6, <1>7, <1>10, <2>1, SeqMonotonic
    <2> QED
        BY <1>1, <1>7, <1>10, <2>2, DaemonSide DEF Typed, TypeOK, Statuses
<1>13. Unheard'
    <2>1. \A i \in DOMAIN rest : client'[rest[i].msg.client] \notin Unsent
        <3>1. DOMAIN rest = 1..(Len(requests) - m)
            BY <1>6, LenProperties
        <3>2. \A i \in 1..(Len(requests) - m) : m + i \in DOMAIN requests
            BY <1>2, <1>6
        <3>3. \A i \in DOMAIN rest : m + i \in DOMAIN requests /\ rest[i] = requests[m + i]
            BY <1>6, <3>1, <3>2
        <3> QED
            BY <1>1, <3>3, SameUnits
    <2>2. \A i \in DOMAIN got : client'[got[i].msg.client] \notin Unsent
        <3>1. DOMAIN got = 1..(Len(in) + m)
            BY <1>6, LenProperties
        <3>2. \A i \in 1..(Len(in) + m) :
                  \/ i \in 1..Len(in)
                  \/ i - Len(in) \in 1..m /\ i = Len(in) + (i - Len(in))
            BY <1>2, <1>6
        <3>3. \A i \in 1..m : i \in DOMAIN requests
            BY <1>2, <1>6
        <3>4. ASSUME NEW i \in DOMAIN got
              PROVE  \/ \E j \in DOMAIN in : got[i] = in[j]
                     \/ \E j \in DOMAIN requests : got[i] = requests[j]
            <4>1. CASE i \in 1..Len(in)
                BY <1>2, <1>6, <4>1
            <4>2. CASE i - Len(in) \in 1..m /\ i = Len(in) + (i - Len(in))
                <5>1. PICK j \in 1..m : i = Len(in) + j
                    BY <4>2
                <5> QED
                    BY <1>6, <3>3, <5>1
            <4> QED
                BY <3>1, <3>2, <4>1, <4>2
        <3> QED
            BY <1>1, <3>4, SameUnits
    <2> QED
        BY <1>1, <1>7, <1>9, <1>10, <2>1, <2>2, UnheardKept
<1> QED
    BY <1>1, <1>11, <1>12, <1>13, DaemonSide DEF Typed

LEMMA ReplyTyped ==
    ASSUME Typed, ReplyHeader \/ ReplyPayload
    PROVE  Typed'
<1>1. [Next]_vars /\ Serve
    BY DEF Next, Serve
<1>2. /\ requests' = requests /\ in' = in /\ starts' = starts /\ should_quit' = should_quit
      /\ performed' = performed /\ disturbed' = disturbed
    BY DEF ReplyHeader, ReplyPayload, seen
<1>3. pc \in {"reply", "payload"} /\ Len(in) = HeaderLen + 1 /\ answer \in ReplyKinds
    BY DEF ReplyHeader, ReplyPayload, Typed, HalfRead
<1>4. Reply \in Message
    <2>1. HeaderRead(in)
        BY <1>3 DEF HeaderRead, HeaderLen
    <2> QED
        BY <1>3, <2>1, RequestRead DEF Reply, Message
<1>5. PICK units \in {HeaderOf(Reply), PayloadOf(Reply)}, next \in {"payload", "next"} :
          WriteReply(units, next)
    BY DEF ReplyHeader, ReplyPayload
<1>6. units \in Seq(Unit) /\ Len(units) \in Nat
    BY <1>4, MessageUnits, LenProperties
<1>7. /\ pc' \in {"payload", "next", "reply"} /\ answer' \in ReplyKinds
      /\ \/ replies' = replies
         \/ replies' = replies \o units /\ Len(replies) + Len(units) <= ReplyCapacity
    BY <1>3, <1>5 DEF WriteReply, ReplyFails, Fits, ReplyKinds
<1>8. replies' \in Seq(Unit) /\ Len(replies') <= ReplyCapacity
    <2>1. replies \in Seq(Unit) /\ Len(replies) <= ReplyCapacity
        BY DEF Typed, TypeOK
    <2>2. replies \o units \in Seq(Unit) /\ Len(replies \o units) = Len(replies) + Len(units)
        BY <1>6, <2>1, Joined DEF IsJoined
    <2> QED
        BY <1>7, <2>1, <2>2
<1>9. TypeOK'
    BY <1>1, <1>2, <1>7, <1>8, DaemonSide DEF Typed, TypeOK, Statuses
<1>10. HalfRead'
    BY <1>2, <1>3, <1>7 DEF Typed, HalfRead
<1>11. Unheard'
    BY <1>1, <1>2, SameUnits, UnheardKept
<1> QED
    BY <1>1, <1>9, <1>10, <1>11, DaemonSide DEF Typed

LEMMA TypedStep == Typed /\ [Next]_vars => Typed'
<1> SUFFICES ASSUME Typed, [Next]_vars PROVE Typed'
    OBVIOUS
<1>1. CASE \E c \in Clients : OpenRequests(c) \/ Exchange(c) \/ Kill(c)
    BY <1>1, ClientTyped
<1>2. CASE Start \/ Signal \/ Ready \/ Poll \/ NextRequest \/ UNCHANGED vars
    BY <1>2, QuietTyped
<1>3. CASE Crash \/ Stop
    BY <1>3, EndsTyped
<1>4. CASE ReadRequest
    BY <1>4, ReadRequestTyped
<1>5. CASE Handle
    BY <1>5, HandleTyped
<1>6. CASE ReplyHeader \/ ReplyPayload
    BY <1>6, ReplyTyped
<1> QED
    BY <1>1, <1>2, <1>3, <1>4, <1>5, <1>6 DEF Next, Serve

LEMMA TypedInit == Init => Typed
<1> SUFFICES ASSUME Init PROVE Typed
    OBVIOUS
<1>1. /\ <<>> \in Seq(Unit) /\ <<>> \in Seq(RequestUnit) /\ Len(<<>>) = 0
      /\ DOMAIN <<>> = {} /\ ReplyCapacity \in Nat
    BY Empty, PipesAssumption
<1>2. TypeOK
    <2>1. /\ client \in [Clients -> {"idle"}] /\ kind \in [Clients -> {"DATA"}]
          /\ heard \in [Clients -> {<<>>}]
        BY DEF Init
    <2>2. /\ client \in [Clients -> {"idle", "opened", "connected", "half", "waiting"} \cup Ended]
          /\ kind \in [Clients -> RequestKinds] /\ heard \in [Clients -> Seq(Unit)]
        BY <1>1, <2>1 DEF RequestKinds
    <2>3. requests \in Seq(Unit) /\ replies \in Seq(Unit) /\ in \in Seq(Unit)
        BY <1>1 DEF Init
    <2>4. Len(replies) <= ReplyCapacity
        BY <1>1 DEF Init
    <2>5. /\ pc \in {"down", "opening", "loop", "read", "handle", "reply", "payload", "next"}
          /\ answer \in ReplyKinds \cup {"NONE"} /\ should_quit \in BOOLEAN /\ starts \in Nat
          /\ kills \in Nat /\ performed \subseteq Clients \X Clients /\ disturbed \in BOOLEAN
        BY DEF Init
    <2> QED
        BY <2>2, <2>3, <2>4, <2>5 DEF TypeOK
<1>3. HalfRead
    BY <1>1 DEF Init, HalfRead
<1>4. HalfHeard
    BY DEF Init, HalfHeard
<1>5. Unheard
    BY <1>1 DEF Init, Unheard
<1> QED
    BY <1>2, <1>3, <1>4, <1>5 DEF Typed

(* Whatever happens to the clients and to the daemon, no message is more   *)
(* than half read, and the reply FIFO never holds more than it can: every  *)
(* variable stays in its set.                                              *)
THEOREM PipesTypes == Spec => []TypeOK
<1>1. Typed => TypeOK
    BY DEF Typed
<1> QED
    BY <1>1, TypedInit, TypedStep, PTL DEF Spec

-----------------------------------------------------------------------------
(* Pieces of one message                                                   *)

LEMMA FullLengths ==
    ASSUME NEW msg \in Message
    PROVE  /\ Full(msg) \in 3..4 /\ HeaderLen = 2
           /\ msg.kind \in RequestKinds => Full(msg) = 3 /\ PayloadLen(msg.kind) = 1
BY DEF Full, HeaderLen, PayloadLen, RequestKinds

LEMMA SliceEmpty ==
    ASSUME NEW msg, NEW a \in Nat
    PROVE  /\ Slice(<<>>, msg, a, a)
           /\ \A u : Slice(u, msg, a, a) => u = <<>>
<1>1. <<>> \in Seq(Unit) /\ Len(<<>>) = 0
    BY Empty
<1>2. ASSUME NEW u, Slice(u, msg, a, a) PROVE u = <<>>
    <2>1. u \in Seq(Unit) /\ a + Len(u) = a /\ Len(u) \in Nat
        BY <1>2, LenProperties DEF Slice
    <2> QED
        BY <2>1, EmptySeq
<1> QED
    BY <1>1, <1>2 DEF Slice

LEMMA SliceLength ==
    ASSUME NEW msg, NEW u, NEW a \in Nat, NEW b \in Nat, Slice(u, msg, a, b)
    PROVE  /\ u \in Seq(Unit) /\ Len(u) \in Nat /\ Len(u) = b - a /\ a <= b
           /\ u = <<>> <=> a = b
<1>1. u \in Seq(Unit) /\ Len(u) \in Nat /\ Len(u) = b - a /\ a <= b
    BY LenProperties DEF Slice
<1>2. u = <<>> <=> Len(u) = 0
    BY <1>1, EmptySeq
<1> QED
    BY <1>1, <1>2

LEMMA SliceJoin ==
    ASSUME NEW msg, NEW u, NEW w, NEW a \in Nat, NEW b \in Nat, NEW d \in Nat,
           Slice(u, msg, a, b), Slice(w, msg, b, d)
    PROVE  Slice(u \o w, msg, a, d)
<1>1. /\ u \in Seq(Unit) /\ w \in Seq(Unit) /\ a + Len(u) = b /\ b + Len(w) = d
      /\ \A i \in 1..Len(u) : u[i] = UnitAt(msg, a + i)
      /\ \A i \in 1..Len(w) : w[i] = UnitAt(msg, b + i)
    BY DEF Slice
<1>2. /\ u \o w \in Seq(Unit) /\ Len(u \o w) = Len(u) + Len(w)
      /\ Len(u) \in Nat /\ Len(w) \in Nat
      /\ \A i \in 1..(Len(u) + Len(w)) :
             \/ i \in 1..Len(u) /\ (u \o w)[i] = u[i]
             \/ \E j \in 1..Len(w) : i = Len(u) + j /\ (u \o w)[i] = w[j]
    <2>1. IsJoined(Unit, u, w)
        BY <1>1, Joined
    <2> QED
        BY <2>1 DEF IsJoined
<1>3. ASSUME NEW j \in 1..Len(w) PROVE a + (Len(u) + j) = b + j
    <2>1. PICK n \in Nat : n = Len(u)
        BY <1>2
    <2>2. a + n = b /\ j \in Nat
        BY <1>1, <1>2, <2>1
    <2>3. a + (n + j) = b + j
        BY <2>2
    <2> QED
        BY <2>1, <2>3
<1>4. ASSUME NEW i \in 1..(Len(u) + Len(w)) PROVE (u \o w)[i] = UnitAt(msg, a + i)
    <2>1. CASE i \in 1..Len(u) /\ (u \o w)[i] = u[i]
        BY <1>1, <2>1
    <2>2. CASE \E j \in 1..Len(w) : i = Len(u) + j /\ (u \o w)[i] = w[j]
        <3>1. PICK j \in 1..Len(w) : i = Len(u) + j /\ (u \o w)[i] = w[j]
            BY <2>2
        <3>2. a + i = b + j
            BY <1>3, <3>1
        <3>3. w[j] = UnitAt(msg, b + j)
            BY <1>1
        <3> QED
            BY <3>1, <3>2, <3>3
    <2> QED
        BY <1>2, <2>1, <2>2
<1>5. a + Len(u \o w) = d
    <2>1. PICK n \in Nat, k \in Nat : n = Len(u) /\ k = Len(w)
        BY <1>2
    <2>2. a + n = b /\ b + k = d /\ Len(u \o w) = n + k
        BY <1>1, <1>2, <2>1
    <2>3. a + (n + k) = d
        BY <2>2
    <2> QED
        BY <2>2, <2>3
<1> QED
    BY <1>2, <1>4, <1>5 DEF Slice

LEMMA SliceOfMessage ==
    ASSUME NEW msg \in Message
    PROVE  Slice(HeaderOf(msg), msg, 0, HeaderLen) /\ Slice(PayloadOf(msg), msg, HeaderLen, Full(msg))
<1>1. HeaderLen = 2 /\ Full(msg) = HeaderLen + PayloadLen(msg.kind)
    BY DEF HeaderLen, Full
<1>2. \A i \in 1..HeaderLen : 0 + i = i
    BY <1>1
<1> QED
    BY <1>1, <1>2, MessageUnits DEF Slice

(* Reading goes on where it stopped.                                       *)
LEMMA SliceRead ==
    ASSUME NEW msg, NEW buffer, NEW fifo, NEW r \in Nat, NEW w \in Nat, NEW length \in Nat,
           Slice(buffer, msg, 0, r), Slice(fifo, msg, r, w), r <= length
    PROVE  \E t \in Nat :
               /\ \/ t = w /\ w <= length
                  \/ t = length /\ length < w
               /\ Slice(ReadInto(buffer, fifo, length), msg, 0, t)
               /\ Slice(Unread(buffer, fifo, length), msg, t, w)
<1> DEFINE m == Taken(buffer, fifo, length)
           got == ReadInto(buffer, fifo, length)
           rest == Unread(buffer, fifo, length)
<1>1. /\ buffer \in Seq(Unit) /\ fifo \in Seq(Unit) /\ Len(buffer) = r /\ Len(fifo) = w - r
      /\ \A i \in 1..r : buffer[i] = UnitAt(msg, 0 + i)
      /\ \A i \in 1..(w - r) : fifo[i] = UnitAt(msg, r + i)
      /\ Len(fifo) \in Nat
    BY SliceLength DEF Slice
<1>2. IsOneRead(Unit, buffer, fifo, length)
    BY <1>1, OneRead
<1>3. /\ m \in Nat /\ \/ m = w - r /\ r + m <= length
                      \/ m < w - r /\ r + m = length
      /\ got \in Seq(Unit) /\ Len(got) = r + m
      /\ \A i \in 1..r : got[i] = buffer[i]
      /\ \A i \in 1..m : got[r + i] = fifo[i]
      /\ rest \in Seq(Unit) /\ Len(rest) = (w - r) - m
      /\ \A i \in 1..((w - r) - m) : rest[i] = fifo[m + i]
    BY ONLY <1>1, <1>2 DEF IsOneRead
<1> HIDE DEF m, got, rest
<1>4. \/ r + m = w /\ w <= length
      \/ r + m = length /\ length < w
    BY <1>1, <1>3, SMTT(20)
<1>5. Slice(got, msg, 0, r + m)
    <2>1. \A i \in 1..(r + m) : i \in 1..r \/ \E j \in 1..m : i = r + j
        <3>1. \A i \in 1..(r + m) : i \in 1..r \/ (i - r \in 1..m /\ i = r + (i - r))
            BY <1>3
        <3> QED
            BY <3>1
    <2>2. \A j \in 1..m : j \in 1..(w - r) /\ r + j = 0 + (r + j)
        BY <1>1, <1>3
    <2>3. \A i \in 1..r : got[i] = UnitAt(msg, 0 + i)
        BY <1>1, <1>3
    <2>4. \A j \in 1..m : got[r + j] = UnitAt(msg, 0 + (r + j))
        <3> TAKE j \in 1..m
        <3>1. j \in 1..(w - r) /\ r + j = 0 + (r + j)
            BY <2>2
        <3>2. got[r + j] = fifo[j]
            BY <1>3
        <3>3. fifo[j] = UnitAt(msg, r + j)
            BY <1>1, <3>1
        <3> QED
            BY ONLY <3>1, <3>2, <3>3
    <2>5. \A i \in 1..(r + m) : got[i] = UnitAt(msg, 0 + i)
        BY ONLY <2>1, <2>3, <2>4
    <2> QED
        BY <1>3, <2>5 DEF Slice
<1>6. Slice(rest, msg, r + m, w)
    <2>1. \A i \in 1..((w - r) - m) : m + i \in 1..(w - r) /\ r + (m + i) = (r + m) + i
        BY <1>1, <1>3, SMTT(30)
    <2>2. \A i \in 1..((w - r) - m) : rest[i] = UnitAt(msg, (r + m) + i)
        <3> TAKE i \in 1..((w - r) - m)
        <3>1. rest[i] = fifo[m + i] /\ fifo[m + i] = UnitAt(msg, r + (m + i))
            BY <1>1, <1>3, <2>1
        <3>2. r + (m + i) = (r + m) + i
            BY <2>1
        <3> QED
            BY <3>1, <3>2
    <2>3. (r + m) + Len(rest) = w
        BY <1>3
    <2> QED
        BY <1>3, <2>2, <2>3 DEF Slice
<1> QED
    BY <1>3, <1>4, <1>5, <1>6 DEF got, rest

(* The start of a message is recognised, and tells what the message is.    *)
LEMMA SliceTells ==
    ASSUME NEW msg, NEW u, NEW b \in Nat, Slice(u, msg, 0, b), b >= HeaderLen
    PROVE  /\ Valid(u) /\ HeaderRead(u) /\ u[HeaderLen].msg = msg
           /\ Expected(u) = HeaderLen + PayloadLen(msg.kind)
           /\ b > HeaderLen => u[HeaderLen + 1] = UnitAt(msg, HeaderLen + 1)
<1>1. /\ HeaderLen = 2 /\ Len(u) = b
      /\ \A i \in 1..Len(u) : u[i] = UnitAt(msg, 0 + i)
    BY SliceLength DEF Slice, HeaderLen
<1>2. u[1] = UnitAt(msg, 1) /\ u[2] = UnitAt(msg, 2)
    BY <1>1
<1>3. b > 2 => u[3] = UnitAt(msg, 3)
    BY <1>1
<1>4. /\ u[1] = [part |-> "header", i |-> 1, msg |-> msg]
      /\ u[2] = [part |-> "header", i |-> 2, msg |-> msg]
    BY <1>1, <1>2 DEF UnitAt
<1> QED
    BY <1>1, <1>3, <1>4 DEF Valid, HeaderRead, Expected

-----------------------------------------------------------------------------
(* What holds as long as the exchange is not disturbed                     *)

LEMMA LiveSame ==
    ASSUME client' = client
    PROVE  Live' = Live /\ Listening' = Listening
BY DEF Live, Listening

LEMMA LiveStep ==
    ASSUME Typed, NEW c \in Clients, NEW v \in Statuses, client' = [client EXCEPT ![c] = v]
    PROVE  /\ client'[c] = v /\ \A x \in Clients : x # c => client'[x] = client[x]
           /\ v \in {"idle"} \cup Ended => Live' = Live \ {c}
           /\ v \notin {"idle"} \cup Ended => Live' = Live \cup {c}
<1>1. client'[c] = v /\ \A x \in Clients : x # c => client'[x] = client[x]
    BY DEF Typed, TypeOK
<1> QED
    BY <1>1 DEF Live

LEMMA Alone ==
    ASSUME Undisturbed, NEW c \in Live
    PROVE  c \in Clients /\ Live = {c} /\ (Asking(c) \/ Answered(c))
BY DEF Undisturbed, AllQuiet

(* When everybody has left, nothing is left in the FIFOs.                  *)
LEMMA EverybodyLeft ==
    ASSUME Closed, Deserted'
    PROVE  Undisturbed'
BY DEF Closed, Deserted, RepliesOpen, Listening, Undisturbed, AllQuiet

LEMMA NotDisturbed ==
    ASSUME NEW event, Disturbs(event), ~disturbed'
    PROVE  Deserted' \/ (~disturbed /\ ~event)
BY DEF Disturbs

(* A client that has written nothing has had nothing performed.            *)
LEMMA UnsentNothing ==
    ASSUME Typed, NEW c \in Clients, client[c] \in Unsent
    PROVE  NotPerformed(c)
BY DEF Typed, Unheard, NotPerformed

LEMMA NothingSent ==
    ASSUME NEW c \in Clients, Asking(c), pc \in {"loop", "next"}, Sent(c) = 0
    PROVE  requests = <<>>
<1>1. Slice(requests, Request(c, kind[c]), 0, 0)
    BY DEF Asking
<1> QED
    BY <1>1, SliceEmpty

LEMMA OpenRequestsStep ==
    ASSUME Typed, Typed', ~disturbed => Undisturbed, ~disturbed',
           NEW c \in Clients, OpenRequests(c)
    PROVE  Undisturbed'
<1>1. /\ client[c] = "idle" /\ RequestsOpen /\ client' = [client EXCEPT ![c] = "opened"]
      /\ UNCHANGED <<requests, replies, pc, in, heard, performed>>
    BY DEF OpenRequests, fifos, daemon
<1>2. client'[c] = "opened" /\ Live' = Live \cup {c}
    BY <1>1, LiveStep DEF Statuses, Ended
<1>3. Live = {} /\ pc # "opening" /\ ~disturbed
    <2>1. ~Deserted'
        BY <1>2 DEF Deserted
    <2> QED
        BY <2>1, NotDisturbed DEF OpenRequests
<1>4. requests = <<>> /\ replies = <<>> /\ pc \in {"loop", "next"}
    BY <1>1, <1>3 DEF Undisturbed, AllQuiet, RequestsOpen
<1>5. heard[c] = <<>> /\ NotPerformed(c)
    BY <1>1, UnsentNothing DEF Typed, HalfHeard, Unsent
<1>6. Sent(c)' = 0
    BY <1>2 DEF Sent
<1>7. Slice(requests, Request(c, kind[c]), 0, Sent(c))'
    <2>1. Slice(<<>>, Request(c, kind'[c]), 0, 0)
        BY SliceEmpty
    <2> QED
        BY <1>1, <1>4, <1>6, <2>1
<1>8. Asking(c)'
    BY <1>1, <1>4, <1>5, <1>7 DEF Asking, NotPerformed
<1> QED
    BY <1>2, <1>3, <1>8 DEF Undisturbed

LEMMA OpenRepliesStep ==
    ASSUME Typed, Typed', ~disturbed => Undisturbed, ~disturbed',
           NEW c \in Clients, OpenReplies(c)
    PROVE  Undisturbed'
<1>1. /\ client[c] = "opened" /\ client' = [client EXCEPT ![c] = "connected"]
      /\ UNCHANGED <<requests, replies, pc, in, kind, heard, performed, disturbed>>
    BY DEF OpenReplies, fifos, daemon, seen
<1>2. client'[c] = "connected" /\ Live' = Live \cup {c} /\ c \in Live
    BY <1>1, LiveStep DEF Statuses, Ended, Live
<1>3. Live = {c} /\ Asking(c)
    BY <1>1, <1>2, Alone DEF Answered
<1>4. Sent(c) = 0 /\ Sent(c)' = 0
    BY <1>1, <1>2 DEF Sent
<1>5. Asking(c)'
    BY <1>1, <1>3, <1>4 DEF Asking, NotPerformed
<1> QED
    BY <1>2, <1>3, <1>5 DEF Undisturbed

(* A write for which there is no reader is the end of the exchange.        *)
LEMMA FailedWrite ==
    ASSUME Typed, NEW c \in Clients, Live = {c}, pc' = pc, pc = "down",
           client' = [client EXCEPT ![c] = "failed"], Closed
    PROVE  Undisturbed'
<1>1. Live' = {}
    BY LiveStep DEF Statuses, Ended
<1> QED
    BY <1>1, EverybodyLeft DEF Deserted

LEMMA WriteHeaderStep ==
    ASSUME Typed, Typed', ~disturbed => Undisturbed, ~disturbed',
           NEW c \in Clients, WriteHeader(c)
    PROVE  Undisturbed'
<1>1. PICK k \in RequestKinds : /\ kind' = [kind EXCEPT ![c] = k]
                                /\ Write(c, HeaderOf(Request(c, k)), "half")
    BY DEF WriteHeader
<1>2. client[c] = "connected" /\ c \in Live /\ pc' = pc /\ in' = in /\ performed' = performed
    BY <1>1 DEF WriteHeader, Write, daemon, Live, Ended
<1>3. CASE ~RequestsOpen
    <2>1. pc = "down" /\ client' = [client EXCEPT ![c] = "failed"] /\ Closed
        BY <1>1, <1>3 DEF Write, RequestsOpen
    <2>2. CASE Deserted'
        BY <2>1, <2>2, EverybodyLeft
    <2>3. CASE ~disturbed
        BY <1>2, <2>1, <2>3, Alone, FailedWrite
    <2> QED
        BY <1>1, <1>3, <2>2, <2>3, NotDisturbed DEF Write
<1>4. CASE RequestsOpen
    <2>1. /\ client' = [client EXCEPT ![c] = "half"] /\ replies' = replies /\ heard' = heard
          /\ requests' = requests \o HeaderOf(Request(c, k)) /\ disturbed' = disturbed
        BY <1>1, <1>4 DEF Write
    <2>2. client'[c] = "half" /\ Live' = Live \cup {c}
        <3>1. client' = [client EXCEPT ![c] = "half"]
            BY <2>1
        <3>2. "half" \in Statuses /\ "half" \notin {"idle"} \cup Ended
            BY DEF Statuses, Ended
        <3> QED
            BY <3>1, <3>2, LiveStep
    <2>3. Live = {c} /\ Asking(c) /\ Undisturbed
        BY <1>2, <2>1, Alone DEF Answered
    <2>4. Sent(c) = 0 /\ Sent(c)' = HeaderLen /\ kind'[c] = k /\ HeaderLen \in Nat
        BY <1>1, <1>2, <2>2 DEF Sent, HeaderLen, Typed, TypeOK
    <2>5. pc \in {"loop", "next"} /\ requests = <<>>
        <3>1. pc \in {"loop", "next"}
            BY <1>2, <1>4, <2>3 DEF Asking, RequestsOpen
        <3> QED
            BY <2>3, <2>4, <3>1, NothingSent
    <2>6. Slice(requests, Request(c, kind[c]), 0, Sent(c))'
        <3>1. Request(c, k) \in Message
            BY RequestUnits
        <3>2. /\ Slice(<<>>, Request(c, k), 0, 0)
              /\ Slice(HeaderOf(Request(c, k)), Request(c, k), 0, HeaderLen)
            BY <3>1, SliceEmpty, SliceOfMessage
        <3>3. Slice(<<>> \o HeaderOf(Request(c, k)), Request(c, k), 0, HeaderLen)
            BY <2>4, <3>2, SliceJoin
        <3> QED
            BY <2>1, <2>4, <2>5, <3>3
    <2>7. Asking(c)'
        BY <1>2, <2>1, <2>3, <2>5, <2>6 DEF Asking, NotPerformed
    <2> QED
        BY <2>2, <2>3, <2>7 DEF Undisturbed
<1> QED
    BY <1>3, <1>4

LEMMA WritePayloadStep ==
    ASSUME Typed, Typed', ~disturbed => Undisturbed, ~disturbed',
           NEW c \in Clients, WritePayload(c)
    PROVE  Undisturbed'
<1> DEFINE msg == Request(c, kind[c])
<1>1. /\ client[c] = "half" /\ kind' = kind
      /\ Write(c, PayloadOf(msg), "waiting")
    BY DEF WritePayload
<1>2. c \in Live /\ pc' = pc /\ in' = in /\ performed' = performed
    BY <1>1 DEF Write, daemon, Live, Ended
<1>3. CASE ~RequestsOpen
    <2>1. pc = "down" /\ client' = [client EXCEPT ![c] = "failed"] /\ Closed
        BY <1>1, <1>3 DEF Write, RequestsOpen
    <2>2. CASE Deserted'
        BY <2>1, <2>2, EverybodyLeft
    <2>3. CASE ~disturbed
        BY <1>2, <2>1, <2>3, Alone, FailedWrite
    <2> QED
        BY <1>1, <1>3, <2>2, <2>3, NotDisturbed DEF Write
<1>4. CASE RequestsOpen
    <2>1. /\ client' = [client EXCEPT ![c] = "waiting"] /\ replies' = replies /\ heard' = heard
          /\ requests' = requests \o PayloadOf(msg) /\ disturbed' = disturbed
        BY <1>1, <1>4 DEF Write
    <2>2. client'[c] = "waiting" /\ Live' = Live \cup {c}
        <3>1. client' = [client EXCEPT ![c] = "waiting"]
            BY <2>1
        <3>2. "waiting" \in Statuses /\ "waiting" \notin {"idle"} \cup Ended
            BY DEF Statuses, Ended
        <3> QED
            BY <3>1, <3>2, LiveStep
    <2>3. Live = {c} /\ Asking(c) /\ Undisturbed
        BY <1>1, <1>2, <2>1, Alone DEF Answered
    <2>4. /\ Sent(c) = HeaderLen /\ Sent(c)' = HeaderLen + 1 /\ HeaderLen \in Nat
          /\ HeaderLen + 1 \in Nat
        BY <1>1, <2>2 DEF Sent, HeaderLen
    <2>5. msg \in Message /\ msg.kind \in RequestKinds
        BY RequestUnits DEF Typed, TypeOK, Request
    <2>6. Slice(PayloadOf(msg), msg, HeaderLen, HeaderLen + 1)
        BY <2>4, <2>5, FullLengths, SliceOfMessage
    <2>7. ASSUME NEW n \in Nat, Slice(requests, msg, n, HeaderLen)
          PROVE  Slice(requests', msg, n, HeaderLen + 1)
        BY <2>1, <2>4, <2>6, <2>7, SliceJoin
    <2>8. pc \in {"loop", "next"} => Slice(requests, Request(c, kind[c]), 0, Sent(c))'
        <3>1. ASSUME pc \in {"loop", "next"} PROVE Slice(requests, msg, 0, HeaderLen)
            BY <2>3, <2>4, <3>1 DEF Asking
        <3> QED
            BY <1>1, <2>4, <2>7, <3>1
    <2>9. pc = "read" =>
              \E n \in {0, HeaderLen} :
                  (Slice(in, Request(c, kind[c]), 0, n)
                      /\ Slice(requests, Request(c, kind[c]), n, Sent(c)))'
        <3> HAVE pc = "read"
        <3>1. PICK n \in {0, HeaderLen} : Slice(in, msg, 0, n) /\ Slice(requests, msg, n, HeaderLen)
            BY <2>3, <2>4 DEF Asking
        <3>2. Slice(in', msg, 0, n) /\ Slice(requests', msg, n, HeaderLen + 1)
            BY <1>2, <2>4, <2>7, <3>1
        <3> QED
            BY <1>1, <2>4, <3>2
    <2>10. pc # "handle"
        BY <1>1, <2>3 DEF Asking
    <2>11. Asking(c)'
        BY <1>1, <1>2, <2>1, <2>2, <2>3, <2>8, <2>9, <2>10 DEF Asking, NotPerformed
    <2> QED
        BY <2>2, <2>3, <2>11 DEF Undisturbed
<1> QED
    BY <1>3, <1>4

LEMMA ReadEndStep ==
    ASSUME Typed, Typed', ~disturbed => Undisturbed, ~disturbed',
           NEW c \in Clients, ReadEnd(c)
    PROVE  Undisturbed'
BY NotDisturbed, EverybodyLeft DEF ReadEnd

LEMMA KillStep ==
    ASSUME Typed, Typed', ~disturbed => Undisturbed, ~disturbed',
           NEW c \in Clients, Kill(c)
    PROVE  Undisturbed'
<1>1. CASE Deserted'
    BY <1>1, EverybodyLeft DEF Kill
<1>2. CASE ~disturbed /\ client[c] \notin {"half", "waiting"}
    <2>1. /\ c \in Live /\ client' = [client EXCEPT ![c] = "killed"] /\ pc' = pc
          /\ requests' \in {<<>>, requests} /\ replies' \in {<<>>, replies}
        BY ClosedKeeps DEF Kill, EndsAs, daemon
    <2>2. Live = {c} /\ Asking(c)
        BY <1>2, <2>1, Alone DEF Answered
    <2>3. Live' = {}
        BY <2>1, <2>2, LiveStep DEF Statuses, Ended
    <2>4. CASE pc = "down"
        BY <1>1, <2>1, <2>3, <2>4 DEF Deserted
    <2>5. CASE pc # "down"
        <3>1. pc \in {"loop", "next"} /\ replies = <<>>
            BY <1>2, <2>2, <2>5 DEF Asking
        <3>2. Sent(c) = 0
            BY <1>2 DEF Sent
        <3>3. requests = <<>>
            BY <2>2, <3>1, <3>2, NothingSent
        <3> QED
            BY <2>1, <2>3, <3>1, <3>3 DEF Undisturbed, AllQuiet
    <2> QED
        BY <2>4, <2>5
<1> QED
    BY <1>1, <1>2, NotDisturbed DEF Kill

(* How much of a reply a client asks for.                                  *)
LEMMA WantedOfReply ==
    ASSUME NEW c \in Clients, NEW msg \in Message, NEW read \in Nat,
           Slice(heard[c], msg, 0, read)
    PROVE  /\ HeaderRead(heard[c]) <=> read >= HeaderLen
           /\ Wanted(c) = IF read >= HeaderLen THEN Full(msg) ELSE HeaderLen
<1>1. Len(heard[c]) = read /\ HeaderLen \in Nat
    BY SliceLength DEF HeaderLen
<1>2. HeaderRead(heard[c]) <=> read >= HeaderLen
    BY <1>1 DEF HeaderRead
<1>3. read >= HeaderLen => Expected(heard[c]) = Full(msg)
    BY <1>1, SliceTells DEF Full
<1> QED
    BY <1>2, <1>3 DEF Wanted

LEMMA ReadReplyStep ==
    ASSUME Typed, Typed', ~disturbed => Undisturbed, ~disturbed',
           NEW c \in Clients, ReadReply(c)
    PROVE  Undisturbed'
<1> DEFINE got  == ReadInto(heard[c], replies, Wanted(c))
           rest == Unread(heard[c], replies, Wanted(c))
<1>1. /\ client[c] = "waiting" /\ replies # <<>> /\ c \in Live
      /\ pc' = pc /\ in' = in /\ answer' = answer /\ performed' = performed
      /\ requests' = IF Deserted' THEN <<>> ELSE requests
      /\ replies' = IF RepliesOpen \/ Listening' # {} THEN rest ELSE <<>>
      /\ Disturbs(client'[c] = "failed")
    BY DEF ReadReply, Live, Ended, daemon
<1>2. CASE Deserted'
    BY <1>1, <1>2 DEF Deserted, RepliesOpen, Listening, Undisturbed, AllQuiet
<1>3. CASE ~Deserted'
    <2>1. ~disturbed /\ client'[c] # "failed"
        BY <1>1, <1>3, NotDisturbed
    <2>2. Live = {c} /\ Answered(c)
        BY <1>1, <2>1, Alone DEF Asking
    <2>3. PICK k \in ReplyKinds :
              LET msg == [client |-> c, kind |-> k] IN
              /\ IF k = "ERROR" THEN NotPerformed(c) ELSE <<c, c>> \in performed
              /\ pc \in {"down", "reply", "payload", "next", "loop"}
              /\ pc # "down" => requests = <<>>
              /\ pc \in {"reply", "payload"} => Asked.client = c /\ answer = k
              /\ \E read \in 0..Full(msg), written \in {0, HeaderLen, Full(msg)} :
                     /\ Slice(heard[c], msg, 0, read)
                     /\ Slice(replies, msg, read, written)
                     /\ pc = "reply" => written = 0
                     /\ pc = "payload" => written = HeaderLen
                     /\ pc \in {"next", "loop"} => written = Full(msg)
        BY <2>2 DEF Answered
    <2> DEFINE msg == [client |-> c, kind |-> k]
    <2>4. PICK read \in 0..Full(msg), written \in {0, HeaderLen, Full(msg)} :
              /\ Slice(heard[c], msg, 0, read)
              /\ Slice(replies, msg, read, written)
              /\ pc = "reply" => written = 0
              /\ pc = "payload" => written = HeaderLen
              /\ pc \in {"next", "loop"} => written = Full(msg)
        BY <2>3
    <2>5. msg \in Message /\ msg.kind = k
        BY DEF Message
    <2> HIDE DEF msg
    <2>6. HeaderLen = 2 /\ Full(msg) \in 3..4 /\ read \in Nat /\ written \in Nat
        BY <2>4, <2>5, FullLengths
    <2>7. /\ HeaderRead(heard[c]) <=> read >= HeaderLen
          /\ Wanted(c) = IF read >= HeaderLen THEN Full(msg) ELSE HeaderLen
        BY <2>4, <2>5, <2>6, WantedOfReply
    <2>8. Wanted(c) \in Nat /\ read <= Wanted(c)
        BY <2>6, <2>7
    <2>9. PICK t \in Nat : /\ \/ t = written /\ written <= Wanted(c)
                              \/ t = Wanted(c) /\ Wanted(c) < written
                           /\ Slice(got, msg, 0, t) /\ Slice(rest, msg, t, written)
        <3> HIDE DEF Wanted
        <3> QED
            BY <2>4, <2>6, <2>8, SliceRead
    <2> HIDE DEF got, rest
    <2>10. t <= written /\ written <= Full(msg) /\ Len(got) = t
        <3>1. t <= written /\ Len(got) = t
            BY <2>6, <2>9, SliceLength
        <3>2. written <= Full(msg)
            BY <2>4, <2>6
        <3> QED
            BY <3>1, <3>2
    <2>11. CASE ReplyComplete(c, got) /\ EndsAs(c, Outcome(got[HeaderLen].msg.kind))
        <3>1. Live' = {}
            <4>1. \A x : Outcome(x) \in Ended
                BY DEF Outcome, Ended
            <4>2. PICK how \in Ended : client' = [client EXCEPT ![c] = how]
                BY <2>11, <4>1 DEF EndsAs
            <4> QED
                BY <2>2, <4>2, LiveStep DEF Statuses
        <3>2. t = Full(msg) /\ written = Full(msg)
            <4>1. read >= HeaderLen /\ t = Wanted(c)
                BY <2>7, <2>10, <2>11 DEF ReplyComplete
            <4> QED
                BY <2>6, <2>7, <2>10, <4>1
        <3>3. rest = <<>> /\ pc \notin {"reply", "payload"}
            <4>1. rest = <<>>
                BY <2>6, <2>9, <3>2, SliceEmpty
            <4>2. written # 0 /\ written # HeaderLen
                BY <2>6, <3>2
            <4> QED
                BY <2>4, <4>1, <4>2
        <3>4. pc # "down"
            BY <1>1, <1>3, <3>1 DEF Deserted
        <3>5. requests' = <<>> /\ replies' = <<>> /\ pc' \in {"next", "loop"}
            BY <1>1, <2>3, <3>3, <3>4
        <3> QED
            BY <3>1, <3>5 DEF Undisturbed, AllQuiet
    <2>12. CASE heard' = [heard EXCEPT ![c] = got] /\ UNCHANGED <<client, kind>>
        <3>1. Live' = {c} /\ Listening' # {} /\ heard'[c] = got /\ client' = client
            BY <1>1, <2>2, <2>12, LiveSame DEF Listening, Typed, TypeOK
        <3>2. replies' = rest /\ requests' = requests
            BY <1>1, <1>3, <3>1
        <3>3. t \in 0..Full(msg)
            BY <2>6, <2>9, <2>10
        <3>4. Slice(heard'[c], msg, 0, t) /\ Slice(replies', msg, t, written)
            BY <2>9, <3>1, <3>2
        <3>5. Asked' = Asked
            BY <1>1 DEF Asked
        <3>6. Answered(c)'
            BY <1>1, <2>3, <2>4, <3>1, <3>2, <3>3, <3>4, <3>5 DEF Answered, NotPerformed, msg
        <3> QED
            BY <3>1, <3>6 DEF Undisturbed
    <2>13. ~EndsAs(c, "failed")
        BY <2>1 DEF EndsAs, Typed, TypeOK
    <2> QED
        BY <2>11, <2>12, <2>13 DEF ReadReply, got
<1> QED
    BY <1>2, <1>3

(* In a step of the daemon the clients stay where they are.                *)
LEMMA SameClients ==
    ASSUME Typed, Start \/ Crash \/ Signal \/ Serve \/ UNCHANGED vars
    PROVE  /\ client' = client /\ kind' = kind /\ heard' = heard
           /\ Live' = Live /\ Listening' = Listening
           /\ \A c \in Clients : Sent(c)' = Sent(c)
<1>1. client' = client /\ kind' = kind /\ heard' = heard
    BY DaemonSide DEF tadmor
<1> QED
    BY <1>1, LiveSame DEF Sent

LEMMA EndsStep ==
    ASSUME Typed, Typed', ~disturbed => Undisturbed, ~disturbed', Crash \/ Stop
    PROVE  Undisturbed'
<1>1. /\ pc' = "down" /\ Closed /\ Disturbs(FALSE) /\ performed' = performed
      /\ requests' \in {<<>>, requests} /\ replies' \in {<<>>, replies}
    BY ClosedKeeps DEF Crash, Stop, Ends
<1>2. /\ client' = client /\ kind' = kind /\ heard' = heard
      /\ Live' = Live /\ Listening' = Listening
    BY SameClients DEF Serve
<1>3. CASE Deserted'
    BY <1>1, <1>3, EverybodyLeft
<1>4. CASE ~disturbed /\ ~Deserted'
    <2>1. PICK c \in Clients : Live = {c} /\ (Asking(c) \/ Answered(c))
        BY <1>1, <1>2, <1>4 DEF Deserted, Undisturbed, AllQuiet
    <2>2. CASE Asking(c)
        <3>1. Asking(c)'
            BY <1>1, <1>2, <2>2 DEF Asking, NotPerformed
        <3> QED
            BY <1>2, <2>1, <3>1 DEF Undisturbed
    <2>3. CASE Answered(c)
        <3>1. replies' = replies
            <4>1. client[c] = "waiting"
                BY <2>3 DEF Answered
            <4>2. c \in Listening
                BY <2>1, <4>1 DEF Listening
            <4> QED
                BY <1>1, <1>2, <4>2 DEF Closed
        <3>2. Answered(c)'
            BY <1>1, <1>2, <2>3, <3>1 DEF Answered, NotPerformed
        <3> QED
            BY <1>2, <2>1, <3>2 DEF Undisturbed
    <2> QED
        BY <2>1, <2>2, <2>3
<1> QED
    BY <1>1, <1>3, <1>4, NotDisturbed

LEMMA StartStep ==
    ASSUME Typed, Typed', ~disturbed => Undisturbed, ~disturbed', Start \/ Ready
    PROVE  Undisturbed'
<1>1. /\ requests' = requests /\ replies' = replies /\ pc' \in {"opening", "loop"}
      /\ Live' = Live
    BY SameClients DEF Start, Ready, Serve, fifos
<1>2. AllQuiet
    <2>1. CASE Start
        <3>1. ~disturbed /\ Live = {}
            BY <2>1, NotDisturbed DEF Start, Deserted
        <3> QED
            BY <3>1 DEF Undisturbed, AllQuiet
    <2>2. CASE Ready
        <3>1. ~disturbed /\ pc = "opening"
            BY <2>2 DEF Ready, seen
        <3> QED
            BY <3>1 DEF Undisturbed, Asking, Answered
    <2> QED
        BY <2>1, <2>2
<1> QED
    BY <1>1, <1>2 DEF Undisturbed, AllQuiet

LEMMA SignalStep ==
    ASSUME Typed, Typed', ~disturbed => Undisturbed, ~disturbed', Signal \/ UNCHANGED vars
    PROVE  Undisturbed'
<1>1. /\ requests' = requests /\ replies' = replies /\ pc' = pc /\ in' = in
      /\ answer' = answer /\ performed' = performed /\ disturbed' = disturbed
    BY DEF Signal, vars, fifos, seen
<1>2. /\ client' = client /\ kind' = kind /\ heard' = heard /\ Live' = Live
      /\ \A c \in Clients : Sent(c)' = Sent(c)
    BY SameClients
<1>3. CASE AllQuiet
    BY <1>1, <1>2, <1>3 DEF Undisturbed, AllQuiet
<1>4. ASSUME NEW c \in Clients, Live = {c}, Asking(c)
      PROVE  Undisturbed'
    <2>1. Asking(c)'
        BY <1>1, <1>2, <1>4 DEF Asking, NotPerformed
    <2> QED
        BY <1>2, <1>4, <2>1 DEF Undisturbed
<1>5. ASSUME NEW c \in Clients, Live = {c}, Answered(c)
      PROVE  Undisturbed'
    <2>1. Asked' = Asked
        BY <1>1 DEF Asked
    <2>2. Answered(c)'
        BY <1>1, <1>2, <1>5, <2>1 DEF Answered, NotPerformed
    <2> QED
        BY <1>2, <1>5, <2>2 DEF Undisturbed
<1> QED
    BY <1>1, <1>3, <1>4, <1>5 DEF Undisturbed

(* The daemon begins to read: what is in the FIFO are the first units of a *)
(* request.                                                                *)
LEMMA BeginsToRead ==
    ASSUME Typed, NEW c \in Clients, Live = {c}, Asking(c), pc \in {"loop", "next"},
           requests # <<>>, pc' = "read", in' = <<>>,
           requests' = requests, replies' = replies, performed' = performed,
           client' = client, kind' = kind, heard' = heard
    PROVE  Asking(c)'
<1> DEFINE msg == Request(c, kind[c])
<1>1. Slice(requests, msg, 0, Sent(c)) /\ Sent(c)' = Sent(c)
    BY DEF Asking, Sent
<1>2. Sent(c) # 0
    BY <1>1, NothingSent
<1>3. client[c] \in {"half", "waiting"}
    BY <1>2 DEF Sent
<1>4. Slice(<<>>, msg, 0, 0)
    BY SliceEmpty
<1>5. \E n \in {0, HeaderLen} :
          (Slice(in, Request(c, kind[c]), 0, n) /\ Slice(requests, Request(c, kind[c]), n, Sent(c)))'
    BY <1>1, <1>4
<1> QED
    BY <1>3, <1>5 DEF Asking, NotPerformed

LEMMA PollStep ==
    ASSUME Typed, Typed', ~disturbed => Undisturbed, ~disturbed', Poll
    PROVE  Undisturbed'
<1>1. /\ requests' = requests /\ replies' = replies /\ in' = in /\ performed' = performed
      /\ disturbed' = disturbed /\ requests # <<>> /\ pc = "loop" /\ pc' = "read"
    BY DEF Poll, fifos, seen
<1>2. client' = client /\ kind' = kind /\ heard' = heard /\ Live' = Live
    BY SameClients DEF Serve
<1>3. in = <<>>
    BY <1>1 DEF Typed, HalfRead
<1>4. PICK c \in Clients : Live = {c} /\ Asking(c)
    BY <1>1 DEF Undisturbed, AllQuiet, Answered
<1>5. Asking(c)'
    BY <1>1, <1>2, <1>3, <1>4, BeginsToRead
<1> QED
    BY <1>2, <1>4, <1>5 DEF Undisturbed

LEMMA NextRequestStep ==
    ASSUME Typed, Typed', ~disturbed => Undisturbed, ~disturbed', NextRequest
    PROVE  Undisturbed'
<1>1. /\ requests' = requests /\ replies' = replies /\ in' = <<>> /\ performed' = performed
      /\ disturbed' = disturbed /\ pc = "next"
      /\ pc' = IF requests # <<>> THEN "read" ELSE "loop"
    BY DEF NextRequest, fifos, seen
<1>2. /\ client' = client /\ kind' = kind /\ heard' = heard /\ Live' = Live
      /\ \A c \in Clients : Sent(c)' = Sent(c)
    BY SameClients DEF Serve
<1>3. CASE AllQuiet
    BY <1>1, <1>2, <1>3 DEF Undisturbed, AllQuiet
<1>4. ASSUME NEW c \in Clients, Live = {c}, Asking(c)
      PROVE  Undisturbed'
    <2>1. CASE requests # <<>>
        <3>1. Asking(c)'
            BY <1>1, <1>2, <1>4, <2>1, BeginsToRead
        <3> QED
            BY <1>2, <1>4, <3>1 DEF Undisturbed
    <2>2. CASE requests = <<>>
        <3>1. Asking(c)'
            BY <1>1, <1>2, <1>4, <2>2 DEF Asking, NotPerformed
        <3> QED
            BY <1>2, <1>4, <3>1 DEF Undisturbed
    <2> QED
        BY <2>1, <2>2
<1>5. ASSUME NEW c \in Clients, Live = {c}, Answered(c)
      PROVE  Undisturbed'
    <2>1. requests = <<>>
        BY <1>1, <1>5 DEF Answered
    <2>2. Answered(c)'
        BY <1>1, <1>2, <1>5, <2>1 DEF Answered, NotPerformed
    <2> QED
        BY <1>2, <1>5, <2>2 DEF Undisturbed
<1> QED
    BY <1>1, <1>3, <1>4, <1>5 DEF Undisturbed

LEMMA ReadRequestStep ==
    ASSUME Typed, Typed', ~disturbed => Undisturbed, ~disturbed', ReadRequest
    PROVE  Undisturbed'
<1> DEFINE length == IF HeaderRead(in) THEN Expected(in) ELSE HeaderLen
           got == ReadInto(in, requests, length)
           rest == Unread(in, requests, length)
<1>1. /\ pc = "read" /\ requests # <<>> /\ requests' = rest /\ replies' = replies
      /\ performed' = performed /\ disturbed' = disturbed
    BY DEF ReadRequest, seen
<1>2. /\ client' = client /\ kind' = kind /\ heard' = heard /\ Live' = Live
      /\ \A c \in Clients : Sent(c)' = Sent(c)
    BY SameClients DEF Serve
<1>3. PICK c \in Clients : Live = {c} /\ Asking(c)
    BY <1>1 DEF Undisturbed, AllQuiet, Answered
<1> DEFINE msg == Request(c, kind[c])
<1>4. PICK n \in {0, HeaderLen} : Slice(in, msg, 0, n) /\ Slice(requests, msg, n, Sent(c))
    BY <1>1, <1>3 DEF Asking
<1>5. msg \in Message /\ PayloadLen(msg.kind) = 1
    <2>1. msg \in Message /\ msg.kind \in RequestKinds
        BY RequestUnits DEF Typed, TypeOK, Request
    <2> QED
        BY <2>1, FullLengths
<1> HIDE DEF msg
<1>6. /\ HeaderLen = 2 /\ client[c] \in {"half", "waiting"}
      /\ Sent(c) = IF client[c] = "half" THEN 2 ELSE 3
    BY <1>1, <1>3 DEF HeaderLen, Asking, Sent
<1>7. /\ HeaderRead(in) <=> n = HeaderLen
      /\ length = IF n = HeaderLen THEN 3 ELSE 2
    <2>1. HeaderRead(in) <=> n = HeaderLen
        BY <1>4, <1>6, SliceLength DEF HeaderRead
    <2>2. n = HeaderLen => Expected(in) = 3
        BY <1>4, <1>5, <1>6, SliceTells
    <2> QED
        BY <1>6, <2>1, <2>2
<1> HIDE DEF length
<1>8. PICK t \in Nat : /\ \/ t = Sent(c) /\ Sent(c) <= length
                          \/ t = length /\ length < Sent(c)
                       /\ Slice(got, msg, 0, t) /\ Slice(rest, msg, t, Sent(c))
    <2>1. n \in Nat /\ Sent(c) \in Nat /\ length \in Nat /\ n <= length
        BY <1>4, <1>6, <1>7
    <2> QED
        BY <1>4, <2>1, SliceRead
<1> HIDE DEF got, rest
<1>9. Len(got) = t /\ t >= HeaderLen
    BY <1>6, <1>7, <1>8, SliceLength
<1>10. Valid(got) /\ HeaderRead(got)
    BY <1>8, <1>9, SliceTells
<1>11. CASE HeaderRead(in) /\ Len(got) = length /\ in' = got /\ pc' = "handle"
    <2>1. t = 3 /\ client[c] = "waiting" /\ Sent(c) = 3
        BY <1>6, <1>7, <1>8, <1>9, <1>11
    <2>2. requests' = <<>>
        BY <1>1, <1>8, <2>1, SliceEmpty
    <2>3. Slice(in', msg, 0, HeaderLen + 1)
        BY <1>6, <1>8, <1>11, <2>1
    <2>4. Asking(c)'
        BY <1>1, <1>2, <1>3, <1>11, <2>1, <2>2, <2>3 DEF Asking, NotPerformed, msg
    <2> QED
        BY <1>2, <1>3, <2>4 DEF Undisturbed
<1>12. CASE ~HeaderRead(in) /\ in' = got /\ pc' = pc
    <2>1. t = HeaderLen
        BY <1>6, <1>7, <1>8, <1>12
    <2>2. Slice(in', msg, 0, HeaderLen) /\ Slice(requests', msg, HeaderLen, Sent(c))
        BY <1>1, <1>8, <1>12, <2>1
    <2>3. Asking(c)'
        BY <1>1, <1>2, <1>3, <1>6, <1>12, <2>2 DEF Asking, NotPerformed, msg
    <2> QED
        BY <1>2, <1>3, <2>3 DEF Undisturbed
<1> QED
    BY <1>10, <1>11, <1>12 DEF ReadRequest, got, length

LEMMA HandleStep ==
    ASSUME Typed, Typed', ~disturbed => Undisturbed, ~disturbed', Handle
    PROVE  Undisturbed'
<1>1. /\ pc = "handle" /\ pc' = "reply" /\ requests' = requests /\ replies' = replies
      /\ in' = in /\ disturbed' = disturbed
    BY DEF Handle, fifos
<1>2. /\ client' = client /\ kind' = kind /\ heard' = heard /\ Live' = Live
    BY SameClients DEF Serve
<1>3. PICK c \in Clients : Live = {c} /\ Asking(c)
    BY <1>1 DEF Undisturbed, AllQuiet, Answered
<1>4. /\ heard[c] = <<>> /\ replies = <<>> /\ requests = <<>> /\ NotPerformed(c)
      /\ client[c] = "waiting" /\ Slice(in, Request(c, kind[c]), 0, HeaderLen + 1)
    BY <1>1, <1>3 DEF Asking
<1>5. /\ Asked = Request(c, kind[c]) /\ Body.part = "payload"
      /\ Body.msg = Request(c, kind[c])
    <2>1. HeaderLen = 2 /\ HeaderLen + 1 \in Nat /\ HeaderLen + 1 >= HeaderLen
        BY DEF HeaderLen
    <2>2. /\ in[HeaderLen].msg = Request(c, kind[c])
          /\ in[HeaderLen + 1] = UnitAt(Request(c, kind[c]), HeaderLen + 1)
        BY <1>4, <2>1, SliceTells
    <2>3. UnitAt(Request(c, kind[c]), HeaderLen + 1)
              = [part |-> "payload", i |-> 1, msg |-> Request(c, kind[c])]
        BY DEF UnitAt, HeaderLen
    <2> QED
        BY <2>2, <2>3 DEF Asked, Body
<1>6. Asked.client = c /\ Body.msg.client = c /\ Asked' = Asked
    BY <1>1, <1>5 DEF Request, Asked
<1>7. PICK k \in ReplyKinds :
          /\ answer' = k
          /\ IF k = "ERROR" THEN NotPerformed(c)' ELSE <<c, c>> \in performed'
    <2>1. CASE answer' = "ERROR" /\ performed' = performed
        BY <1>4, <2>1 DEF NotPerformed, ReplyKinds
    <2>2. CASE /\ answer' = IF Asked.kind = "DATA" THEN "LIST" ELSE "OK"
               /\ performed' = performed \cup {<<Asked.client, Body.msg.client>>}
        <3>1. answer' \in {"LIST", "OK"} /\ <<c, c>> \in performed'
            BY <1>6, <2>2
        <3> QED
            BY <3>1 DEF ReplyKinds
    <2> QED
        BY <2>1, <2>2 DEF Handle
<1> DEFINE msg == [client |-> c, kind |-> k]
<1>8. msg \in Message
    BY DEF Message
<1>9. /\ Slice(heard'[c], msg, 0, 0) /\ Slice(replies', msg, 0, 0)
      /\ 0 \in 0..Full(msg) /\ 0 \in {0, HeaderLen, Full(msg)}
    <2>1. Slice(<<>>, msg, 0, 0)
        BY SliceEmpty
    <2>2. Full(msg) \in 3..4
        BY <1>8, FullLengths
    <2> QED
        BY <1>1, <1>2, <1>4, <2>1, <2>2
<1> HIDE DEF msg
<1>10. \E read \in 0..Full(msg), written \in {0, HeaderLen, Full(msg)} :
           /\ Slice(heard'[c], msg, 0, read) /\ Slice(replies', msg, read, written)
           /\ written = 0
    BY <1>9
<1>11. Answered(c)'
    BY <1>1, <1>2, <1>4, <1>6, <1>7, <1>10 DEF Answered, msg
<1> QED
    BY <1>2, <1>3, <1>11 DEF Undisturbed

(* A part of a reply is added to what has been written of it.              *)
LEMMA ReplyGrows ==
    ASSUME Typed, NEW c \in Clients, Live = {c}, Answered(c), pc \in {"reply", "payload"},
           RoomForOne,
           NEW units, units = IF pc = "reply" THEN HeaderOf(Reply) ELSE PayloadOf(Reply),
           WriteReply(units, IF pc = "reply" THEN "payload" ELSE "next"),
           requests' = requests, in' = in, performed' = performed,
           client' = client, kind' = kind, heard' = heard
    PROVE  Answered(c)'
<1>1. /\ client[c] = "waiting" /\ requests = <<>> /\ Asked.client = c /\ answer \in ReplyKinds
      /\ IF answer = "ERROR" THEN NotPerformed(c) ELSE <<c, c>> \in performed
    BY DEF Answered
<1> DEFINE msg == [client |-> c, kind |-> answer]
<1>2. Reply = msg /\ msg \in Message
    BY <1>1 DEF Reply, Message
<1>3. PICK read \in 0..Full(msg), written \in {0, HeaderLen, Full(msg)} :
          /\ Slice(heard[c], msg, 0, read)
          /\ Slice(replies, msg, read, written)
          /\ pc = "reply" => written = 0
          /\ pc = "payload" => written = HeaderLen
    BY DEF Answered
<1> HIDE DEF msg
<1>4. HeaderLen = 2 /\ Full(msg) \in 3..4 /\ read \in Nat /\ written \in Nat
    BY <1>2, <1>3, FullLengths
<1> DEFINE more == IF pc = "reply" THEN HeaderLen ELSE Full(msg)
<1>5. more \in Nat /\ Slice(units, msg, written, more)
    BY <1>2, <1>3, <1>4, SliceOfMessage
<1> HIDE DEF more
<1>6. Fits(units)
    <2>1. Len(replies) = written - read /\ Len(units) = more - written
        BY <1>3, <1>4, <1>5, SliceLength
    <2>2. more <= 4 /\ ReplyCapacity >= 4
        BY <1>4, PipesAssumption DEF more, RoomForOne, HeaderLen, PayloadLen
    <2>3. Len(replies) + Len(units) <= ReplyCapacity
        BY <1>4, <1>5, <2>1, <2>2, PipesAssumption
    <2> QED
        BY <2>3 DEF Fits
<1>7. /\ replies' = replies \o units /\ answer' = answer
      /\ pc' = IF pc = "reply" THEN "payload" ELSE "next"
    BY <1>6 DEF WriteReply
<1>8. Slice(replies', msg, read, more)
    BY <1>3, <1>4, <1>5, <1>7, SliceJoin
<1>9. Asked' = Asked
    BY DEF Asked
<1>10. \E r \in 0..Full(msg), w \in {0, HeaderLen, Full(msg)} :
           /\ Slice(heard'[c], msg, 0, r) /\ Slice(replies', msg, r, w)
           /\ pc' = "payload" => w = HeaderLen
           /\ pc' = "next" => w = Full(msg)
    BY <1>3, <1>7, <1>8 DEF more
<1>11. pc' \in {"payload", "next"}
    BY <1>7
<1> QED
    BY <1>1, <1>7, <1>9, <1>10, <1>11 DEF Answered, NotPerformed, msg

LEMMA ReplyStep ==
    ASSUME Typed, Typed', ~disturbed => Undisturbed, ~disturbed', RoomForOne,
           ReplyHeader \/ ReplyPayload
    PROVE  Undisturbed'
<1>1. /\ requests' = requests /\ in' = in /\ performed' = performed /\ disturbed' = disturbed
      /\ pc \in {"reply", "payload"}
      /\ WriteReply(IF pc = "reply" THEN HeaderOf(Reply) ELSE PayloadOf(Reply),
                    IF pc = "reply" THEN "payload" ELSE "next")
    BY DEF ReplyHeader, ReplyPayload, seen
<1>2. client' = client /\ kind' = kind /\ heard' = heard /\ Live' = Live
    BY SameClients DEF Serve
<1>3. PICK c \in Clients : Live = {c} /\ Answered(c)
    BY <1>1 DEF Undisturbed, AllQuiet, Asking
<1>4. Answered(c)'
    BY <1>1, <1>2, <1>3, ReplyGrows
<1> QED
    BY <1>2, <1>3, <1>4 DEF Undisturbed

LEMMA UndisturbedStep ==
    ASSUME RoomForOne, Typed, Typed', ~disturbed => Undisturbed, [Next]_vars
    PROVE  ~disturbed' => Undisturbed'
<1> SUFFICES ASSUME ~disturbed' PROVE Undisturbed'
    OBVIOUS
<1>1. CASE \E c \in Clients : OpenRequests(c) \/ Exchange(c) \/ Kill(c)
    BY <1>1, OpenRequestsStep, OpenRepliesStep, WriteHeaderStep, WritePayloadStep,
        ReadReplyStep, ReadEndStep, KillStep DEF Exchange
<1>2. CASE Start \/ Ready
    BY <1>2, StartStep
<1>3. CASE Crash \/ Stop
    BY <1>3, EndsStep
<1>4. CASE Signal \/ UNCHANGED vars
    BY <1>4, SignalStep
<1>5. CASE Poll
    BY <1>5, PollStep
<1>6. CASE NextRequest
    BY <1>6, NextRequestStep
<1>7. CASE ReadRequest
    BY <1>7, ReadRequestStep
<1>8. CASE Handle
    BY <1>8, HandleStep
<1>9. CASE ReplyHeader \/ ReplyPayload
    BY <1>9, ReplyStep
<1> QED
    BY <1>1, <1>2, <1>3, <1>4, <1>5, <1>6, <1>7, <1>8, <1>9 DEF Next, Serve

LEMMA InvariantHolds == ASSUME RoomForOne PROVE Spec => []PipesInv
<1>1. Init => PipesInv
    <2> SUFFICES ASSUME Init PROVE PipesInv
        OBVIOUS
    <2>1. AllQuiet
        BY DEF Init, AllQuiet, Live
    <2> QED
        BY <2>1, TypedInit DEF PipesInv, Typed, Undisturbed
<1>2. PipesInv /\ [Next]_vars => PipesInv'
    BY TypedStep, UndisturbedStep DEF PipesInv, Typed
<1> QED
    BY <1>1, <1>2, PTL DEF Spec

-----------------------------------------------------------------------------
(* An exchange that is not disturbed                                       *)

(* While one client at a time uses the FIFOs, with an erraid that stays    *)
(* ready, the daemon handles the header and the payload of that one        *)
(* client, which waits, and the client reads the reply to its own request. *)
THEOREM ExchangeInStep == ASSUME RoomForOne PROVE Spec => []InStep
<1>1. ASSUME PipesInv PROVE InStep
    <2> SUFFICES ASSUME ~disturbed PROVE InStep
        BY DEF InStep
    <2>1. Undisturbed
        BY <1>1 DEF PipesInv
    <2>2. ASSUME pc = "handle"
          PROVE  /\ Body.part = "payload" /\ Body.msg = Asked
                 /\ Asked.client \in Live => client[Asked.client] = "waiting"
        <3>1. PICK c \in Clients : Asking(c)
            BY <2>1, <2>2 DEF Undisturbed, AllQuiet, Answered
        <3> DEFINE msg == Request(c, kind[c])
        <3>2. client[c] = "waiting" /\ Slice(in, msg, 0, HeaderLen + 1)
            BY <2>2, <3>1 DEF Asking
        <3>3. in[HeaderLen].msg = msg /\ in[HeaderLen + 1] = UnitAt(msg, HeaderLen + 1)
            <4>1. HeaderLen + 1 \in Nat /\ HeaderLen + 1 >= HeaderLen /\ HeaderLen + 1 > HeaderLen
                BY DEF HeaderLen
            <4> QED
                BY <3>2, <4>1, SliceTells
        <3>4. UnitAt(msg, HeaderLen + 1) = [part |-> "payload", i |-> 1, msg |-> msg]
            BY DEF UnitAt, HeaderLen
        <3>5. msg.client = c
            BY DEF Request
        <3> QED
            BY <3>2, <3>3, <3>4, <3>5 DEF Asked, Body
    <2>3. ASSUME NEW c \in Live, NEW i \in DOMAIN heard[c]
          PROVE  heard[c][i].msg.client = c
        <3>1. Answered(c)
            <4>1. heard[c] # <<>>
                BY <2>3
            <4> QED
                BY <2>1, <4>1, Alone DEF Asking
        <3>2. PICK k \in ReplyKinds, read \in Nat :
                  Slice(heard[c], [client |-> c, kind |-> k], 0, read)
            <4>1. ASSUME NEW k \in ReplyKinds, NEW read \in 0..Full([client |-> c, kind |-> k])
                  PROVE  read \in Nat
                BY <4>1 DEF Full, HeaderLen, PayloadLen
            <4> QED
                BY <3>1, <4>1 DEF Answered
        <3> DEFINE msg == [client |-> c, kind |-> k]
        <3>3. i \in 1..Len(heard[c])
            BY <2>3, <3>2, LenProperties DEF Slice
        <3>4. heard[c][i] = UnitAt(msg, 0 + i)
            BY <3>2, <3>3 DEF Slice
        <3>5. UnitAt(msg, 0 + i).msg = msg
            BY DEF UnitAt
        <3> QED
            BY <3>4, <3>5
    <2> QED
        BY <2>2, <2>3 DEF InStep
<1> QED
    BY <1>1, InvariantHolds, PTL

(* Between two exchanges that were not disturbed nothing is left: the FIFOs *)
(* are empty and the daemon is in the middle of nothing.                   *)
THEOREM NothingIsLeft == ASSUME RoomForOne PROVE Spec => []QuietIsEmpty
<1>1. PipesInv => QuietIsEmpty
    BY DEF PipesInv, Undisturbed, AllQuiet, QuietIsEmpty
<1> QED
    BY <1>1, InvariantHolds, PTL

(* The daemon blocks in a read only while the one client at work has       *)
(* written its header and not yet its payload.                             *)
THEOREM BlockedOnlyIfOwed == ASSUME RoomForOne PROVE Spec => []BlockedMeansOwed
<1>1. ASSUME PipesInv PROVE BlockedMeansOwed
    <2> SUFFICES ASSUME ~disturbed, pc = "read", requests = <<>>
                 PROVE  \E c \in Live : client[c] = "half" /\ HeaderRead(in)
        BY DEF BlockedMeansOwed
    <2>1. PICK c \in Clients : Live = {c} /\ Asking(c)
        BY <1>1 DEF PipesInv, Undisturbed, AllQuiet, Answered
    <2> DEFINE msg == Request(c, kind[c])
    <2>2. PICK n \in {0, HeaderLen} : Slice(in, msg, 0, n) /\ Slice(requests, msg, n, Sent(c))
        BY <2>1 DEF Asking
    <2>3. /\ HeaderLen = 2 /\ client[c] \in {"half", "waiting"}
          /\ Sent(c) = IF client[c] = "half" THEN 2 ELSE 3
        BY <2>1 DEF HeaderLen, Asking, Sent
    <2>4. n \in Nat /\ Sent(c) \in Nat
        BY <2>3
    <2>5. n = Sent(c)
        BY <2>2, <2>4, SliceLength
    <2>6. n = 2 /\ client[c] = "half"
        BY <2>3, <2>5
    <2>7. Len(in) = n
        BY <2>2, <2>4, SliceLength
    <2> QED
        BY <2>1, <2>3, <2>6, <2>7 DEF HeaderRead
<1> QED
    BY <1>1, InvariantHolds, PTL

(* What a client makes of a reply that it has read whole.                  *)
LEMMA TrueReply ==
    ASSUME Typed, Undisturbed, NEW c \in Live, client[c] = "waiting", replies # <<>>,
           ReplyComplete(c, ReadInto(heard[c], replies, Wanted(c)))
    PROVE  LET got == ReadInto(heard[c], replies, Wanted(c))
           IN  IF got[HeaderLen].msg.kind = "ERROR" THEN NotPerformed(c)
                                                    ELSE <<c, c>> \in performed
<1> DEFINE got == ReadInto(heard[c], replies, Wanted(c))
<1>1. Answered(c) /\ c \in Clients
    BY Alone DEF Asking
<1>2. PICK k \in ReplyKinds :
          /\ IF k = "ERROR" THEN NotPerformed(c) ELSE <<c, c>> \in performed
          /\ \E read \in 0..Full([client |-> c, kind |-> k]),
                written \in {0, HeaderLen, Full([client |-> c, kind |-> k])} :
                 /\ Slice(heard[c], [client |-> c, kind |-> k], 0, read)
                 /\ Slice(replies, [client |-> c, kind |-> k], read, written)
    BY <1>1 DEF Answered
<1> DEFINE msg == [client |-> c, kind |-> k]
<1>3. PICK read \in 0..Full(msg), written \in {0, HeaderLen, Full(msg)} :
          Slice(heard[c], msg, 0, read) /\ Slice(replies, msg, read, written)
    BY <1>2
<1>4. msg \in Message /\ msg.kind = k
    BY <1>1 DEF Message
<1> HIDE DEF msg
<1>5. HeaderLen = 2 /\ Full(msg) \in 3..4 /\ read \in Nat /\ written \in Nat
    BY <1>3, <1>4, FullLengths
<1>6. /\ HeaderRead(heard[c]) <=> read >= HeaderLen
      /\ Wanted(c) = IF read >= HeaderLen THEN Full(msg) ELSE HeaderLen
    BY <1>1, <1>3, <1>4, <1>5, WantedOfReply
<1>7. Wanted(c) \in Nat /\ read <= Wanted(c) /\ Wanted(c) >= HeaderLen
    BY <1>5, <1>6
<1>8. PICK t \in Nat : Slice(got, msg, 0, t)
    <2> HIDE DEF Wanted
    <2> QED
        BY <1>3, <1>5, <1>7, SliceRead
<1> HIDE DEF got
<1>9. t >= HeaderLen
    <2>1. Len(got) = t /\ Len(got) = Wanted(c)
        BY <1>8, SliceLength DEF ReplyComplete, got
    <2> QED
        BY <1>7, <2>1
<1>10. got[HeaderLen].msg = msg
    BY <1>8, <1>9, SliceTells
<1> QED
    BY <1>2, <1>4, <1>10 DEF got

(* A client of an undisturbed exchange reports a success only when its own *)
(* request was performed, and an error only when it was not.               *)
THEOREM AnswersTrue == ASSUME RoomForOne PROVE Spec => AnswersAreTrue
<1> DEFINE Tells(c) == /\ client'[c] = "done" => <<c, c>> \in performed
                       /\ client'[c] = "refused" => \A d \in Clients : <<c, d>> \notin performed
<1>1. ASSUME PipesInv, [Next]_vars, ~disturbed, NEW c \in Live
      PROVE  Tells(c)
    <2>1. Typed /\ Undisturbed /\ c \in Clients /\ client[c] \notin {"done", "refused"}
        BY <1>1 DEF PipesInv, Typed, Live, Ended
    <2>2. CASE Start \/ Crash \/ Signal \/ Serve \/ UNCHANGED vars
        BY <2>1, <2>2, SameClients
    <2>3. ASSUME NEW x \in Clients, OpenRequests(x) \/ OpenReplies(x) \/ WriteHeader(x)
                     \/ WritePayload(x) \/ ReadEnd(x) \/ Kill(x)
          PROVE  Tells(c)
        <3>1. \E v \in {"opened", "connected", "half", "waiting", "failed", "killed"} :
                  client' = [client EXCEPT ![x] = v]
            BY <2>3 DEF OpenRequests, OpenReplies, WriteHeader, WritePayload, Write, ReadEnd,
                Kill, EndsAs
        <3> QED
            BY <2>1, <3>1 DEF Typed, TypeOK
    <2>4. ASSUME NEW x \in Clients, ReadReply(x)
          PROVE  Tells(c)
        <3>1. client[x] = "waiting" /\ replies # <<>> /\ x \in Live
            BY <2>4 DEF ReadReply, Live, Ended
        <3>2. x = c
            BY <2>1, <3>1, Alone
        <3> DEFINE got == ReadInto(heard[c], replies, Wanted(c))
        <3>3. CASE ReplyComplete(c, got) /\ EndsAs(c, Outcome(got[HeaderLen].msg.kind))
            <4>1. client'[c] = Outcome(got[HeaderLen].msg.kind)
                BY <2>1, <3>3 DEF EndsAs, Typed, TypeOK
            <4>2. IF got[HeaderLen].msg.kind = "ERROR" THEN NotPerformed(c)
                                                       ELSE <<c, c>> \in performed
                BY <2>1, <3>1, <3>2, <3>3, TrueReply
            <4> HIDE DEF got
            <4> QED
                BY <4>1, <4>2 DEF Outcome, NotPerformed
        <3>4. CASE EndsAs(c, "failed")
            BY <2>1, <3>4 DEF EndsAs, Typed, TypeOK
        <3>5. CASE UNCHANGED client
            BY <2>1, <3>5
        <3> QED
            BY <2>4, <3>2, <3>3, <3>4, <3>5 DEF ReadReply
    <2> QED
        BY <1>1, <2>2, <2>3, <2>4 DEF Next, Exchange
<1>2. PipesInv /\ [Next]_vars => [~disturbed => \A c \in Live : Tells(c)]_vars
    BY <1>1
<1> HIDE DEF Tells
<1>3. Spec => [][~disturbed => \A c \in Live : Tells(c)]_vars
    BY <1>2, InvariantHolds, PTL DEF Spec
<1> QED
    BY <1>3 DEF AnswersAreTrue, Tells

=============================================================================
