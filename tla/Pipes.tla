-------------------------------- MODULE Pipes --------------------------------
(***************************************************************************)
(* The two FIFOs between tadmor and erraid, piece by piece: the framing of *)
(* src/src/shared/proto.c, the exchange of src/src/tadmor/main.c and       *)
(* request.c, and process_requests and send_json_response of               *)
(* src/src/erraid/daemon.c.  A message is written as a header and then a   *)
(* payload, in one write each; both are read until the expected number of  *)
(* bytes has come.  All clients share one request FIFO and one reply FIFO, *)
(* and nothing in a message names its sender.                              *)
(*                                                                         *)
(* Abstractions: a header is HeaderLen units, enough for it to be read in  *)
(* two pieces or from its middle; a request payload is one unit, a reply   *)
(* payload one or, for lists, histories and outputs, two.  Bytes of a      *)
(* payload or of the second part of a header never look like the start of  *)
(* a header.  The request FIFO has room for what a few clients write (64   *)
(* KiB); the reply FIFO is bounded.  The runs between two rounds of        *)
(* requests are in Loop.                                                   *)
(***************************************************************************)
EXTENDS Naturals, Sequences, FiniteSets

CONSTANTS
    Clients,       \* tadmor processes; each sends one request
    ReplyCapacity, \* units the reply FIFO holds
    MaxStarts,     \* bound: times erraid is started
    MaxKills       \* bound: clients killed

ASSUME PipesAssumption ==
    /\ ReplyCapacity \in Nat /\ MaxStarts \in Nat /\ MaxKills \in Nat

HeaderLen == 2

(* DATA stands for LIST_TASKS, LIST_HISTORY and the two GET_ requests,     *)
(* CHANGE for the creations and REMOVE.                                    *)
RequestKinds == {"DATA", "CHANGE", "SHUTDOWN"}

(* A reply to DATA, any other success, and RSP_ERROR.                      *)
ReplyKinds == {"LIST", "OK", "ERROR"}

PayloadLen(kind) == IF kind = "LIST" THEN 2 ELSE 1

(* What a message is about: for a request its sender, for a reply the      *)
(* sender of the header that it answers.                                   *)
Message == [client : Clients, kind : RequestKinds \cup ReplyKinds]

Unit == [part : {"header", "payload"}, i : Nat \ {0}, msg : Message]

Units(part, n, msg) == [i \in 1..n |-> [part |-> part, i |-> i, msg |-> msg]]
HeaderOf(msg) == Units("header", HeaderLen, msg)
PayloadOf(msg) == Units("payload", PayloadLen(msg.kind), msg)

VARIABLES
    requests,     \* units in the request FIFO
    replies,      \* units in the reply FIFO
    pc,           \* where the daemon is
    in,           \* units of the request the daemon is reading
    answer,       \* kind of the reply the daemon is writing, or "NONE"
    should_quit,
    starts,       \* times erraid was started
    client,       \* where each tadmor is, and how it ended
    kind,         \* its request
    heard,        \* units of the reply it is reading
    kills,        \* clients killed so far
    performed,    \* observed: <<c, d>> when a request was performed whose
                  \* header c wrote and whose payload d wrote
    disturbed     \* observed: something happened after which the FIFOs may
                  \* hold, or lack, a part of an exchange

fifos  == <<requests, replies>>
daemon == <<pc, in, answer, should_quit, starts>>
tadmor == <<client, kind, heard>>
seen   == <<performed, disturbed>>

vars == <<requests, replies, pc, in, answer, should_quit, starts, client, kind,
          heard, kills, performed, disturbed>>

-----------------------------------------------------------------------------
(* Who holds what open                                                     *)

Ended == {"done", "refused", "failed", "killed"}

(* A tadmor opens the request FIFO, then the reply FIFO, and closes both   *)
(* when it ends.                                                           *)
Live == {c \in Clients : client[c] \notin {"idle"} \cup Ended}
Listening == {c \in Live : client[c] # "opened"}

RequestsOpen == pc # "down"                \* request_fd of erraid
RepliesOpen == pc \notin {"down", "opening"}   \* reply_fd

Deserted == pc = "down" /\ Live = {}

(* What a FIFO holds is lost when the last process closes it.              *)
Closed ==
    /\ requests' = IF Deserted' THEN <<>> ELSE requests
    /\ replies' = IF ~RepliesOpen' /\ Listening' = {} THEN <<>> ELSE replies

(* An end of the exchange is left in the middle: from then on the FIFOs    *)
(* may hold parts of it, until both have been closed by everyone.          *)
Disturbs(event) == disturbed' = (~Deserted' /\ (disturbed \/ event))

Least(a, b) == IF a <= b THEN a ELSE b

(* One read: what has come, but not more than is missing from `length`.    *)
ReadInto(buffer, fifo, length) ==
    buffer \o SubSeq(fifo, 1, Least(Len(fifo), length - Len(buffer)))
Unread(buffer, fifo, length) ==
    SubSeq(fifo, Least(Len(fifo), length - Len(buffer)) + 1, Len(fifo))

(* proto_validate_header, on what was read as a header.                    *)
Valid(buffer) ==
    \A i \in 1..HeaderLen : buffer[i].part = "header" /\ buffer[i].i = i

HeaderRead(buffer) == Len(buffer) >= HeaderLen
Expected(buffer) == HeaderLen + PayloadLen(buffer[HeaderLen].msg.kind)

-----------------------------------------------------------------------------
(* tadmor: main, tadmor_connect, tadmor_send_request, tadmor_receive_reply *)

(* open of the request FIFO waits until erraid has it open.                *)
OpenRequests(c) ==
    /\ client[c] = "idle" /\ RequestsOpen
    /\ client' = [client EXCEPT ![c] = "opened"]
    /\ UNCHANGED <<fifos, daemon, kind, heard, kills, performed>>
    /\ Disturbs(Live # {} \/ pc = "opening")

OpenReplies(c) ==
    /\ client[c] = "opened"
    /\ client' = [client EXCEPT ![c] = "connected"]
    /\ UNCHANGED <<fifos, daemon, kind, heard, kills, seen>>

(* The memory of a tadmor is gone when it ends.                            *)
EndsAs(c, how) ==
    /\ client' = [client EXCEPT ![c] = how]
    /\ kind' = [kind EXCEPT ![c] = "DATA"]
    /\ heard' = [heard EXCEPT ![c] = <<>>]

Request(c, k) == [client |-> c, kind |-> k]

(* One of the two writes of proto_write_message; with no reader it ends    *)
(* tadmor by SIGPIPE.                                                      *)
Write(c, units, next) ==
    /\ UNCHANGED <<daemon, kills, performed>>
    /\ \/ /\ RequestsOpen
          /\ client' = [client EXCEPT ![c] = next]
          /\ requests' = requests \o units
          /\ UNCHANGED <<replies, heard, disturbed>>
       \/ /\ ~RequestsOpen
          /\ client' = [client EXCEPT ![c] = "failed"]
          /\ UNCHANGED heard
          /\ Closed
          /\ Disturbs(FALSE)

(* The request is known from the arguments of tadmor.                      *)
WriteHeader(c) ==
    /\ client[c] = "connected"
    /\ \E k \in RequestKinds :
           /\ kind' = [kind EXCEPT ![c] = k]
           /\ Write(c, HeaderOf(Request(c, k)), "half")

(* Mutant: the header is written again in place of the payload.            *)
WriteHeaderTwice(c) ==
    /\ client[c] = "half"
    /\ Write(c, HeaderOf(Request(c, kind[c])), "waiting")
    /\ UNCHANGED kind

WritePayload(c) ==
    /\ client[c] = "half"
    /\ Write(c, PayloadOf(Request(c, kind[c])), "waiting")
    /\ UNCHANGED kind

Outcome(reply) == IF reply = "ERROR" THEN "refused" ELSE "done"

(* Units that a reply, or its header, is known to have.                    *)
Wanted(c) == IF HeaderRead(heard[c]) THEN Expected(heard[c]) ELSE HeaderLen

(* Mutant: a reply ends with its header.                                   *)
EndsWithHeader(c, got) == HeaderRead(got)

ReplyComplete(c, got) == HeaderRead(heard[c]) /\ Len(got) = Wanted(c)

(* One read of tadmor_receive_reply, and what tadmor makes of the reply.   *)
ReadReply(c) ==
    LET got  == ReadInto(heard[c], replies, Wanted(c))
        rest == Unread(heard[c], replies, Wanted(c))
    IN  /\ client[c] = "waiting" /\ replies # <<>>
        /\ \/ /\ ReplyComplete(c, got)
              /\ EndsAs(c, Outcome(got[HeaderLen].msg.kind))
           \/ /\ HeaderRead(got) /\ ~Valid(got)
              /\ EndsAs(c, "failed")
           \/ /\ ~ReplyComplete(c, got)
              /\ HeaderRead(got) => Valid(got)
              /\ heard' = [heard EXCEPT ![c] = got]
              /\ UNCHANGED <<client, kind>>
        /\ UNCHANGED <<daemon, kills, performed>>
        /\ requests' = IF Deserted' THEN <<>> ELSE requests
        /\ replies' = IF RepliesOpen \/ Listening' # {} THEN rest ELSE <<>>
        /\ Disturbs(client'[c] = "failed")

(* Mutant: tadmor holds the reply FIFO open for writing too.               *)
ReadEndUnseen(c) == FALSE

(* read finds the end of the file: the FIFO is empty and nobody has it     *)
(* open for writing.                                                       *)
ReadEnd(c) ==
    /\ client[c] = "waiting" /\ replies = <<>> /\ ~RepliesOpen
    /\ EndsAs(c, "failed")
    /\ UNCHANGED <<daemon, kills, performed>>
    /\ Closed
    /\ Disturbs(TRUE)

(* Killed between any two steps; what it wrote stays.                      *)
Kill(c) ==
    /\ c \in Live /\ kills < MaxKills
    /\ kills' = kills + 1
    /\ EndsAs(c, "killed")
    /\ UNCHANGED <<daemon, performed>>
    /\ Closed
    /\ Disturbs(client[c] \in {"half", "waiting"})

-----------------------------------------------------------------------------
(* erraid: its life                                                        *)

(* erraid_init, until the request FIFO is open.                            *)
Start ==
    /\ pc = "down" /\ starts < MaxStarts
    /\ starts' = starts + 1
    /\ pc' = "opening" /\ should_quit' = FALSE
    /\ UNCHANGED <<fifos, in, answer, tadmor, kills, performed>>
    /\ Disturbs(Live # {})

(* ... and until the reply FIFO is open and the tasks are loaded.          *)
Ready ==
    /\ pc = "opening"
    /\ pc' = "loop"
    /\ UNCHANGED <<fifos, in, answer, should_quit, starts, tadmor, kills, seen>>

Ends ==
    /\ pc' = "down" /\ in' = <<>> /\ answer' = "NONE" /\ should_quit' = FALSE
    /\ UNCHANGED <<starts, tadmor, kills, performed>>
    /\ Closed
    /\ Disturbs(FALSE)

(* A crash, or an erraid_init that fails.                                  *)
Crash == pc # "down" /\ Ends

(* Mutant: should_quit is looked at after requests only.                   *)
StopWhenIdle == pc = "loop" /\ should_quit /\ requests # <<>> /\ Ends

(* The test of erraid_schedule_loop, then erraid_shutdown.                 *)
Stop == pc = "loop" /\ should_quit /\ Ends

(* SIGINT or SIGTERM; a read that it interrupts is repeated.               *)
Signal ==
    /\ RepliesOpen /\ ~should_quit
    /\ should_quit' = TRUE
    /\ UNCHANGED <<fifos, pc, in, answer, starts, tadmor, kills, seen>>

-----------------------------------------------------------------------------
(* erraid: process_requests                                                *)

(* poll finds the request FIFO readable.                                   *)
Poll ==
    /\ pc = "loop" /\ ~should_quit /\ requests # <<>>
    /\ pc' = "read"
    /\ UNCHANGED <<fifos, in, answer, should_quit, starts, tadmor, kills, seen>>

(* One read of proto_read_message.  A header that is not valid is given up *)
(* with all that follows it, and without a reply.                          *)
ReadRequest ==
    LET length == IF HeaderRead(in) THEN Expected(in) ELSE HeaderLen
        got    == ReadInto(in, requests, length)
    IN  /\ pc = "read" /\ requests # <<>>
        /\ requests' = Unread(in, requests, length)
        /\ \/ /\ HeaderRead(got) /\ ~Valid(got)
              /\ in' = <<>> /\ pc' = "loop"
           \/ /\ HeaderRead(in) /\ Len(got) = length
              /\ in' = got /\ pc' = "handle"
           \/ /\ HeaderRead(got) => Valid(got)
              /\ ~HeaderRead(in)
              /\ in' = got /\ UNCHANGED pc
        /\ UNCHANGED <<replies, answer, should_quit, starts, tadmor, kills, seen>>

Asked == in[HeaderLen].msg
Body == in[HeaderLen + 1]

(* Mutant: a change that is refused is answered like one that is made.     *)
HandleNeverRefuses ==
    /\ pc = "handle"
    /\ pc' = "reply"
    /\ \/ /\ answer' = IF Asked.kind = "DATA" THEN "LIST" ELSE "OK"
          /\ should_quit' = (should_quit \/ Asked.kind = "SHUTDOWN")
          /\ performed' = performed \cup {<<Asked.client, Body.msg.client>>}
       \/ /\ answer' = "OK" /\ UNCHANGED <<should_quit, performed>>
    /\ UNCHANGED <<fifos, in, starts, tadmor, kills, disturbed>>

(* erraid_handle_message: whatever the payload is, something is answered.  *)
(* A payload that is not a request's is no task and no identifier, but     *)
(* LIST_TASKS and SHUTDOWN do not look at it.                              *)
Handle ==
    /\ pc = "handle"
    /\ pc' = "reply"
    /\ \/ /\ Asked.kind = "CHANGE" => Body.part = "payload"
          /\ answer' = IF Asked.kind = "DATA" THEN "LIST" ELSE "OK"
          /\ should_quit' = (should_quit \/ Asked.kind = "SHUTDOWN")
          /\ performed' = performed \cup {<<Asked.client, Body.msg.client>>}
       \/ /\ Asked.kind # "SHUTDOWN"
          /\ answer' = "ERROR"
          /\ UNCHANGED <<should_quit, performed>>
    /\ UNCHANGED <<fifos, in, starts, tadmor, kills, disturbed>>

Fits(units) == Len(replies) + Len(units) <= ReplyCapacity

(* A write that does not fit fails.  The handlers of DATA then answer with *)
(* an error, the others with nothing.                                      *)
ReplyFails ==
    \/ /\ answer = "LIST"
       /\ answer' = "ERROR"
       /\ pc' = "reply"
    \/ /\ answer # "LIST"
       /\ pc' = "next"
       /\ UNCHANGED answer

(* Mutant: a partial write is not noticed.                                 *)
WriteReplyAnyway(units, next) ==
    /\ replies' = replies \o units
    /\ pc' = next
    /\ UNCHANGED answer

WriteReply(units, next) ==
    \/ /\ Fits(units)
       /\ replies' = replies \o units
       /\ pc' = next
       /\ UNCHANGED answer
    \/ /\ ~Fits(units)
       /\ ReplyFails
       /\ UNCHANGED replies

Reply == [client |-> Asked.client, kind |-> answer]

ReplyHeader ==
    /\ pc = "reply"
    /\ WriteReply(HeaderOf(Reply), "payload")
    /\ UNCHANGED <<requests, in, should_quit, starts, tadmor, kills, seen>>

ReplyPayload ==
    /\ pc = "payload"
    /\ WriteReply(PayloadOf(Reply), "next")
    /\ UNCHANGED <<requests, in, should_quit, starts, tadmor, kills, seen>>

(* Mutant: the next request is read without a poll.                        *)
NextRequestAnyway ==
    /\ pc = "next"
    /\ in' = <<>> /\ answer' = "NONE"
    /\ pc' = "read"
    /\ UNCHANGED <<fifos, should_quit, starts, tadmor, kills, seen>>

NextRequest ==
    /\ pc = "next"
    /\ in' = <<>> /\ answer' = "NONE"
    /\ pc' = IF requests # <<>> THEN "read" ELSE "loop"
    /\ UNCHANGED <<fifos, should_quit, starts, tadmor, kills, seen>>

-----------------------------------------------------------------------------
Init ==
    /\ requests = <<>> /\ replies = <<>>
    /\ pc = "down" /\ in = <<>> /\ should_quit = FALSE /\ starts = 0
    /\ answer = "NONE"
    /\ client = [c \in Clients |-> "idle"]
    /\ kind = [c \in Clients |-> "DATA"]
    /\ heard = [c \in Clients |-> <<>>]
    /\ kills = 0 /\ performed = {} /\ disturbed = FALSE

Exchange(c) ==
    OpenReplies(c) \/ WriteHeader(c) \/ WritePayload(c) \/ ReadReply(c) \/ ReadEnd(c)

Serve ==
    \/ Ready \/ Stop \/ Poll \/ ReadRequest \/ Handle
    \/ ReplyHeader \/ ReplyPayload \/ NextRequest

Next ==
    \/ \E c \in Clients : OpenRequests(c) \/ Exchange(c) \/ Kill(c)
    \/ Start \/ Crash \/ Signal
    \/ Serve

(* erraid is one runnable process, and so is a tadmor that has connected.  *)
Spec ==
    /\ Init /\ [][Next]_vars
    /\ WF_vars(Serve)
    /\ \A c \in Clients : WF_vars(Exchange(c))

-----------------------------------------------------------------------------
TypeOK ==
    /\ requests \in Seq(Unit)
    /\ replies \in Seq(Unit) /\ Len(replies) <= ReplyCapacity
    /\ pc \in {"down", "opening", "loop", "read", "handle", "reply", "payload",
               "next"}
    /\ in \in Seq(Unit) /\ answer \in ReplyKinds \cup {"NONE"}
    /\ should_quit \in BOOLEAN /\ starts \in Nat
    /\ client \in [Clients -> {"idle", "opened", "connected", "half", "waiting"}
                                  \cup Ended]
    /\ kind \in [Clients -> RequestKinds]
    /\ heard \in [Clients -> Seq(Unit)]
    /\ kills \in Nat
    /\ performed \subseteq Clients \X Clients /\ disturbed \in BOOLEAN

(* protocole.md:8, one message and then its reply: as long as one client   *)
(* at a time uses the FIFOs, from an erraid that was ready to its answer,  *)
(* what is handled is the header and the payload of one client that waits, *)
(* and what a client reads is the answer to it.                            *)
InStep ==
    ~disturbed =>
        /\ pc = "handle" =>
               /\ Body.part = "payload" /\ Body.msg = Asked
               /\ Asked.client \in Live => client[Asked.client] = "waiting"
        /\ \A c \in Live : \A i \in DOMAIN heard[c] : heard[c][i].msg.client = c

(* Under the same condition nothing is left in the FIFOs, nor half read,   *)
(* when no client is at work: the next one starts afresh.                  *)
QuietIsEmpty ==
    ~disturbed /\ Live = {} =>
        /\ requests = <<>> /\ replies = <<>>
        /\ pc \in {"down", "opening", "loop", "next"}

(* While exchanges are undisturbed, the daemon waits in a blocking read,   *)
(* where no signal and no deadline is looked at, only while the rest of    *)
(* the message is about to be written.  (A client killed before that       *)
(* leaves it there: see ShutdownEnds.)                                     *)
BlockedMeansOwed ==
    ~disturbed /\ pc = "read" /\ requests = <<>> =>
        \E c \in Live : client[c] = "half" /\ HeaderRead(in)

(* While exchanges are undisturbed, what a client reports is what          *)
(* happened: a success, only when its own request was performed; an error, *)
(* only when it was not.                                                   *)
AnswersAreTrue ==
    [][~disturbed =>
           \A c \in Live :
               /\ client'[c] = "done" => <<c, c>> \in performed
               /\ client'[c] = "refused" => \A d \in Clients : <<c, d>> \notin performed
      ]_vars

(* Every client that connects ends, whatever happens to erraid, unless the *)
(* exchange was disturbed: it never waits for an answer that does not come. *)
ClientsEnd == \A c \in Clients : c \in Live ~> (c \notin Live \/ disturbed)

(* A request or a signal to stop ends erraid, also while it answers,       *)
(* unless a disturbed exchange keeps it in a read for ever.                *)
ShutdownEnds ==
    should_quit ~> (pc = "down" \/ (disturbed /\ [](pc = "read")))
=============================================================================
