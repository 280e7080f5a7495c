------------------------------- MODULE TcpLink -------------------------------
(***************************************************************************)
(* A connection over TLS on TCP (sp-transport's tcp.rs, with the control   *)
(* channel of connection.rs and the session loop of sp-engine that uses    *)
(* it).  Each end has a writer and a reader task and bounded queues; one   *)
(* stream carries control messages, media, keep-alives and the close.      *)
(* Control must arrive complete and in order; media is dropped rather than *)
(* delayed.                                                                *)
(*                                                                         *)
(* Control messages are numbered; 0 is the Goodbye.                        *)
(***************************************************************************)
EXTENDS Naturals, Sequences, SequencesExt

CONSTANTS
  A, B,          \* the two ends
  Messages,      \* Messages[e]: control messages end e sends at most
  MaxMedia,      \* media packets end A sends at most
  ControlQueue,  \* CONTROL_QUEUE
  MediaQueue,    \* DATAGRAM_SEND_QUEUE
  Socket,        \* frames the sockets hold in one direction
  MaxPings       \* MaxPings[e]: bound on keep-alives of end e

Ends == {A, B}
Other(e) == IF e = A THEN B ELSE A
Goodbye == 0

VARIABLES
  up,        \* the network carries bytes
  out,       \* out[e]: control_out, control messages, Pongs and the Close
  media,     \* media[e]: datagrams in datagram_out
  wire,      \* wire[e]: frames on their way from e
  ins,       \* ins[e]: control_in of e
  writer, reader,  \* tasks of each end that still run
  closed,    \* closed[e]: the watch channel
  session,   \* session[e]: "run", "sending" (waits for room in out) or "ended"
  bye,       \* bye[e]: SessionCmd::Close was given to the session
  sent, got, \* control messages the session sent and received
  offered, accounted,  \* media A's session sent; counted as sent or lost
  pings

flow == <<out, media, wire, ins>>
tasks == <<writer, reader, closed>>
counts == <<sent, got, offered, accounted, pings>>
vars == <<up, flow, tasks, session, bye, counts>>

Control(n) == [kind |-> "control", n |-> n]
Frame(kind) == [kind |-> kind, n |-> 0]

Init ==
  /\ up = TRUE
  /\ out = [e \in Ends |-> <<>>] /\ media = [e \in Ends |-> 0]
  /\ wire = [e \in Ends |-> <<>>] /\ ins = [e \in Ends |-> <<>>]
  /\ writer = Ends /\ reader = Ends /\ closed = [e \in Ends |-> FALSE]
  /\ session = [e \in Ends |-> "run"] /\ bye = [e \in Ends |-> FALSE]
  /\ sent = [e \in Ends |-> 0] /\ got = [e \in Ends |-> <<>>]
  /\ offered = 0 /\ accounted = 0 /\ pings = [e \in Ends |-> 0]

----------------------------------------------------------------------------
(* The session.                                                            *)

\* ControlSender::send: the message waits for room in the queue, and nothing
\* else happens in the session meanwhile.
Send(e) ==
  /\ session[e] = "run" /\ ~bye[e] /\ sent[e] < Messages[e]
  /\ session' = [session EXCEPT ![e] = "sending"]
  /\ sent' = [sent EXCEPT ![e] = @ + 1]
  /\ UNCHANGED <<up, flow, tasks, bye, got, offered, accounted, pings>>

\* The actor closes the session: SessionCmd::Close, which sends the Goodbye.
Bye(e) ==
  /\ session[e] = "run" /\ ~bye[e]
  /\ bye' = [bye EXCEPT ![e] = TRUE]
  /\ session' = [session EXCEPT ![e] = "sending"]
  /\ UNCHANGED <<up, flow, tasks, counts>>

\* TcpShared::close: the Close frame follows what is queued; if there is no
\* room the tasks end at once.
Close(e) ==
  IF Len(out[e]) < ControlQueue /\ e \in writer
  THEN out' = [out EXCEPT ![e] = Append(@, Frame("close"))] /\ UNCHANGED closed
  ELSE closed' = [closed EXCEPT ![e] = TRUE] /\ UNCHANGED out

\* The queue has room, or its receiver is gone and send fails.
Sent(e) ==
  /\ session[e] = "sending"
  /\ \/ /\ e \in writer /\ Len(out[e]) < ControlQueue
        /\ out' = [out EXCEPT ![e] =
             Append(@, Control(IF bye[e] THEN Goodbye ELSE sent[e]))]
        /\ session' = [session EXCEPT ![e] = IF bye[e] THEN "closing" ELSE "run"]
        /\ UNCHANGED closed
     \/ /\ e \notin writer
        /\ session' = [session EXCEPT ![e] = "ended"]
        /\ Close(e)
  /\ UNCHANGED <<up, media, wire, ins, writer, reader, bye, counts>>

\* Bug: an error of rx.recv is passed over.
EndAtGoodbye(e) ==
  /\ \/ session[e] = "closing"
     \/ session[e] = "run" /\ Goodbye \in Range(got[e])
  /\ session' = [session EXCEPT ![e] = "ended"] /\ Close(e)
  /\ UNCHANGED <<up, media, wire, ins, writer, reader, bye, counts>>

\* The session ends: after its own Goodbye, the peer's, or the loss of the
\* connection.  It notices the loss by read_datagram too, so that control_in may
\* hold messages, the peer's Goodbye among them, that it never reads.
End(e) ==
  /\ \/ session[e] = "closing"
     \/ session[e] = "run" /\ Goodbye \in Range(got[e])
     \/ session[e] = "run" /\ e \notin reader
  /\ session' = [session EXCEPT ![e] = "ended"] /\ Close(e)
  /\ UNCHANGED <<up, media, wire, ins, writer, reader, bye, counts>>

\* rx.recv
Receive(e) ==
  /\ session[e] = "run" /\ Goodbye \notin Range(got[e])
  /\ ins[e] # <<>>
  /\ got' = [got EXCEPT ![e] = Append(@, Head(ins[e]))]
  /\ ins' = [ins EXCEPT ![e] = Tail(@)]
  /\ UNCHANGED <<up, out, media, wire, tasks, session, bye, sent, offered,
                 accounted, pings>>

\* TcpShared::send_datagram: dropped and counted when the queue is full.
SendMedia ==
  /\ session[A] # "ended" /\ A \in writer /\ offered < MaxMedia
  /\ offered' = offered + 1
  /\ IF media[A] < MediaQueue
     THEN media' = [media EXCEPT ![A] = @ + 1] /\ UNCHANGED accounted
     ELSE accounted' = accounted + 1 /\ UNCHANGED media
  /\ UNCHANGED <<up, out, wire, ins, tasks, session, bye, sent, got, pings>>

----------------------------------------------------------------------------
(* write_loop.  A write waits for room in the sockets.                     *)

Room(e) == Len(wire[e]) < Socket

\* Without the network, what the sockets accept does not arrive.
Put(e, f) == wire' = IF up THEN [wire EXCEPT ![e] = Append(@, f)] ELSE wire

WriterEnds(e) ==
  writer' = writer \ {e} /\ closed' = [closed EXCEPT ![e] = TRUE]

\* Control comes first (biased select); a Close is the last frame.
WriteControl(e) ==
  /\ e \in writer /\ ~closed[e] /\ out[e] # <<>> /\ Room(e)
  /\ out' = [out EXCEPT ![e] = Tail(@)] /\ Put(e, Head(out[e]))
  /\ IF Head(out[e]).kind = "close" THEN WriterEnds(e)
     ELSE UNCHANGED <<writer, closed>>
  /\ UNCHANGED <<up, media, ins, reader, session, bye, counts>>

\* Media that waited longer than STALE_AFTER is counted as lost, not sent.
WriteMedia(e) ==
  /\ e \in writer /\ ~closed[e] /\ out[e] = <<>> /\ media[e] > 0
  /\ media' = [media EXCEPT ![e] = @ - 1] /\ accounted' = accounted + 1
  /\ \/ Room(e) /\ Put(e, Frame("media"))
     \/ UNCHANGED wire
  /\ UNCHANGED <<up, out, ins, tasks, session, bye, sent, got, offered,
                 pings>>

WritePing(e) ==
  /\ e \in writer /\ ~closed[e] /\ out[e] = <<>> /\ media[e] = 0 /\ Room(e)
  /\ pings[e] < MaxPings[e] /\ pings' = [pings EXCEPT ![e] = @ + 1]
  /\ Put(e, Frame("ping"))
  /\ UNCHANGED <<up, out, media, ins, tasks, session, bye, sent, got,
                 offered, accounted>>

\* Writes fail: the network is gone, or the peer closed its socket.
Gone(e) == ~up \/ Other(e) \notin reader \cup writer

\* The channel is closed, every sender of the queue is gone, or a write fails.
WriterStops(e) ==
  /\ e \in writer
  /\ \/ closed[e] \/ (session[e] = "ended" /\ out[e] = <<>>) \/ Gone(e)
  /\ WriterEnds(e)
  /\ UNCHANGED <<up, flow, reader, session, bye, counts>>

\* A write under way (no room in the sockets) does not look at the channel.
Writing(e) == (out[e] # <<>> \/ media[e] > 0) /\ ~Room(e) /\ ~Gone(e)

----------------------------------------------------------------------------
(* read_loop.                                                              *)

From(e) == wire[Other(e)]
Taken(e) == wire' = [wire EXCEPT ![Other(e)] = Tail(@)]

\* Bug: a control message is dropped when the session does not keep up.
TakeOrDropControl(e) ==
  ins' = IF Len(ins[e]) < ControlQueue
         THEN [ins EXCEPT ![e] = Append(@, Head(From(e)).n)] ELSE ins

\* Bug: the queue to the session has no limit.
TakeAnyControl(e) == ins' = [ins EXCEPT ![e] = Append(@, Head(From(e)).n)]

\* control_in.send waits for room; the reader reads nothing else meanwhile.
TakeControl(e) ==
  /\ Len(ins[e]) < ControlQueue
  /\ ins' = [ins EXCEPT ![e] = Append(@, Head(From(e)).n)]

ReadControl(e) ==
  /\ e \in reader /\ ~closed[e] /\ From(e) # <<>>
  /\ Head(From(e)).kind = "control"
  /\ TakeControl(e) /\ Taken(e)
  /\ UNCHANGED <<up, out, media, tasks, session, bye, counts>>

\* Media goes to datagram_in, or nowhere when that is full.
ReadMedia(e) ==
  /\ e \in reader /\ ~closed[e] /\ From(e) # <<>>
  /\ Head(From(e)).kind = "media" /\ Taken(e)
  /\ UNCHANGED <<up, out, media, ins, tasks, session, bye, counts>>

\* A Ping is answered if the queue has room.
ReadPing(e) ==
  /\ e \in reader /\ ~closed[e] /\ From(e) # <<>> /\ Taken(e)
  /\ \/ Head(From(e)).kind = "pong" /\ UNCHANGED out
     \/ /\ Head(From(e)).kind = "ping"
        /\ out' = IF e \in writer /\ Len(out[e]) < ControlQueue
                  THEN [out EXCEPT ![e] = Append(@, Frame("pong"))] ELSE out
  /\ UNCHANGED <<up, media, ins, tasks, session, bye, counts>>

\* The reader ends at a Close, at the end of the stream, after IDLE_TIMEOUT
\* without a byte, or when the channel is closed.
ReaderEnds(e) ==
  /\ e \in reader
  /\ \/ closed[e]
     \/ From(e) # <<>> /\ Head(From(e)).kind = "close"
     \/ From(e) = <<>> /\ (~up \/ Other(e) \notin writer)
  /\ reader' = reader \ {e} /\ closed' = [closed EXCEPT ![e] = TRUE]
  /\ UNCHANGED <<up, flow, writer, session, bye, counts>>

\* The reader waits for the session to take a control message, and does not
\* look at the channel.
Delivering(e) ==
  /\ From(e) # <<>> /\ Head(From(e)).kind = "control"
  /\ Len(ins[e]) = ControlQueue /\ session[e] # "ended"

\* The network fails: what has not reached the peer's socket is lost.
Cut ==
  /\ up /\ up' = FALSE
  /\ \E n \in [Ends -> 0 .. Socket] :
       /\ \A e \in Ends : n[e] <= Len(wire[e])
       /\ wire' = [e \in Ends |-> SubSeq(wire[e], 1, n[e])]
  /\ UNCHANGED <<out, media, ins, tasks, session, bye, counts>>

Step(e) ==
  \/ Sent(e) \/ End(e) \/ Receive(e)
  \/ WriteControl(e) \/ WriteMedia(e) \/ WriterStops(e)
  \/ ReadControl(e) \/ ReadMedia(e) \/ ReadPing(e) \/ ReaderEnds(e)

Next ==
  \/ \E e \in Ends : Send(e) \/ Bye(e) \/ WritePing(e) \/ Step(e)
  \/ SendMedia \/ Cut

\* Tokio runs every task that can go on.
Fairness ==
  \A e \in Ends : /\ WF_vars(Sent(e)) /\ WF_vars(End(e)) /\ WF_vars(Receive(e))
                  /\ WF_vars(WriteControl(e) \/ WriteMedia(e)
                             \/ (~Writing(e) /\ WriterStops(e)))
                  /\ WF_vars(ReadControl(e) \/ ReadMedia(e) \/ ReadPing(e)
                             \/ (~Delivering(e) /\ ReaderEnds(e)))

Spec == Init /\ [][Next]_vars

----------------------------------------------------------------------------
(* Properties.                                                             *)

FrameKinds == {"control", "media", "ping", "pong", "close"}

\* The types of the variables and the limits of the queues.
TypeOK ==
  /\ up \in BOOLEAN /\ writer \subseteq Ends /\ reader \subseteq Ends
  /\ \A e \in Ends :
       /\ Len(out[e]) <= ControlQueue /\ Len(ins[e]) <= ControlQueue
       /\ Len(wire[e]) <= Socket
       /\ \A i \in DOMAIN wire[e] : wire[e][i].kind \in FrameKinds
       /\ media[e] \in 0 .. MediaQueue
       /\ closed[e] \in BOOLEAN /\ bye[e] \in BOOLEAN
       /\ session[e] \in {"run", "sending", "closing", "ended"}
       /\ sent[e] \in 0 .. Messages[e]
       /\ pings[e] \in 0 .. MaxPings[e]
  /\ offered \in 0 .. MaxMedia /\ accounted \in 0 .. MaxMedia

\* The control messages of a sequence of frames.
ControlOf(frames) ==
  LET of[i \in 0 .. Len(frames)] ==
        IF i = 0 THEN <<>>
        ELSE IF frames[i].kind = "control" THEN Append(of[i - 1], frames[i].n)
        ELSE of[i - 1]
  IN of[Len(frames)]

\* Control messages of e under way: what waits at the other end and what the
\* sockets hold, and what e's queue holds as long as there is a network.
Pending(e) ==
  ins[Other(e)] \o ControlOf(wire[e]) \o (IF up THEN ControlOf(out[e]) ELSE <<>>)

Abstract == INSTANCE Channel WITH
  Payloads <- {Goodbye} \cup UNION {1 .. Messages[e] : e \in Ends},
  alive <- up, pending <- [e \in Ends |-> Pending(e)],
  received <- [e \in Ends |-> got[Other(e)]]

\* The connection is a Channel: through queues, writer, sockets and reader,
\* control messages are neither lost nor repeated nor overtaken while there is a
\* network, and when it fails a part of them from the first on arrives
\* (write_loop, read_loop).
InOrder == Abstract!Spec

\* All media is counted as sent or lost, which link health is computed from
\* (send_datagram, write_loop).
MediaCounted == A \in writer => offered = accounted + media[A]
=============================================================================
