-------------------------------- MODULE Server --------------------------------
(***************************************************************************)
(* The coroutines that move packets and the channels between them:         *)
(*                                                                         *)
(*   client --inbox--> Server::reader --channel--> Server::writer --> client *)
(*                        |               ^                                *)
(*                        v               |                                *)
(*                  relayChannel[r]   relay reader r <-- peer              *)
(*                        v                                                *)
(*                  relay writer r --> peer                                *)
(*                                                                         *)
(* A request is answered by one message to its client; data for a peer is  *)
(* handed to the writer of the relay of the client's allocation; data from *)
(* a peer is sent to the client. What a handler decides is not modelled    *)
(* here, only where it may have to wait.                                   *)
(*                                                                         *)
(* async_send on a full channel waits. The senders that wait do so in a    *)
(* queue, whose head moves into the buffer as soon as there is room: a     *)
(* channel is one sequence, of which the entries beyond its capacity are   *)
(* the senders that wait.                                                  *)
(***************************************************************************)
EXTENDS Naturals, Sequences, FiniteSets

CONSTANTS Client,         \* clients; each has one request under way at a time
          Relay,          \* relays of the allocations that exist
          Cap,            \* capacity of Server::channel_: 128 in the code
          RelayCap,       \* capacity of UdpAllocation::channel_: 15
          MaxInbox,       \* bound: packets in the buffer of the server's socket
          Errors          \* what may fail: "server" and "relay" for their sockets,
                          \* "handler" for an exception out of processPacket

ASSUME CapAssumption == Cap \in Nat
ASSUME RelayCapAssumption == RelayCap \in Nat
ASSUME RelayAssumption == IsFiniteSet(Relay)
\* A packet is a request or data for a relay.
ASSUME PacketAssumption == Client \cap Relay = {}

VARIABLES
  inbox,          \* packets of clients: a client for its request, a relay for data
  channel,        \* Server::channel_: a client for a response, a relay for data
  outgoing,       \* what Server::writer is sending, if anything
  serving,        \* the coroutine reader() || writer() has not ended
  readerUp,       \* nor has reader() with an exception
  relayChannel,   \* number of messages in UdpAllocation::channel_
  relaySending,   \* relays whose writer is sending a message
  relayUp,        \* relays whose writer has not ended
  relayReading,   \* relays whose reader has not ended
  asked           \* clients that wait for the response to a request

vars == <<inbox, channel, outgoing, serving, readerUp, relayChannel, relaySending, relayUp, relayReading, asked>>

TypeOK ==
  /\ inbox \in Seq(Client \cup Relay)
  /\ channel \in Seq(Client \cup Relay)
  /\ outgoing \in Seq(Client \cup Relay)
  /\ serving \in BOOLEAN
  /\ readerUp \in BOOLEAN
  /\ relayChannel \in [Relay -> 0 .. RelayCap + 1]
  /\ relaySending \in SUBSET relayUp
  /\ relayUp \in SUBSET Relay
  /\ relayReading \in SUBSET Relay
  /\ asked \in SUBSET Client

Init ==
  /\ inbox = <<>>
  /\ channel = <<>>
  /\ outgoing = <<>>
  /\ serving = TRUE
  /\ readerUp = TRUE
  /\ relayChannel = [r \in Relay |-> 0]
  /\ relaySending = {}
  /\ relayUp = Relay
  /\ relayReading = Relay
  /\ asked = {}
-----------------------------------------------------------------------------
\* The senders that wait for room in the server's channel.
Senders == {channel[i] : i \in Cap + 1 .. Len(channel)}

\* Mutation: only the server's own channel makes the reader wait.
FreeUnlessReplying == serving /\ readerUp /\ Senders \cap Client = {}

\* The reader is not inside asyncSend or sendToPeer.
ReaderFree ==
  /\ serving
  /\ readerUp
  /\ Senders \cap Client = {}
  /\ \A r \in Relay : relayChannel[r] <= RelayCap

SendRequest(c) ==
  /\ c \notin asked
  /\ Len(inbox) < MaxInbox
  /\ inbox' = Append(inbox, c)
  /\ asked' = asked \cup {c}
  /\ UNCHANGED <<channel, outgoing, serving, readerUp, relayChannel, relaySending, relayUp, relayReading>>

\* ChannelData or a Send indication for the peer of relay r.
SendData(r) ==
  /\ Len(inbox) < MaxInbox
  /\ inbox' = Append(inbox, r)
  /\ UNCHANGED <<channel, outgoing, serving, readerUp, relayChannel, relaySending, relayUp, relayReading, asked>>

\* Mutation: a request is handled and its response is not sent.
DropResponse(c) == channel

\* Mutation: a request is answered by its handler and once more by the reader.
RespondTwice(c) == channel \o <<c, c>>

\* asyncSend
Respond(c) == Append(channel, c)

\* reader and processPacket, on a request.
ReadRequest ==
  /\ ReaderFree
  /\ inbox # <<>>
  /\ Head(inbox) \in Client
  /\ inbox' = Tail(inbox)
  /\ channel' = Respond(Head(inbox))
  /\ UNCHANGED <<outgoing, serving, readerUp, relayChannel, relaySending, relayUp, relayReading, asked>>

\* reader and processPacket, on data: UdpAllocation::sendToPeer.
ReadData ==
  /\ ReaderFree
  /\ inbox # <<>>
  /\ Head(inbox) \in Relay
  /\ inbox' = Tail(inbox)
  /\ relayChannel' = [relayChannel EXCEPT ![Head(inbox)] = @ + 1]
  /\ UNCHANGED <<channel, outgoing, serving, readerUp, relaySending, relayUp, relayReading, asked>>

\* An exception out of processPacket, on any packet, ends reader() alone: ||
\* waits for one of the two to succeed.
HandlerThrows ==
  /\ "handler" \in Errors
  /\ ReaderFree
  /\ inbox # <<>>
  /\ inbox' = Tail(inbox)
  /\ readerUp' = FALSE
  /\ UNCHANGED <<channel, outgoing, serving, relayChannel, relaySending, relayUp, relayReading, asked>>

\* Mutation: the writer ends when the reader has thrown.
WriterEndsWithReader == serving /\ readerUp

\* Mutation: one coroutine reads and writes in turn.
WriterBetweenReads == serving /\ ReaderFree

\* writer() has not ended: it does with reader() || writer() only.
WriterUp == serving

WriterReceives ==
  /\ WriterUp
  /\ outgoing = <<>>
  /\ channel # <<>>
  /\ outgoing' = <<Head(channel)>>
  /\ channel' = Tail(channel)
  /\ UNCHANGED <<inbox, serving, readerUp, relayChannel, relaySending, relayUp, relayReading, asked>>

WriterSends ==
  /\ WriterUp
  /\ outgoing # <<>>
  /\ outgoing' = <<>>
  /\ asked' = asked \ {Head(outgoing)}
  /\ UNCHANGED <<inbox, channel, serving, readerUp, relayChannel, relaySending, relayUp, relayReading>>

\* writer() returns on a send error, which ends reader() || writer().
WriterFails ==
  /\ "server" \in Errors
  /\ WriterUp
  /\ outgoing # <<>>
  /\ outgoing' = <<>>
  /\ serving' = FALSE
  /\ UNCHANGED <<inbox, channel, readerUp, relayChannel, relaySending, relayUp, relayReading, asked>>

RelayWriterReceives(r) ==
  /\ r \in relayUp \ relaySending
  /\ relayChannel[r] > 0
  /\ relayChannel' = [relayChannel EXCEPT ![r] = @ - 1]
  /\ relaySending' = relaySending \cup {r}
  /\ UNCHANGED <<inbox, channel, outgoing, serving, readerUp, relayUp, relayReading, asked>>

RelayWriterSends(r) ==
  /\ r \in relaySending
  /\ relaySending' = relaySending \ {r}
  /\ UNCHANGED <<inbox, channel, outgoing, serving, readerUp, relayChannel, relayUp, relayReading, asked>>

\* reader() returns on an error of async_receive_from, which ends both as well.
ReaderFails ==
  /\ "server" \in Errors
  /\ ReaderFree
  /\ serving' = FALSE
  /\ UNCHANGED <<inbox, channel, outgoing, readerUp, relayChannel, relaySending, relayUp, relayReading, asked>>

\* UdpAllocation::writer ends with an exception; UdpAllocation::reader goes on,
\* since || waits for one of the two to succeed.
RelayWriterFails(r) ==
  /\ "relay" \in Errors
  /\ r \in relaySending
  /\ relaySending' = relaySending \ {r}
  /\ relayUp' = relayUp \ {r}
  /\ UNCHANGED <<inbox, channel, outgoing, serving, readerUp, relayChannel, relayReading, asked>>

\* Mutation: the relay does not wait for its message to be taken.
ForwardAnyway(r) == TRUE

\* The reader of relay r is not inside asyncSend.
RelayReaderFree(r) == r \notin Senders

\* UdpAllocation::reader ends with an exception; its writer goes on.
RelayReaderFails(r) ==
  /\ "relay" \in Errors
  /\ r \in relayReading
  /\ RelayReaderFree(r)
  /\ relayReading' = relayReading \ {r}
  /\ UNCHANGED <<inbox, channel, outgoing, serving, readerUp, relayChannel, relaySending, relayUp, asked>>

\* UdpAllocation::reader and processPeerMessage, on data of a peer that has a
\* channel or a permission.
RelayReads(r) ==
  /\ r \in relayReading
  /\ RelayReaderFree(r)
  /\ channel' = Append(channel, r)
  /\ UNCHANGED <<inbox, outgoing, serving, readerUp, relayChannel, relaySending, relayUp, relayReading, asked>>

\* stop(): what the reader and the writer wait for is aborted or closed, and
\* they return. The relays go on.
Stop ==
  /\ serving' = FALSE
  /\ UNCHANGED <<inbox, channel, outgoing, readerUp, relayChannel, relaySending, relayUp, relayReading, asked>>

Next ==
  \/ \E c \in Client : SendRequest(c)
  \/ \E r \in Relay :
       \/ SendData(r)
       \/ RelayReads(r)
       \/ RelayWriterReceives(r)
       \/ RelayWriterSends(r)
       \/ RelayWriterFails(r)
       \/ RelayReaderFails(r)
  \/ ReadRequest
  \/ ReadData
  \/ HandlerThrows
  \/ WriterReceives
  \/ WriterSends
  \/ WriterFails
  \/ ReaderFails

\* Coroutines that can go on do so, and the kernel takes the datagrams it is
\* given. Nothing obliges clients and peers to send.
Fairness ==
  /\ WF_vars(ReadRequest)
  /\ WF_vars(ReadData)
  /\ WF_vars(WriterReceives)
  /\ WF_vars(WriterSends)
  /\ \A r \in Relay : WF_vars(RelayWriterReceives(r)) /\ WF_vars(RelayWriterSends(r))

Spec == Init /\ [][Next]_vars /\ Fairness
-----------------------------------------------------------------------------
(***************************************************************************)
(* However fast clients and peers send, what is queued for the clients is  *)
(* bounded by the channel's capacity and one message for each coroutine    *)
(* that waits for room.                                                    *)
(***************************************************************************)
BackPressure ==
  /\ Len(channel) <= Cap + Cardinality(Relay) + 1
  /\ \A i, j \in Cap + 1 .. Len(channel) :
       i # j => channel[i] # channel[j] /\ {channel[i], channel[j]} \cap Relay # {}

\* What is under way to the server and back, the oldest first.
Pipeline == outgoing \o channel \o inbox

Contents(s) == {s[i] : i \in DOMAIN s}

(***************************************************************************)
(* A client that waits has one message under way, its request or the       *)
(* response to it, unless the reader or the whole server has ended; a      *)
(* client that does not wait has none. No request is lost or answered      *)
(* twice between the coroutines, also when senders wait for room, relays   *)
(* fail, and data is queued before and behind it.                          *)
(***************************************************************************)
AnsweredOnce ==
  /\ \A i, j \in DOMAIN Pipeline :
       Pipeline[i] \in Client /\ Pipeline[i] = Pipeline[j] => i = j
  /\ Contents(Pipeline) \cap Client \subseteq asked
  /\ serving /\ readerUp => asked \subseteq Contents(Pipeline)

\* Some coroutine has something to do and is not waiting for another one.
CanProceed ==
  \/ WriterUp /\ (outgoing # <<>> \/ channel # <<>>)
  \/ ReaderFree /\ inbox # <<>>
  \/ relaySending # {}
  \/ \E r \in relayUp : relayChannel[r] > 0

(***************************************************************************)
(* The coroutines never all wait for each other while a client waits for   *)
(* its response. The one thing on which they can wait for ever is a full   *)
(* channel to a relay whose writer has ended, see UdpAllocation::writer.   *)
(***************************************************************************)
StuckOnlyOnDeadRelay ==
  serving /\ readerUp /\ asked # {} =>
    CanProceed \/ \E r \in Relay \ relayUp : relayChannel[r] > RelayCap

Healthy == serving /\ readerUp /\ relayUp = Relay

(***************************************************************************)
(* A request that has reached the server's socket is answered, under any   *)
(* load from other clients and from peers, unless one of the writers or    *)
(* the reader has ended with an error. Relay readers may end.              *)
(***************************************************************************)
AnsweredWhileHealthy ==
  \A c \in Client : c \in asked ~> (c \notin asked \/ ~ Healthy)

(***************************************************************************)
(* A relay whose data waits for room in the channel gets its turn as long  *)
(* as reader() || writer() runs, also when the reader has ended with an    *)
(* exception, or waits for ever for a relay whose writer has ended: what   *)
(* peers send goes on reaching the clients.                                *)
(***************************************************************************)
NoSenderStarves == \A r \in Relay : r \in Senders ~> (r \notin Senders \/ ~ serving)

(***************************************************************************)
(* "Request expects a reply -- silent drop just stalls the client"         *)
(* (StunTurnProcessor.cpp, processPacket): a request is answered as long   *)
(* as the server's own socket works. Violated: when the writer of one      *)
(* relay has met an error its channel is never emptied again, and the      *)
(* reader, which serves all clients, waits for room in it for ever.        *)
(***************************************************************************)
AnsweredWhileServing ==
  \A c \in Client : c \in asked ~> (c \notin asked \/ ~ serving)
=============================================================================
