----------------------------- MODULE Main_proofs -----------------------------
(***************************************************************************)
(* The packets between the coroutines, for any number of clients, relays   *)
(* and threads and any capacities of the channels.                         *)
(***************************************************************************)
EXTENDS Main, SequenceTheorems, FiniteSetTheorems, TLAPS

Party == Client \cup Relay

\* The entries beyond the capacity are of different coroutines, of which at
\* most one is the reader.
WaitersDiffer(ch) ==
  \A i, j \in Cap + 1 .. Len(ch) :
    i # j => ch[i] # ch[j] /\ {ch[i], ch[j]} \cap Relay # {}

\* Senders that differ are not more than the coroutines there are.
LEMMA WaitersBounded ==
  ASSUME NEW ch \in Seq(Party), WaitersDiffer(ch)
  PROVE  Len(ch) <= Cap + Cardinality(Relay) + 1
<1> USE CapAssumption, RelayAssumption
<1> DEFINE W == Cap + 1 .. Len(ch)
<1>1. Len(ch) \in Nat /\ Cardinality(Relay) \in Nat
  BY LenProperties, FS_CardinalityType
<1>2. PICK x : \A i \in W : ch[i] \in Relay \cup {x}
  <2>1. CASE \A i \in W : ch[i] \in Relay
    BY <2>1
  <2>2. CASE \E k \in W : ch[k] \notin Relay
    BY <2>2 DEF WaitersDiffer
  <2>3. QED
    BY <2>1, <2>2
<1> DEFINE T == Relay \cup {x}
<1>3. IsFiniteSet(T) /\ Cardinality(T) \in Nat /\ Cardinality(T) <= Cardinality(Relay) + 1
  <2>1. /\ IsFiniteSet(T)
        /\ Cardinality(T) = IF x \in Relay THEN Cardinality(Relay) ELSE Cardinality(Relay) + 1
    BY FS_AddElement
  <2> HIDE DEF T
  <2>2. QED
    BY <1>1, <2>1
<1> SUFFICES ASSUME Len(ch) > Cap + Cardinality(Relay) + 1
             PROVE  FALSE
  BY <1>1
<1>4. IsFiniteSet(W) /\ Cardinality(W) = Len(ch) - Cap
  <2>1. Cap + 1 \in Int /\ Len(ch) \in Int
    BY <1>1
  <2>2. IsFiniteSet(W) /\ Cardinality(W) = IF Cap + 1 > Len(ch) THEN 0 ELSE Len(ch) - (Cap + 1) + 1
    BY <2>1, FS_Interval
  <2>3. QED
    BY <1>1, <2>2
<1>5. Cardinality(T) < Cardinality(W)
  BY <1>1, <1>3, <1>4
<1> DEFINE f == [i \in W |-> ch[i]]
<1>6. f \in [W -> T]
  BY <1>2
<1> HIDE DEF W, T, f
<1>7. PICK i, j \in W : i # j /\ f[i] = f[j]
  BY <1>3, <1>4, <1>5, <1>6, FS_PigeonHole
<1>8. QED
  BY <1>7 DEF W, f, WaitersDiffer

\* Back pressure is a matter of who waits alone.
LEMMA BackPressureIsWaiters ==
  ASSUME channel \in Seq(Party)
  PROVE  BackPressure <=> WaitersDiffer(channel)
  BY WaitersBounded DEF BackPressure, WaitersDiffer

\* A coroutine that does not wait may send.
LEMMA AppendWaiters ==
  ASSUME NEW ch \in Seq(Party), WaitersDiffer(ch), NEW e \in Party,
         \A i \in Cap + 1 .. Len(ch) : ch[i] # e /\ (ch[i] \in Relay \/ e \in Relay)
  PROVE  WaitersDiffer(Append(ch, e))
<1> USE CapAssumption
<1> DEFINE new == Append(ch, e)
<1>1. /\ Len(ch) \in Nat /\ Len(new) = Len(ch) + 1 /\ new[Len(ch) + 1] = e
      /\ \A i \in 1 .. Len(ch) : new[i] = ch[i]
  BY LenProperties, AppendProperties
<1> HIDE DEF new
<1>2. QED
  BY <1>1 DEF WaitersDiffer, new

\* The first sender that waits moves into the buffer.
LEMMA TailWaiters ==
  ASSUME NEW ch \in Seq(Party), WaitersDiffer(ch), ch # <<>>
  PROVE  WaitersDiffer(Tail(ch))
<1> USE CapAssumption
<1> DEFINE new == Tail(ch)
<1>1. /\ Len(ch) \in Nat /\ Len(new) = Len(ch) - 1
      /\ \A i \in 1 .. Len(new) : new[i] = ch[i + 1]
  BY LenProperties, HeadTailProperties
<1> HIDE DEF new
<1>2. QED
  BY <1>1 DEF WaitersDiffer, new

\* A party has a message in s, and not more than one.
Has(s, c) == \E i \in DOMAIN s : s[i] = c
Once(s, c) == \A i, j \in DOMAIN s : s[i] = c /\ s[j] = c => i = j

\* Of what is behind another, the message of a party is in either.
LEMMA ConcatOnce ==
  ASSUME NEW s \in Seq(Party), NEW t \in Seq(Party), NEW c
  PROVE  /\ Has(s \o t, c) <=> Has(s, c) \/ Has(t, c)
         /\ Once(s \o t, c) <=> Once(s, c) /\ Once(t, c) /\ ~ (Has(s, c) /\ Has(t, c))
<1> DEFINE m == Len(s)
<1> DEFINE n == Len(t)
<1> DEFINE u == s \o t
<1>1. /\ m \in Nat /\ n \in Nat
      /\ DOMAIN s = 1 .. m /\ DOMAIN t = 1 .. n
  BY LenProperties
<1>2. /\ DOMAIN u = 1 .. m + n
      /\ \A i \in 1 .. m : u[i] = s[i]
      /\ \A i \in 1 .. n : u[m + i] = t[i]
  <2>1. /\ u \in Seq(Party) /\ Len(u) = m + n
        /\ \A i \in 1 .. m + n : u[i] = IF i <= m THEN s[i] ELSE t[i - m]
    BY ConcatProperties
  <2>2. DOMAIN u = 1 .. m + n
    BY <2>1, LenProperties
  <2> HIDE DEF u, m, n
  <2>3. QED
    BY <1>1, <2>1, <2>2
<1> HIDE DEF m, n, u
<1>3. \A k \in 1 .. m + n : k \in 1 .. m \/ \E i \in 1 .. n : k = m + i
  <2> SUFFICES ASSUME NEW k \in 1 .. m + n, k \notin 1 .. m
               PROVE  \E i \in 1 .. n : k = m + i
    OBVIOUS
  <2>1. k - m \in 1 .. n /\ k = m + (k - m)
    BY <1>1
  <2>2. QED
    BY <2>1
<1>4. Has(u, c) <=> Has(s, c) \/ Has(t, c)
  <2>1. Has(u, c) => Has(s, c) \/ Has(t, c)
    <3> SUFFICES ASSUME NEW k \in 1 .. m + n, u[k] = c PROVE Has(s, c) \/ Has(t, c)
      BY <1>2 DEF Has
    <3>1. CASE k \in 1 .. m
      BY <1>1, <1>2, <3>1 DEF Has
    <3>2. CASE \E i \in 1 .. n : k = m + i
      BY <1>1, <1>2, <3>2 DEF Has
    <3>3. QED
      BY <1>3, <3>1, <3>2
  <2>2. Has(s, c) => Has(u, c)
    BY <1>1, <1>2 DEF Has
  <2>3. Has(t, c) => Has(u, c)
    <3> SUFFICES ASSUME NEW i \in 1 .. n, t[i] = c PROVE Has(u, c)
      BY <1>1 DEF Has
    <3>1. m + i \in 1 .. m + n
      BY <1>1
    <3>2. QED
      BY <1>2, <3>1 DEF Has
  <2>4. QED
    BY <2>1, <2>2, <2>3
<1>5. ASSUME Once(u, c)
      PROVE  Once(s, c) /\ Once(t, c) /\ ~ (Has(s, c) /\ Has(t, c))
  <2>1. \A i \in 1 .. n : m + i \in 1 .. m + n /\ m + i \notin 1 .. m
    BY <1>1
  <2>2. \A i \in 1 .. m : i \in 1 .. m + n
    BY <1>1
  <2>3. Once(s, c)
    BY <1>1, <1>2, <1>5, <2>2 DEF Once
  <2>4. Once(t, c)
    <3> SUFFICES ASSUME NEW i \in 1 .. n, NEW j \in 1 .. n, t[i] = c, t[j] = c
                 PROVE  i = j
      BY <1>1 DEF Once
    <3>1. m + i = m + j
      BY <1>2, <1>5, <2>1 DEF Once
    <3>2. QED
      BY <1>1, <3>1
  <2>5. ~ (Has(s, c) /\ Has(t, c))
    <3> SUFFICES ASSUME NEW i \in 1 .. m, NEW j \in 1 .. n, s[i] = c, t[j] = c
                 PROVE  FALSE
      BY <1>1 DEF Has
    <3>1. i = m + j
      BY <1>2, <1>5, <2>1, <2>2 DEF Once
    <3>2. QED
      BY <2>1, <3>1
  <2>6. QED
    BY <2>3, <2>4, <2>5
<1>6. ASSUME Once(s, c), Once(t, c), ~ (Has(s, c) /\ Has(t, c))
      PROVE  Once(u, c)
  <2> SUFFICES ASSUME NEW i \in 1 .. m + n, NEW j \in 1 .. m + n, u[i] = c, u[j] = c
               PROVE  i = j
    BY <1>2 DEF Once
  <2>1. CASE i \in 1 .. m /\ j \in 1 .. m
    BY <1>1, <1>2, <1>6, <2>1 DEF Once
  <2>2. CASE i \notin 1 .. m /\ j \notin 1 .. m
    <3>1. PICK k \in 1 .. n : i = m + k
      BY <1>3, <2>2
    <3>2. PICK l \in 1 .. n : j = m + l
      BY <1>3, <2>2
    <3>3. k = l
      BY <1>1, <1>2, <1>6, <3>1, <3>2 DEF Once
    <3>4. QED
      BY <3>1, <3>2, <3>3
  <2>3. CASE ~ (i \in 1 .. m <=> j \in 1 .. m)
    <3>1. Has(s, c) /\ Has(t, c)
      BY <1>1, <1>2, <1>3, <2>3 DEF Has
    <3>2. QED
      BY <1>6, <3>1
  <2>4. QED
    BY <2>1, <2>2, <2>3
<1>7. QED
  BY <1>4, <1>5, <1>6 DEF u

\* A channel of one message.
LEMMA OneMessage ==
  ASSUME NEW e \in Party, NEW c
  PROVE  /\ ~ Has(<<>>, c) /\ Once(<<>>, c)
         /\ <<e>> \in Seq(Party)
         /\ Has(<<e>>, c) <=> e = c
         /\ Once(<<e>>, c)
  BY DEF Has, Once

\* A message is sent.
LEMMA AppendOnce ==
  ASSUME NEW s \in Seq(Party), NEW e \in Party, NEW c
  PROVE  /\ Has(Append(s, e), c) <=> Has(s, c) \/ e = c
         /\ Once(Append(s, e), c) <=> Once(s, c) /\ ~ (Has(s, c) /\ e = c)
<1> DEFINE h == <<e>>
<1>1. Append(s, e) = s \o h
  BY AppendIsConcat
<1>2. h \in Seq(Party) /\ (Has(h, c) <=> e = c) /\ Once(h, c)
  BY OneMessage
<1> HIDE DEF h
<1>3. /\ Has(s \o h, c) <=> Has(s, c) \/ Has(h, c)
      /\ Once(s \o h, c) <=> Once(s, c) /\ Once(h, c) /\ ~ (Has(s, c) /\ Has(h, c))
  BY <1>2, ConcatOnce
<1>4. QED
  BY <1>1, <1>2, <1>3

\* A message is received.
LEMMA TailOnce ==
  ASSUME NEW s \in Seq(Party), s # <<>>, NEW c
  PROVE  /\ Has(s, c) <=> Head(s) = c \/ Has(Tail(s), c)
         /\ Once(s, c) <=> Once(Tail(s), c) /\ ~ (Has(Tail(s), c) /\ Head(s) = c)
<1>1. Head(s) \in Party /\ Tail(s) \in Seq(Party) /\ s = <<Head(s)>> \o Tail(s)
  <2>1. /\ Head(s) \in Party /\ Tail(s) \in Seq(Party) /\ Len(s) \in Nat \ {0}
        /\ Len(Tail(s)) = Len(s) - 1 /\ \A i \in 1 .. Len(Tail(s)) : Tail(s)[i] = s[i + 1]
    BY HeadTailProperties, EmptySeq
  <2> DEFINE h == <<Head(s)>>
  <2>2. h \in Seq(Party) /\ Len(h) = 1 /\ h[1] = s[1]
    BY <2>1
  <2> DEFINE v == h \o Tail(s)
  <2>3. v \in Seq(Party) /\ Len(v) = Len(s)
        /\ \A i \in 1 .. Len(s) : v[i] = IF i <= 1 THEN h[i] ELSE Tail(s)[i - 1]
    <3>1. /\ v \in Seq(Party) /\ Len(v) = Len(h) + Len(Tail(s))
          /\ \A i \in 1 .. Len(h) + Len(Tail(s)) :
               v[i] = IF i <= Len(h) THEN h[i] ELSE Tail(s)[i - Len(h)]
      BY <2>1, <2>2, ConcatProperties
    <3> HIDE DEF v, h
    <3>2. QED
      BY <2>1, <2>2, <3>1
  <2> HIDE DEF v, h
  <2>4. \A i \in 1 .. Len(s) : v[i] = s[i]
    BY <2>1, <2>2, <2>3
  <2>5. v = s
    BY <2>3, <2>4, SeqEqual
  <2>6. QED
    BY <2>1, <2>5 DEF v, h
<1> DEFINE h == <<Head(s)>>
<1>2. h \in Seq(Party) /\ (Has(h, c) <=> Head(s) = c) /\ Once(h, c)
  BY <1>1, OneMessage
<1> HIDE DEF h
<1>3. /\ Has(h \o Tail(s), c) <=> Has(h, c) \/ Has(Tail(s), c)
      /\ Once(h \o Tail(s), c) <=> Once(h, c) /\ Once(Tail(s), c) /\ ~ (Has(h, c) /\ Has(Tail(s), c))
  BY <1>1, <1>2, ConcatOnce
<1>4. s = h \o Tail(s)
  BY <1>1 DEF h
<1>5. QED
  BY <1>2, <1>3, <1>4
-----------------------------------------------------------------------------
\* The messages of client c: at most one in each place, in at most one place,
\* none unless it waits, and one if it waits and the reader runs.
Fate(c) ==
  /\ Once(outgoing, c) /\ Once(channel, c) /\ Once(inbox, c)
  /\ ~ (Has(outgoing, c) /\ Has(channel, c))
  /\ ~ (Has(outgoing, c) /\ Has(inbox, c))
  /\ ~ (Has(channel, c) /\ Has(inbox, c))
  /\ Has(outgoing, c) \/ Has(channel, c) \/ Has(inbox, c) => c \in asked
  /\ serving /\ readerUp /\ c \in asked =>
       Has(outgoing, c) \/ Has(channel, c) \/ Has(inbox, c)

\* The inductive invariant of the coroutines.
IInv ==
  /\ TypeOK
  /\ WaitersDiffer(channel)
  /\ outgoing = <<>> \/ \E x \in Party : outgoing = <<x>>
  /\ \A c \in Client : Fate(c)

\* Fate says of each client what AnsweredOnce says of all of them.
LEMMA FateAnswersOnce ==
  ASSUME TypeOK, \A c \in Client : Fate(c)
  PROVE  AnsweredOnce
<1> DEFINE head == outgoing \o channel
<1>1. outgoing \in Seq(Party) /\ channel \in Seq(Party) /\ inbox \in Seq(Party)
  BY DEF TypeOK, Party
<1>2. head \in Seq(Party) /\ Pipeline = head \o inbox
  BY <1>1, ConcatProperties DEF Pipeline
<1>3. ASSUME NEW c
      PROVE  /\ Has(head, c) <=> Has(outgoing, c) \/ Has(channel, c)
             /\ Once(head, c) <=> Once(outgoing, c) /\ Once(channel, c)
                                   /\ ~ (Has(outgoing, c) /\ Has(channel, c))
  BY <1>1, ConcatOnce
<1> HIDE DEF head
<1>4. ASSUME NEW c
      PROVE  /\ Has(Pipeline, c) <=> Has(head, c) \/ Has(inbox, c)
             /\ Once(Pipeline, c) <=> Once(head, c) /\ Once(inbox, c)
                                       /\ ~ (Has(head, c) /\ Has(inbox, c))
  BY <1>1, <1>2, ConcatOnce
<1>5. ASSUME NEW c \in Client
      PROVE  /\ Once(Pipeline, c)
             /\ Has(Pipeline, c) => c \in asked
             /\ serving /\ readerUp /\ c \in asked => Has(Pipeline, c)
  BY <1>3, <1>4 DEF Fate
<1>6. \A c : c \in Contents(Pipeline) <=> Has(Pipeline, c)
  BY DEF Contents, Has
<1>7. \A i, j \in DOMAIN Pipeline : Pipeline[i] \in Client /\ Pipeline[i] = Pipeline[j] => i = j
  BY <1>5 DEF Once
<1>8. asked \subseteq Client
  BY DEF TypeOK
<1>9. QED
  BY <1>5, <1>6, <1>7, <1>8 DEF AnsweredOnce

\* At the start nothing is under way.
LEMMA InitIInv == Init => IInv
<1> SUFFICES ASSUME Init PROVE IInv
  OBVIOUS
<1>1. TypeOK
  BY RelayCapAssumption DEF Init, TypeOK
<1>2. WaitersDiffer(channel)
  BY CapAssumption DEF Init, WaitersDiffer
<1>3. \A c \in Client : Fate(c)
  BY DEF Init, Fate, Has, Once
<1>4. QED
  BY <1>1, <1>2, <1>3 DEF IInv, Init

\* Steps that move no message: of the relays' channels, ends of coroutines,
\* stop(), and steps of others.
LEMMA NothingMoves ==
  ASSUME IInv, TypeOK', UNCHANGED <<inbox, channel, outgoing, asked>>,
         (serving' => serving) /\ (readerUp' => readerUp)
  PROVE  IInv'
<1>1. ASSUME NEW c \in Client PROVE Fate(c)'
  BY DEF IInv, Fate
<1>2. QED
  BY <1>1 DEF IInv

\* What clients send.
LEMMA SendIInv ==
  ASSUME IInv
  PROVE  /\ \A c \in Client : SendRequest(c) => IInv'
         /\ \A r \in Relay : SendData(r) => IInv'
<1> USE DEF IInv
<1>1. ASSUME NEW e \in Party, inbox' = Append(inbox, e),
             UNCHANGED <<channel, outgoing, serving, readerUp, relayChannel, relaySending, relayUp, relayReading>>,
             asked' = asked \cup ({e} \cap Client), e \notin asked
      PROVE  IInv'
  <2>1. inbox \in Seq(Party) /\ inbox' \in Seq(Party)
    BY <1>1, AppendProperties DEF TypeOK, Party
  <2>2. TypeOK'
    BY <1>1, <2>1 DEF TypeOK, Party
  <2>3. ASSUME NEW c \in Client PROVE Fate(c)'
    <3>1. /\ Has(inbox', c) <=> Has(inbox, c) \/ e = c
          /\ Once(inbox', c) <=> Once(inbox, c) /\ ~ (Has(inbox, c) /\ e = c)
      BY <1>1, <2>1, AppendOnce
    <3>2. Fate(c)
      OBVIOUS
    <3>3. QED
      BY <1>1, <3>1, <3>2 DEF Fate
  <2>4. QED
    BY <1>1, <2>2, <2>3
<1>2. ASSUME NEW c \in Client, SendRequest(c) PROVE IInv'
  BY <1>1, <1>2 DEF SendRequest, Party
<1>3. ASSUME NEW r \in Relay, SendData(r) PROVE IInv'
  <2>1. r \notin Client /\ r \notin asked
    BY PacketAssumption DEF TypeOK
  <2>2. QED
    BY <1>1, <1>3, <2>1 DEF SendData, Party
<1>4. QED
  BY <1>2, <1>3

\* The reader takes a request and answers it.
LEMMA ReadRequestIInv ==
  ASSUME IInv, ReadRequest
  PROVE  IInv'
<1> USE DEF IInv
<1> DEFINE e == Head(inbox)
<1>1. /\ inbox \in Seq(Party) /\ channel \in Seq(Party) /\ inbox # <<>>
      /\ e \in Client /\ e \in Party
  BY DEF TypeOK, Party, ReadRequest
<1> HIDE DEF e
<1>2. inbox' = Tail(inbox) /\ channel' = Append(channel, e)
      /\ UNCHANGED <<outgoing, serving, readerUp, relayChannel, relaySending, relayUp, relayReading, asked>>
  BY DEF ReadRequest, Respond, e
<1>3. inbox' \in Seq(Party) /\ channel' \in Seq(Party)
  BY <1>1, <1>2, AppendProperties, HeadTailProperties
<1>4. TypeOK'
  BY <1>2, <1>3 DEF TypeOK, Party
<1>5. WaitersDiffer(channel')
  <2>1. \A i \in Cap + 1 .. Len(channel) : channel[i] \notin Client
    BY DEF ReadRequest, ReaderFree, Senders
  <2>2. \A i \in Cap + 1 .. Len(channel) : channel[i] \in Party
    BY <1>1, CapAssumption, LenProperties, ElementOfSeq
  <2>3. \A i \in Cap + 1 .. Len(channel) : channel[i] # e /\ (channel[i] \in Relay \/ e \in Relay)
    BY <1>1, <2>1, <2>2 DEF Party
  <2>4. QED
    BY <1>1, <1>2, <2>3, AppendWaiters
<1>6. ASSUME NEW c \in Client PROVE Fate(c)'
  <2>1. /\ Has(inbox, c) <=> e = c \/ Has(inbox', c)
        /\ Once(inbox, c) <=> Once(inbox', c) /\ ~ (Has(inbox', c) /\ e = c)
    BY <1>1, <1>2, TailOnce DEF e
  <2>2. /\ Has(channel', c) <=> Has(channel, c) \/ e = c
        /\ Once(channel', c) <=> Once(channel, c) /\ ~ (Has(channel, c) /\ e = c)
    BY <1>1, <1>2, AppendOnce
  <2>3. Fate(c)
    OBVIOUS
  <2>4. QED
    BY <1>2, <2>1, <2>2, <2>3 DEF Fate
<1>7. QED
  BY <1>2, <1>4, <1>5, <1>6

\* The reader takes data and hands it to the relay, or ends with an exception.
LEMMA ReadOtherIInv ==
  ASSUME IInv, ReadData \/ HandlerThrows
  PROVE  IInv'
<1> USE DEF IInv
<1> DEFINE e == Head(inbox)
<1>1. /\ inbox \in Seq(Party) /\ inbox # <<>> /\ ReaderFree
      /\ inbox' = Tail(inbox) /\ UNCHANGED <<channel, outgoing, serving, asked>>
      /\ readerUp' \in BOOLEAN
      /\ (e \in Relay /\ readerUp' = readerUp) \/ readerUp' = FALSE
  BY DEF TypeOK, Party, ReadData, HandlerThrows
<1>2. TypeOK'
  <2>1. inbox' \in Seq(Party)
    BY <1>1, HeadTailProperties
  <2>2. relayChannel' \in [Relay -> 0 .. RelayCap + 1]
    <3>1. CASE ReadData
      <4>1. relayChannel[e] \in 0 .. RelayCap /\ e \in Relay
        BY <3>1, RelayCapAssumption DEF ReadData, ReaderFree, TypeOK
      <4>2. relayChannel[e] + 1 \in 0 .. RelayCap + 1
        BY <4>1, RelayCapAssumption
      <4> HIDE DEF e
      <4>3. relayChannel' = [relayChannel EXCEPT ![e] = relayChannel[e] + 1]
        BY <3>1 DEF ReadData, e
      <4>4. QED
        BY <4>2, <4>3 DEF TypeOK
    <3>2. CASE HandlerThrows
      BY <3>2 DEF HandlerThrows, TypeOK
    <3>3. QED
      BY <3>1, <3>2
  <2>3. UNCHANGED <<relaySending, relayUp, relayReading>>
    BY DEF ReadData, HandlerThrows
  <2>4. QED
    BY <1>1, <2>1, <2>2, <2>3 DEF TypeOK, Party
<1> HIDE DEF e
<1>3. ASSUME NEW c \in Client PROVE Fate(c)'
  <2>1. /\ Has(inbox, c) <=> e = c \/ Has(inbox', c)
        /\ Once(inbox, c) <=> Once(inbox', c) /\ ~ (Has(inbox', c) /\ e = c)
    BY <1>1, TailOnce DEF e
  <2>2. e = c => ~ readerUp'
    BY <1>1, PacketAssumption
  <2>3. readerUp' => readerUp
    BY <1>1
  <2>4. Fate(c)
    OBVIOUS
  <2>5. QED
    BY <1>1, <2>1, <2>2, <2>3, <2>4 DEF Fate
<1>4. QED
  BY <1>1, <1>2, <1>3

\* The writer of the server.
LEMMA WriterIInv ==
  ASSUME IInv
  PROVE  /\ WriterReceives => IInv'
         /\ WriterSends \/ WriterFails => IInv'
<1> USE DEF IInv
<1>1. channel \in Seq(Party)
  BY DEF TypeOK, Party
<1>2. ASSUME WriterReceives PROVE IInv'
  <2> DEFINE e == Head(channel)
  <2>1. /\ channel # <<>> /\ outgoing = <<>> /\ channel' = Tail(channel)
        /\ UNCHANGED <<inbox, serving, readerUp, relayChannel, relaySending, relayUp, relayReading, asked>>
    BY <1>2 DEF WriterReceives
  <2>2. e \in Party /\ channel' \in Seq(Party)
    BY <1>1, <2>1, HeadTailProperties
  <2> HIDE DEF e
  <2>3. outgoing' = <<e>>
    BY <1>2 DEF WriterReceives, e
  <2>4. TypeOK'
    BY <2>1, <2>2, <2>3 DEF TypeOK, Party
  <2>5. WaitersDiffer(channel')
    BY <1>1, <2>1, TailWaiters
  <2>6. ASSUME NEW c \in Client PROVE Fate(c)'
    <3>1. /\ Has(channel, c) <=> e = c \/ Has(channel', c)
          /\ Once(channel, c) <=> Once(channel', c) /\ ~ (Has(channel', c) /\ e = c)
      BY <1>1, <2>1, TailOnce DEF e
    <3>2. (Has(outgoing', c) <=> e = c) /\ Once(outgoing', c) /\ ~ Has(outgoing, c)
      BY <2>1, <2>2, <2>3, OneMessage
    <3>3. Fate(c)
      OBVIOUS
    <3>4. QED
      BY <2>1, <3>1, <3>2, <3>3 DEF Fate
  <2>7. QED
    BY <2>2, <2>3, <2>4, <2>5, <2>6
<1>3. ASSUME WriterSends \/ WriterFails PROVE IInv'
  <2>1. PICK x \in Party : outgoing = <<x>>
    BY <1>3 DEF WriterSends, WriterFails
  <2>2. /\ outgoing' = <<>> /\ UNCHANGED <<inbox, channel, readerUp, relayChannel, relaySending, relayUp, relayReading>>
        /\ \/ asked' = asked \ {x} /\ serving' = serving
           \/ asked' = asked /\ serving' = FALSE
    BY <1>3, <2>1 DEF WriterSends, WriterFails
  <2>3. TypeOK'
    <3>1. outgoing' \in Seq(Client \cup Relay)
      BY <2>2, EmptySeq
    <3>2. asked' \in SUBSET Client /\ serving' \in BOOLEAN
      BY <2>2 DEF TypeOK
    <3>3. QED
      BY <2>2, <3>1, <3>2 DEF TypeOK
  <2>4. ASSUME NEW c \in Client PROVE Fate(c)'
    <3>1. /\ Has(outgoing, c) <=> x = c
          /\ ~ Has(outgoing', c) /\ Once(outgoing', c)
      BY <2>1, <2>2, OneMessage
    <3>2. Fate(c)
      OBVIOUS
    <3>3. QED
      BY <2>2, <3>1, <3>2 DEF Fate
  <2>5. QED
    BY <2>2, <2>3, <2>4
<1>4. QED
  BY <1>2, <1>3

\* The coroutines of a relay.
LEMMA RelayIInv ==
  ASSUME IInv, NEW r \in Relay
  PROVE  /\ RelayReads(r) => IInv'
         /\ RelayWriterReceives(r) \/ RelayWriterSends(r) \/ RelayWriterFails(r)
              \/ RelayReaderFails(r) => IInv'
<1> USE DEF IInv
<1>1. channel \in Seq(Party) /\ r \in Party /\ r \notin Client
  BY PacketAssumption DEF TypeOK, Party
<1>2. ASSUME RelayReads(r) PROVE IInv'
  <2>1. /\ channel' = Append(channel, r)
        /\ UNCHANGED <<inbox, outgoing, serving, readerUp, relayChannel, relaySending, relayUp, relayReading, asked>>
    BY <1>2 DEF RelayReads
  <2>2. channel' \in Seq(Party)
    BY <1>1, <2>1, AppendProperties
  <2>3. TypeOK'
    BY <2>1, <2>2 DEF TypeOK, Party
  <2>4. WaitersDiffer(channel')
    <3>1. \A i \in Cap + 1 .. Len(channel) : channel[i] # r /\ (channel[i] \in Relay \/ r \in Relay)
      BY <1>2 DEF RelayReads, RelayReaderFree, Senders
    <3>2. QED
      BY <1>1, <2>1, <3>1, AppendWaiters
  <2>5. ASSUME NEW c \in Client PROVE Fate(c)'
    <3>1. (Has(channel', c) <=> Has(channel, c)) /\ (Once(channel', c) <=> Once(channel, c))
      BY <1>1, <2>1, AppendOnce
    <3>2. Fate(c)
      OBVIOUS
    <3>3. QED
      BY <2>1, <3>1, <3>2 DEF Fate
  <2>6. QED
    BY <2>1, <2>3, <2>4, <2>5
<1>3. ASSUME RelayWriterReceives(r) \/ RelayWriterSends(r) \/ RelayWriterFails(r) \/ RelayReaderFails(r)
      PROVE  IInv'
  <2>1. UNCHANGED <<inbox, channel, outgoing, serving, readerUp, asked>>
    BY <1>3 DEF RelayWriterReceives, RelayWriterSends, RelayWriterFails, RelayReaderFails
  <2>2. relayChannel' \in [Relay -> 0 .. RelayCap + 1]
    <3>1. CASE RelayWriterReceives(r)
      <4>1. relayChannel[r] - 1 \in 0 .. RelayCap + 1
        BY <3>1, RelayCapAssumption DEF RelayWriterReceives, TypeOK
      <4>2. QED
        BY <3>1, <4>1 DEF RelayWriterReceives, TypeOK
    <3>2. CASE relayChannel' = relayChannel
      BY <3>2 DEF TypeOK
    <3>3. QED
      BY <1>3, <3>1, <3>2 DEF RelayWriterSends, RelayWriterFails, RelayReaderFails
  <2>3. /\ relaySending' \in SUBSET relayUp' /\ relayUp' \in SUBSET Relay
        /\ relayReading' \in SUBSET Relay
    BY <1>3 DEF RelayWriterReceives, RelayWriterSends, RelayWriterFails, RelayReaderFails, TypeOK
  <2>4. TypeOK'
    BY <2>1, <2>2, <2>3 DEF TypeOK
  <2> HIDE DEF IInv
  <2>5. QED
    BY <2>1, <2>4, NothingMoves
<1>4. QED
  BY <1>2, <1>3

\* Every step of the coroutines, and stop().
LEMMA StepIInv ==
  ASSUME IInv, Next \/ Stop \/ UNCHANGED vars
  PROVE  IInv'
<1>1. CASE \E c \in Client : SendRequest(c)
  BY <1>1, SendIInv
<1>2. CASE \E r \in Relay : SendData(r)
  BY <1>2, SendIInv
<1>3. ASSUME NEW r \in Relay, RelayReads(r) \/ RelayWriterReceives(r) \/ RelayWriterSends(r)
                               \/ RelayWriterFails(r) \/ RelayReaderFails(r)
      PROVE  IInv'
  BY <1>3, RelayIInv
<1>4. CASE ReadRequest
  BY <1>4, ReadRequestIInv
<1>5. CASE ReadData \/ HandlerThrows
  BY <1>5, ReadOtherIInv
<1>6. CASE WriterReceives \/ WriterSends \/ WriterFails
  BY <1>6, WriterIInv
<1>7. CASE ReaderFails \/ Stop
  <2>1. /\ UNCHANGED <<inbox, channel, outgoing, readerUp, relayChannel, relaySending, relayUp, relayReading, asked>>
        /\ serving' = FALSE
    BY <1>7 DEF ReaderFails, Stop
  <2>2. TypeOK'
    BY <2>1 DEF IInv, TypeOK
  <2>3. QED
    BY <2>1, <2>2, NothingMoves
<1>8. CASE UNCHANGED vars
  <2>1. TypeOK' /\ UNCHANGED <<inbox, channel, outgoing, serving, readerUp, asked>>
    BY <1>8 DEF IInv, TypeOK, vars
  <2>2. QED
    BY <2>1, NothingMoves
<1>9. QED
  BY <1>1, <1>2, <1>3, <1>4, <1>5, <1>6, <1>7, <1>8 DEF Next

\* Where the request or the response of a client is, there is a coroutine that
\* can take it on, unless the reader waits for a relay that does not send.
LEMMA FateProceeds ==
  ASSUME TypeOK, \A c \in Client : Fate(c)
  PROVE  StuckOnlyOnDeadRelay
<1> SUFFICES ASSUME serving, readerUp, NEW c \in asked, ~ CanProceed,
                    \A r \in Relay \ relayUp : ~ (relayChannel[r] > RelayCap)
             PROVE  FALSE
  BY DEF StuckOnlyOnDeadRelay
<1>1. outgoing = <<>> /\ channel = <<>>
  BY DEF CanProceed, WriterUp
<1>2. c \in Client /\ Fate(c)
  BY DEF TypeOK
<1>3. Has(inbox, c)
  BY <1>1, <1>2 DEF Fate, Has
<1>4. inbox # <<>>
  BY <1>3 DEF Has
<1>5. \A r \in Relay : relayChannel[r] <= RelayCap
  <2> SUFFICES ASSUME NEW r \in Relay PROVE relayChannel[r] <= RelayCap
    OBVIOUS
  <2>1. relayChannel[r] \in Nat
    BY RelayCapAssumption DEF TypeOK
  <2>2. CASE r \in relayUp
    BY <2>1, <2>2, RelayCapAssumption DEF CanProceed
  <2>3. CASE r \notin relayUp
    BY <2>1, <2>3, RelayCapAssumption
  <2>4. QED
    BY <2>2, <2>3
<1>6. Senders = {}
  <2>1. Cap + 1 .. Len(channel) = {}
    BY <1>1, CapAssumption
  <2>2. QED
    BY <2>1 DEF Senders
<1>7. QED
  BY <1>4, <1>5, <1>6 DEF CanProceed, ReaderFree

\* What the invariant says of the properties of the coroutines.
LEMMA IInvImplies == IInv => TypeOK /\ BackPressure /\ AnsweredOnce /\ StuckOnlyOnDeadRelay
<1> SUFFICES ASSUME IInv PROVE TypeOK /\ BackPressure /\ AnsweredOnce /\ StuckOnlyOnDeadRelay
  OBVIOUS
<1>1. TypeOK /\ channel \in Seq(Party) /\ WaitersDiffer(channel)
  BY DEF IInv, TypeOK, Party
<1>2. BackPressure
  BY <1>1, BackPressureIsWaiters
<1>3. AnsweredOnce /\ StuckOnlyOnDeadRelay
  BY <1>1, FateAnswersOnce, FateProceeds DEF IInv
<1>4. QED
  BY <1>1, <1>2, <1>3
-----------------------------------------------------------------------------
\* The inductive invariant of the process: what its threads do to the
\* coroutines, and that only the signal handler stops the io_context.
MainInv ==
  /\ IInv
  /\ MainTypeOK
  /\ stopped => signalled
  /\ EndsOnlyOnSignal

\* A process whose machine has few enough cores can create all its threads.
LEMMA EnoughThreads ==
  ASSUME MainTypeOK, hardware \in 1 .. ThreadLimit + 1
  PROVE  Wanted <= ThreadLimit
<1> DEFINE k == hardware - 1
<1>1. k \in Nat /\ k <= ThreadLimit
  BY ThreadLimitAssumption
<1> HIDE DEF k
<1>2. k % Modulus \in Nat /\ k % Modulus <= k
  BY <1>1, UnsignedAssumption
<1>3. QED
  BY <1>1, <1>2, ThreadLimitAssumption DEF Wanted, k

\* The threads and the phases of main.
LEMMA MainTypeStep ==
  ASSUME MainTypeOK, TypeOK', [MainNext]_allVars
  PROVE  MainTypeOK'
<1> USE ThreadLimitAssumption DEF MainTypeOK
<1>1. CASE OnThread(Next) \/ UNCHANGED allVars
  BY <1>1 DEF OnThread, mainVars, allVars
<1>2. CASE Spawn
  BY <1>2 DEF Spawn
<1>3. CASE SpawnFails \/ ReserveFails
  BY <1>3 DEF SpawnFails, ReserveFails, End
<1>4. CASE MainRuns \/ MainReturns \/ Exit
  BY <1>4 DEF MainRuns, MainReturns, Exit
<1>5. CASE Signal
  BY <1>5 DEF Signal, StopContext
<1>6. CASE WorkerReturns
  BY <1>6 DEF WorkerReturns
<1>7. QED
  BY <1>1, <1>2, <1>3, <1>4, <1>5, <1>6 DEF MainNext

\* Steps of the main function leave the coroutines alone or stop the server.
LEMMA MainStep ==
  ASSUME MainInv, [MainNext]_allVars
  PROVE  MainInv'
<1> USE DEF MainInv
<1>1. Next \/ Stop \/ UNCHANGED vars
  BY DEF MainNext, OnThread, Spawn, SpawnFails, ReserveFails, MainRuns, Signal,
         WorkerReturns, MainReturns, Exit, End, allVars
<1>2. IInv'
  BY <1>1, StepIInv
<1>3. MainTypeOK'
  BY <1>2, MainTypeStep DEF IInv
<1>4. (stopped => signalled)' /\ EndsOnlyOnSignal'
  <2> USE DEF EndsOnlyOnSignal
  <2>1. CASE OnThread(Next) \/ UNCHANGED allVars
    BY <2>1 DEF OnThread, mainVars, allVars
  <2>2. CASE Spawn \/ WorkerReturns
    BY <2>2 DEF Spawn, WorkerReturns
  <2>3. CASE SpawnFails
    <3>1. hardware \notin 1 .. ThreadLimit + 1
      <4> SUFFICES ASSUME hardware \in 1 .. ThreadLimit + 1 PROVE FALSE
        OBVIOUS
      <4>1. Wanted <= ThreadLimit /\ ThreadLimit < Wanted
        BY <2>3, EnoughThreads DEF SpawnFails
      <4>2. Wanted \in Int
        BY UnsignedAssumption DEF Wanted, MainTypeOK
      <4>3. QED
        BY <4>1, <4>2, ThreadLimitAssumption
    <3>2. QED
      BY <2>3, <3>1 DEF SpawnFails, End
  <2>4. CASE ReserveFails
    <3>1. hardware \notin 1 .. ThreadLimit + 1
      BY <2>4 DEF ReserveFails
    <3>2. QED
      BY <2>4, <3>1 DEF ReserveFails, End
  <2>5. CASE MainRuns \/ Exit
    BY <2>5 DEF MainRuns, Exit
  <2>6. CASE MainReturns
    BY <2>6 DEF MainReturns, RunReturns, Outstanding
  <2>7. CASE Signal
    BY <2>7 DEF Signal
  <2>8. QED
    BY <2>1, <2>2, <2>3, <2>4, <2>5, <2>6, <2>7 DEF MainNext
<1>5. QED
  BY <1>2, <1>3, <1>4

\* The invariant is inductive.
THEOREM MainInductive == MainSpec => []MainInv
<1>1. MainInit => MainInv
  <2> SUFFICES ASSUME MainInit PROVE MainInv
    OBVIOUS
  <2>1. IInv /\ TypeOK
    BY InitIInv, IInvImplies DEF MainInit
  <2>2. created \in 0 .. ThreadLimit /\ workers \in 0 .. created
    BY ThreadLimitAssumption DEF MainInit
  <2>3. signalled \in BOOLEAN /\ stopped \in BOOLEAN /\ (stopped => signalled)
    BY DEF MainInit
  <2>4. EndsOnlyOnSignal
    BY DEF MainInit, EndsOnlyOnSignal
  <2>5. QED
    BY <2>1, <2>2, <2>3, <2>4 DEF MainInv, MainTypeOK, MainInit
<1>2. QED
  BY <1>1, MainStep, PTL DEF MainSpec

\* The channels, the ends of the coroutines and the threads have their types,
\* with as many threads as the system allows and any value of
\* hardware_concurrency().
THEOREM TypeCorrect == MainSpec => []MainTypeOK
<1>1. MainInv => MainTypeOK
  BY DEF MainInv
<1>2. QED
  BY <1>1, MainInductive, PTL

\* What is queued for the clients is bounded by the capacity and the number of
\* relays, however fast clients and peers send and whichever coroutines have
\* ended.
THEOREM QueueBounded == MainSpec => []BackPressure
<1>1. MainInv => BackPressure
  BY IInvImplies DEF MainInv
<1>2. QED
  BY <1>1, MainInductive, PTL

\* No request is lost or answered twice between the socket and the writer.
THEOREM EachAnsweredOnce == MainSpec => []AnsweredOnce
<1>1. MainInv => AnsweredOnce
  BY IInvImplies DEF MainInv
<1>2. QED
  BY <1>1, MainInductive, PTL

\* The coroutines wait for each other for ever only when a relay's writer has
\* ended and its channel is full, with any number of relays and any capacities.
THEOREM StuckOnDeadRelayAlone == MainSpec => []StuckOnlyOnDeadRelay
<1>1. MainInv => StuckOnlyOnDeadRelay
  BY IInvImplies DEF MainInv
<1>2. QED
  BY <1>1, MainInductive, PTL

\* A process that got its threads does not end before a signal, whatever ends
\* its coroutines.
THEOREM SignalEnds == MainSpec => []EndsOnlyOnSignal
<1>1. MainInv => EndsOnlyOnSignal
  BY DEF MainInv
<1>2. QED
  BY <1>1, MainInductive, PTL

\* The coroutines by themselves, on a thread that always runs them, keep the
\* same promises.
THEOREM ServerCorrect ==
  Spec => [](TypeOK /\ BackPressure /\ AnsweredOnce /\ StuckOnlyOnDeadRelay)
<1>1. IInv /\ [Next]_vars => IInv'
  BY StepIInv
<1>2. Spec => []IInv
  BY <1>1, InitIInv, PTL DEF Spec
<1>3. QED
  BY <1>2, IInvImplies, PTL
=============================================================================
