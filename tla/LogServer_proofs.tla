-------------------------- MODULE LogServer_proofs --------------------------
(***************************************************************************)
(* The log file can be relied on (LogComplete), for every number of        *)
(* processes, connections and records, and whatever records are long or    *)
(* cannot be unpickled.                                                    *)
(*                                                                         *)
(* The two threads agree on one message over the status queue (PhaseInv),  *)
(* so the server serves until close() is called and close() returns after  *)
(* the last record was drained.  A record that was handed to a socket is   *)
(* in a connection, in the queue or in the file (DeliveryInv).  And of two *)
(* records of one sender the later one is never further on its way         *)
(* (OrderInv), since a process has all that it sent, and was not received  *)
(* yet, on the connection that it uses (CarriersHaveThem).                 *)
(***************************************************************************)
EXTENDS LogServer, TLAPS

----------------------------------------------------------------------------
(* The types, and what the threads agree on.                               *)

FromExt == [from : {Ext}, n : 1..MaxRecords]

\* What the queue holds.
Items == [ext : {FALSE}, record : Record] \cup [ext : {TRUE}, record : FromExt]

NetType ==
  /\ conn \in [Processes -> (Conns \ {0}) \cup {None}]
  /\ state \in [Conns -> {"unused", "open", "closed", "stuck"}]
  /\ frames \in [Conns -> Seq(Record \cup {Garbage})]
  /\ frames[0] \in Seq(FromExt)
  /\ \A c \in Conns : state[c] # "open" => frames[c] = <<>>

TypeInv ==
  /\ status_queue \in Seq({"address", "SHUTDOWN"}) /\ unfinished \in Nat
  /\ main \in {"starting", "running", "closing", "closed"}
  /\ listener \in {"binding", "bound", "joining", "checking", "getting",
                   "pausing", "draining", "ended", "dead"}
  /\ listening \in {"no", "open", "closing", "closed"}
  /\ NetType
  /\ queue \in Seq(Items)
  /\ file \in Seq(Record)
  /\ logged \in [Senders -> 0..MaxRecords]
  /\ sent \subseteq Record /\ torn \subseteq Record /\ before \subseteq sent

PhaseInv ==
  /\ main = "starting" =>
       /\ sent = {} /\ \A p \in Processes : conn[p] = None
       /\ \/ listener = "binding" /\ status_queue = <<>> /\ unfinished = 0
          \/ /\ listener \in {"bound", "joining"}
             /\ Len(status_queue) = 1 /\ unfinished = 1
  /\ main = "running" =>
       /\ status_queue = <<>> /\ unfinished = 0
       /\ listener \in {"bound", "checking", "getting", "dead"}
  /\ main = "closing" =>
       listener # "binding" /\ (listener # "ended" => unfinished = 1)
  /\ main = "closed" => listener = "ended"
  /\ listening = "no" => listener = "binding"
  /\ ServesUntilClosed

----------------------------------------------------------------------------
(* Where the records are.                                                  *)

Queued == {item.record : item \in {i \in ToSet(queue) : ~i.ext}}

\* What was logged before close() is passed on from the connections to the
\* queue and the file.
BeforeInv ==
  main \in {"closing", "closed"} =>
    CASE listener = "dead" -> TRUE
      [] listener = "ended" -> before \subseteq ToSet(file) \cup torn
      [] listener = "draining" ->
           before \subseteq ToSet(file) \cup Queued \cup torn
      [] OTHER -> before \subseteq ToSet(file) \cup InTransit \cup torn

DeliveryInv == OnItsWay /\ BeforeInv

----------------------------------------------------------------------------
(* The order of the records.                                               *)

\* The process on whose connection a record travels.
Carrier(r) == IF r.from = Ext THEN Main ELSE r.from

CarriersHaveThem ==
  \A c \in Conns \ {0} : \A i \in DOMAIN frames[c] :
    frames[c][i] # Garbage => conn[Carrier(frames[c][i])] = c

\* Garbage has no place in the order.
Earlier(r, s) ==
  r # Garbage /\ s # Garbage /\ r.from = s.from => r.n < s.n

\* The record r is logged before all that the connections hold, or before
\* what the extension's holds; and it is logged after all that the other
\* connections hold.
BeforeAll(r, held) ==
  \A c \in Conns : \A i \in DOMAIN held[c] : Earlier(r, held[c][i])
BeforeExt(r, held) == \A i \in DOMAIN held[0] : Earlier(r, held[0][i])
AfterSent(r, held) ==
  \A c \in Conns \ {0} : \A i \in DOMAIN held[c] : Earlier(held[c][i], r)

FramesInOrder(held) ==
  \A c \in Conns : \A i, j \in DOMAIN held[c] :
    i < j => Earlier(held[c][i], held[c][j])

EachInOrder ==
  /\ \A i, j \in DOMAIN file : i < j => Earlier(file[i], file[j])
  /\ \A i, j \in DOMAIN queue :
       i < j /\ queue[i].ext = queue[j].ext =>
         Earlier(queue[i].record, queue[j].record)
  /\ FramesInOrder(frames)

FileFirst ==
  \A i \in DOMAIN file :
    /\ \A j \in DOMAIN queue : Earlier(file[i], queue[j].record)
    /\ BeforeAll(file[i], frames)

\* A record that waits to be written is ahead of all that are not received,
\* one of the extension that waits to be sent again behind those that were.
QueueNext ==
  \A i \in DOMAIN queue :
    IF queue[i].ext
    THEN /\ \A j \in DOMAIN queue :
              ~queue[j].ext => Earlier(queue[j].record, queue[i].record)
         /\ AfterSent(queue[i].record, frames)
         /\ BeforeExt(queue[i].record, frames)
    ELSE BeforeAll(queue[i].record, frames)

ExtLast == \A i \in DOMAIN frames[0] : AfterSent(frames[0][i], frames)

Counted ==
  /\ \A i \in DOMAIN file : file[i].n <= logged[file[i].from]
  /\ \A i \in DOMAIN queue : queue[i].record.n <= logged[queue[i].record.from]
  /\ \A c \in Conns : \A i \in DOMAIN frames[c] :
       frames[c][i] # Garbage => frames[c][i].n <= logged[frames[c][i].from]

OrderInv ==
  CarriersHaveThem /\ EachInOrder /\ FileFirst /\ QueueNext /\ ExtLast /\ Counted

LogInv == TypeInv /\ PhaseInv /\ DeliveryInv /\ OrderInv

----------------------------------------------------------------------------
(* Sequences, and what a step does to the frames.                          *)

LEMMA TailOf ==
  ASSUME NEW S, NEW s \in Seq(S), s # <<>>
  PROVE  /\ Tail(s) \in Seq(S) /\ Len(s) \in Nat \ {0}
         /\ Len(Tail(s)) = Len(s) - 1
         /\ 1 \in DOMAIN s /\ Head(s) = s[1] /\ Head(s) \in S
         /\ \A i \in DOMAIN Tail(s) : i + 1 \in DOMAIN s /\ Tail(s)[i] = s[i + 1]
         /\ \A i \in DOMAIN s :
              i = 1 \/ (i - 1 \in DOMAIN Tail(s) /\ Tail(s)[i - 1] = s[i])
OBVIOUS

LEMMA AppendOf ==
  ASSUME NEW S, NEW s \in Seq(S), NEW e \in S
  PROVE  /\ Append(s, e) \in Seq(S) /\ Len(s) \in Nat
         /\ Len(Append(s, e)) = Len(s) + 1
         /\ \A i \in DOMAIN s : i \in DOMAIN Append(s, e) /\ Append(s, e)[i] = s[i]
         /\ Len(s) + 1 \in DOMAIN Append(s, e) /\ Append(s, e)[Len(s) + 1] = e
         /\ \A i \in DOMAIN Append(s, e) :
              i \in DOMAIN s \/ i = Len(s) + 1
OBVIOUS

LEMMA Kinds ==
  /\ 0 \in Conns /\ Conns \subseteq Nat
  /\ FromExt \subseteq Record /\ Garbage \notin Record
  /\ None \notin Conns /\ Main \in Processes /\ Ext \in Senders
  /\ Processes \subseteq Senders /\ Ext \notin Processes
  /\ \A r \in Record : r.from \in Senders /\ r.n \in 1..MaxRecords
  /\ \A r \in FromExt : r.from = Ext
  /\ \A r \in Record : Carrier(r) \in Processes
<1>1. 0 \in Conns /\ Conns \subseteq Nat /\ None \notin Conns
  BY BoundsAssumption, NamesAssumption DEF Conns
<1>2. FromExt \subseteq Record /\ \A r \in FromExt : r.from = Ext
  BY DEF FromExt, Record, Senders
<1>3. \A r \in Record : r.from \in Senders /\ r.n \in 1..MaxRecords
  BY DEF Record
<1>4. \A r \in Record : Carrier(r) \in Processes
  BY <1>3 DEF Carrier, Senders, Processes
<1> QED
  BY <1>1, <1>2, <1>3, <1>4, NamesAssumption, MainAssumption
     DEF Processes, Senders

\* The record r was put behind what the process p has on its connection, or
\* was not put anywhere: then it is among the torn, or there was no server.
Handed(p, r) ==
  /\ \A c \in Conns : \A i \in DOMAIN frames[c] :
       i \in DOMAIN frames'[c] /\ frames'[c][i] = frames[c][i]
  /\ \A c \in Conns : \A i \in DOMAIN frames'[c] :
       \/ i \in DOMAIN frames[c] /\ frames'[c][i] = frames[c][i]
       \/ /\ c # 0 /\ c = conn'[p] /\ frames'[c][i] = r
          /\ \A j \in DOMAIN frames[c] : j < i
  /\ \A c \in Conns : \A i \in DOMAIN frames'[c] : \A j \in DOMAIN frames'[c] :
       j < i => j \in DOMAIN frames[c]
  /\ \A q \in Processes \ {p} : conn'[q] = conn[q]
  /\ conn'[p] # conn[p] /\ conn[p] # None => frames[conn[p]] = <<>>
  /\ torn \subseteq torn' /\ torn' \subseteq torn \cup {r}
  /\ Connectable =>
       r \in torn' \cup UNION {ToSet(frames'[c]) : c \in Conns \ {0}}

LEMMA SendHands ==
  ASSUME NetType, NEW p \in Processes, NEW r \in Record, Send(p, r)
  PROVE  /\ NetType' /\ Handed(p, r) /\ sent' = sent \cup {r}
         /\ listening' \in {listening, "closed"}
         /\ listening' # listening => listening = "closing"
<1> USE Kinds
<1> DEFINE c == conn[p]
<1>0. /\ sent' = sent \cup {r} /\ c \in (Conns \ {0}) \cup {None}
      /\ frames \in [Conns -> Seq(Record \cup {Garbage})]
      /\ frames[0] \in Seq(FromExt) /\ r \in Record \cup {Garbage}
  BY DEF NetType, Send
<1>1. ASSUME UNCHANGED <<conn, frames>>, NetType',
             torn' \in {torn, torn \cup {r}}, Connectable => r \in torn'
      PROVE NetType' /\ Handed(p, r)
  BY <1>0, <1>1 DEF Handed
<1>2. CASE c = None /\ Connectable
  <2>1. PICK new \in Fresh :
          /\ conn' = [conn EXCEPT ![p] = new]
          /\ state' = [state EXCEPT ![new] = "open"]
          /\ frames' = [frames EXCEPT ![new] = <<r>>]
    BY <1>2 DEF Send
  <2>2. Accepted /\ UNCHANGED torn
    BY <1>2 DEF Send
  <2>3. new \in Conns \ {0} /\ frames[new] = <<>> /\ DOMAIN frames[new] = {}
    BY <2>1 DEF Fresh, NetType
  <2>4. /\ frames'[new] = <<r>> /\ conn'[p] = new
        /\ \A d \in Conns \ {new} : frames'[d] = frames[d]
    BY <2>1, <2>3 DEF NetType
  <2>5. <<r>> \in Seq(Record \cup {Garbage}) /\ DOMAIN <<r>> = {1}
        /\ <<r>>[1] = r
    BY <1>0
  <2>6. NetType'
    <3>1. frames' \in [Conns -> Seq(Record \cup {Garbage})]
      BY <2>1, <2>3, <2>5 DEF NetType
    <3>2. conn' \in [Processes -> (Conns \ {0}) \cup {None}]
      BY <2>1, <2>3 DEF NetType
    <3> QED
      BY <2>1, <2>3, <2>4, <3>1, <3>2 DEF NetType
  <2>7. Handed(p, r)
    <3>1. r \in ToSet(frames'[new])
      BY <2>4, <2>5 DEF ToSet
    <3>2. \A d \in Conns : \A i \in DOMAIN frames'[d] :
            \/ i \in DOMAIN frames[d] /\ frames'[d][i] = frames[d][i]
            \/ d = new /\ i = 1 /\ frames'[d][i] = r
      BY <2>4, <2>5
    <3>3. \A d \in Conns : \A i \in DOMAIN frames[d] :
            d # new /\ i \in DOMAIN frames'[d] /\ frames'[d][i] = frames[d][i]
      BY <2>3, <2>4
    <3>4. \A d \in Conns : \A i \in DOMAIN frames'[d] : \A j \in DOMAIN frames'[d] :
            j < i => j \in DOMAIN frames[d]
      BY <2>4, <2>5
    <3>5. \A q \in Processes \ {p} : conn'[q] = conn[q]
      BY <2>1 DEF NetType
    <3> QED
      BY <1>2, <2>2, <2>3, <2>4, <3>1, <3>2, <3>3, <3>4, <3>5 DEF Handed
  <2> QED
    BY <1>0, <2>2, <2>6, <2>7 DEF Accepted
<1>3. CASE c = None /\ ~Connectable
  BY <1>0, <1>1, <1>3 DEF Send, net, NetType
<1>4. CASE c # None /\ state[c] = "open"
  <2>1. /\ frames' = [frames EXCEPT ![c] = Append(@, r)]
        /\ UNCHANGED <<conn, state, listening, torn>>
    BY <1>4 DEF Send
  <2>2. /\ c \in Conns \ {0} /\ frames[c] \in Seq(Record \cup {Garbage})
        /\ frames'[c] = Append(frames[c], r)
        /\ \A d \in Conns \ {c} : frames'[d] = frames[d]
    BY <1>0, <1>4, <2>1
  <2>3. /\ frames'[c] \in Seq(Record \cup {Garbage}) /\ Len(frames[c]) \in Nat
        /\ \A i \in DOMAIN frames[c] :
             i \in DOMAIN frames'[c] /\ frames'[c][i] = frames[c][i]
        /\ Len(frames[c]) + 1 \in DOMAIN frames'[c]
        /\ frames'[c][Len(frames[c]) + 1] = r
        /\ \A i \in DOMAIN frames'[c] :
             i \in DOMAIN frames[c] \/ i = Len(frames[c]) + 1
    BY <1>0, <2>2, AppendOf
  <2>4. \A i \in DOMAIN frames[c] : i < Len(frames[c]) + 1
    BY <2>2
  <2>5. r \in ToSet(frames'[c])
    BY <2>3 DEF ToSet
  <2>6. NetType'
    BY <1>4, <2>1, <2>2, <2>3 DEF NetType
  <2>7. Handed(p, r)
    BY <2>1, <2>2, <2>3, <2>4, <2>5 DEF Handed
  <2> QED
    BY <1>0, <2>1, <2>6, <2>7
<1>5. CASE c # None /\ state[c] \in {"closed", "stuck"}
  <2>1. /\ torn' = torn \cup {r} /\ UNCHANGED <<state, frames, listening>>
        /\ \/ UNCHANGED conn
           \/ state[c] = "closed" /\ conn' = [conn EXCEPT ![p] = None]
    BY <1>5 DEF Send
  <2>2. NetType' /\ frames[c] = <<>>
    BY <1>0, <1>5, <2>1 DEF NetType
  <2>3. \A q \in Processes \ {p} : conn'[q] = conn[q]
    BY <2>1 DEF NetType
  <2>4. Handed(p, r)
    BY <1>5, <2>1, <2>2, <2>3 DEF Handed
  <2> QED
    BY <1>0, <2>1, <2>2, <2>4
<1> QED
  BY <1>2, <1>3, <1>4, <1>5 DEF Send

\* What _process_record() does with the record at the head of the queue.
LEMMA ProcessDoes ==
  ASSUME TypeInv, NEW after, queue # <<>>, Process(after)
  PROVE  /\ queue' = Tail(queue) /\ UNCHANGED <<status_queue, unfinished, main>>
         /\ UNCHANGED <<logged, before>> /\ listener' \in {after, "dead"}
         /\ NetType' /\ torn \subseteq torn' /\ torn' \subseteq torn \cup sent'
         /\ sent \subseteq sent' /\ sent' \subseteq Record
         /\ listening' \in {listening, "closed"}
         /\ listening' # listening => listening = "closing"
         /\ \/ /\ Head(queue).ext /\ Handed(Main, Head(queue).record)
               /\ sent' = sent \cup {Head(queue).record}
               /\ Head(queue).record \in FromExt /\ UNCHANGED file
            \/ /\ ~Head(queue).ext /\ Head(queue).record \in Record
               /\ UNCHANGED <<conn, state, frames, sent, torn>>
               /\ \/ file' = Append(file, Head(queue).record)
                  \/ listener' = "dead" /\ UNCHANGED file
<1> DEFINE item == Head(queue)
<1>1. /\ item \in Items /\ NetType
      /\ sent \subseteq Record /\ torn \subseteq Record
  BY TailOf DEF TypeInv
<1>2. /\ queue' = Tail(queue) /\ UNCHANGED <<status_queue, unfinished, main>>
      /\ UNCHANGED <<logged, before>>
  BY DEF Process, signals
<1>3. CASE item.ext
  <2>1. item.record \in FromExt /\ item.record \in Record /\ Main \in Processes
    BY <1>1, <1>3, Kinds DEF Items
  <2>2. Send(Main, item.record) /\ listener' = after /\ UNCHANGED file
    BY <1>3 DEF Process
  <2>3. /\ NetType' /\ Handed(Main, item.record)
        /\ sent' = sent \cup {item.record}
        /\ listening' \in {listening, "closed"}
        /\ listening' # listening => listening = "closing"
    BY <1>1, <2>1, <2>2, SendHands
  <2>4. torn \subseteq torn' /\ torn' \subseteq torn \cup {item.record}
    BY <2>3 DEF Handed
  <2> QED
    BY <1>1, <1>2, <1>3, <2>1, <2>2, <2>3, <2>4
<1>4. CASE ~item.ext
  <2>1. /\ UNCHANGED <<conn, state, frames, listening, sent, torn>>
        /\ \/ listener' = "dead" /\ UNCHANGED file
           \/ listener' = after /\ file' = Append(file, item.record)
    BY <1>4 DEF Process, net
  <2>2. item.record \in Record
    BY <1>1, <1>4 DEF Items
  <2>3. NetType'
    BY <1>1, <2>1 DEF NetType
  <2> QED
    BY <1>1, <1>2, <1>4, <2>1, <2>2, <2>3
<1> QED
  BY <1>3, <1>4

\* What _handle_conn() does with a record at the head of its connection.
LEMMA ReceiveDoes ==
  ASSUME TypeInv, NEW c \in Conns, Receive(c)
  PROVE  /\ state[c] = "open"
         /\ UNCHANGED <<status_queue, unfinished, main, listener, listening>>
         /\ UNCHANGED <<conn, state, file, logged, sent, torn, before>>
         /\ 1 \in DOMAIN frames[c] /\ frames[c][1] \in Record
         /\ c = 0 => frames[c][1] \in FromExt
         /\ queue' = Append(queue, [ext |-> c = 0, record |-> frames[c][1]])
         /\ queue' \in Seq(Items) /\ Len(queue) \in Nat
         /\ \A i \in DOMAIN queue : i \in DOMAIN queue' /\ queue'[i] = queue[i]
         /\ Len(queue) + 1 \in DOMAIN queue'
         /\ queue'[Len(queue) + 1].ext = (c = 0)
         /\ queue'[Len(queue) + 1].record = frames[c][1]
         /\ \A i \in DOMAIN queue' : i \in DOMAIN queue \/ i = Len(queue) + 1
         /\ \A d \in Conns \ {c} : frames'[d] = frames[d]
         /\ frames' = [frames EXCEPT ![c] = Tail(frames[c])]
         /\ \A i \in DOMAIN frames'[c] :
              i + 1 \in DOMAIN frames[c] /\ frames'[c][i] = frames[c][i + 1]
         /\ \A i \in DOMAIN frames[c] :
              \/ i = 1
              \/ i - 1 \in DOMAIN frames'[c] /\ frames'[c][i - 1] = frames[c][i]
<1> DEFINE item == [ext |-> c = 0, record |-> frames[c][1]]
<1>1. /\ frames[c] # <<>> /\ Head(frames[c]) # Garbage /\ state[c] = "open"
      /\ queue' = Append(queue, [ext |-> c = 0, record |-> Head(frames[c])])
      /\ frames' = [frames EXCEPT ![c] = Tail(frames[c])]
      /\ UNCHANGED <<status_queue, unfinished, main, listener, listening>>
      /\ UNCHANGED <<conn, state, file, logged, sent, torn, before>>
  BY DEF Receive, signals, threads, history
<1>2. /\ frames[c] \in Seq(Record \cup {Garbage})
      /\ c = 0 => frames[c] \in Seq(FromExt)
      /\ queue \in Seq(Items) /\ DOMAIN frames = Conns
  BY DEF TypeInv, NetType
<1>3. /\ Head(frames[c]) = frames[c][1] /\ 1 \in DOMAIN frames[c]
      /\ frames[c][1] \in Record /\ (c = 0 => frames[c][1] \in FromExt)
      /\ \A i \in DOMAIN Tail(frames[c]) :
           i + 1 \in DOMAIN frames[c] /\ Tail(frames[c])[i] = frames[c][i + 1]
      /\ \A i \in DOMAIN frames[c] :
           \/ i = 1
           \/ /\ i - 1 \in DOMAIN Tail(frames[c])
              /\ Tail(frames[c])[i - 1] = frames[c][i]
  BY <1>1, <1>2, TailOf
<1>4. item \in Items /\ queue' = Append(queue, item)
  BY <1>1, <1>3 DEF Items
<1>5. /\ queue' \in Seq(Items) /\ Len(queue) \in Nat
      /\ \A i \in DOMAIN queue : i \in DOMAIN queue' /\ queue'[i] = queue[i]
      /\ Len(queue) + 1 \in DOMAIN queue' /\ queue'[Len(queue) + 1] = item
      /\ \A i \in DOMAIN queue' : i \in DOMAIN queue \/ i = Len(queue) + 1
  BY <1>2, <1>4, AppendOf
<1>7. item.ext = (c = 0) /\ item.record = frames[c][1]
  OBVIOUS
<1> HIDE DEF item
<1>6. /\ frames'[c] = Tail(frames[c])
      /\ \A d \in Conns \ {c} : frames'[d] = frames[d]
  BY <1>1, <1>2
<1> QED
  BY <1>1, <1>3, <1>4, <1>5, <1>6, <1>7 DEF item

----------------------------------------------------------------------------
(* The types and the phases are kept.                                      *)

LEMMA InitType == Init => TypeInv /\ PhaseInv
<1> SUFFICES ASSUME Init
             PROVE TypeInv /\ PhaseInv
  OBVIOUS
<1>1. NetType
  BY Kinds DEF Init, NetType
<1>2. logged \in [Senders -> 0..MaxRecords]
  BY BoundsAssumption DEF Init
<1> QED
  BY <1>1, <1>2 DEF Init, TypeInv, PhaseInv, ServesUntilClosed

\* The sender p has one record more to log.
LEMMA NextRecordOf ==
  ASSUME TypeInv, NEW p \in Senders, logged[p] < MaxRecords
  PROVE  /\ NextRecord(p) \in Record /\ NextRecord(p).from = p
         /\ NextRecord(p).n = logged[p] + 1
         /\ p = Ext => NextRecord(p) \in FromExt
         /\ logged[p] + 1 \in 0..MaxRecords
BY BoundsAssumption DEF TypeInv, NextRecord, Record, FromExt

LEMMA TypeStep == TypeInv /\ PhaseInv /\ [Next]_vars => TypeInv'
<1> SUFFICES ASSUME TypeInv, PhaseInv, [Next]_vars
             PROVE TypeInv'
  OBVIOUS
<1> USE Kinds
<1>1. CASE GetAddress
  <2>1. /\ main = "starting" /\ status_queue # <<>> /\ main' = "running"
        /\ status_queue' = Tail(status_queue) /\ unfinished' = unfinished - 1
        /\ listener' \in {listener, "checking"}
        /\ UNCHANGED <<listening, conn, state, frames, queue, file, logged>>
        /\ UNCHANGED <<sent, torn, before>>
    BY <1>1 DEF GetAddress, net, history
  <2>2. unfinished = 1
    BY <2>1 DEF PhaseInv
  <2> QED
    BY <2>1, <2>2 DEF TypeInv, NetType
<1>2. CASE Close
  BY <1>2 DEF Close, Put, net, TypeInv, NetType
<1>3. CASE CloseReturns
  BY <1>3 DEF CloseReturns, signals, net, history, TypeInv, NetType
<1>4. ASSUME NEW p \in Processes, Log(p)
      PROVE TypeInv'
  <2> DEFINE r == NextRecord(p)
  <2>1. /\ logged[p] < MaxRecords /\ Send(p, r)
        /\ logged' = [logged EXCEPT ![p] = @ + 1]
        /\ UNCHANGED <<status_queue, unfinished, main, listener, queue, file>>
        /\ UNCHANGED before
    BY <1>4 DEF Log, signals, threads
  <2>2. r \in Record /\ logged[p] + 1 \in 0..MaxRecords
    BY <2>1, NextRecordOf
  <2>3. /\ NetType' /\ Handed(p, r) /\ sent' = sent \cup {r}
        /\ listening' \in {listening, "closed"}
    BY <2>1, <2>2, SendHands DEF TypeInv
  <2>4. torn' \subseteq torn \cup {r}
    BY <2>3 DEF Handed
  <2>5. logged' \in [Senders -> 0..MaxRecords]
    BY <2>1, <2>2 DEF TypeInv
  <2> QED
    BY <2>1, <2>2, <2>3, <2>4, <2>5 DEF TypeInv
<1>5. ASSUME NEW p \in Children, Fork(p)
      PROVE TypeInv'
  <2>1. conn' = [conn EXCEPT ![p] = conn[Main]] /\ conn[Main] # None
    BY <1>5 DEF Fork
  <2>2. conn' \in [Processes -> (Conns \ {0}) \cup {None}]
    BY <2>1 DEF TypeInv, NetType
  <2> QED
    BY <1>5, <2>2 DEF Fork, signals, threads, history, TypeInv, NetType
<1>6. ASSUME NEW p \in Children, NEW q \in Processes, Mix(p, q)
      PROVE TypeInv'
  <2> DEFINE both == {NextRecord(p), NextRecord(q)}
  <2>1. /\ p # q /\ conn[p] # None /\ state[conn[p]] = "open"
        /\ logged[p] < MaxRecords /\ logged[q] < MaxRecords
        /\ sent' = sent \cup both /\ torn' = torn \cup both
        /\ frames' = [frames EXCEPT ![conn[p]] = Append(@, Garbage)]
        /\ logged' = [logged EXCEPT ![p] = @ + 1, ![q] = @ + 1]
        /\ UNCHANGED <<status_queue, unfinished, main, listener, listening>>
        /\ UNCHANGED <<conn, state, queue, file, before>>
    BY <1>6 DEF Mix, signals, threads
  <2>2. p \in Senders /\ q \in Senders /\ p \in Processes
    BY DEF Processes
  <2>3. both \subseteq Record
    BY <2>1, <2>2, NextRecordOf
  <2>4. logged[p] + 1 \in 0..MaxRecords /\ logged[q] + 1 \in 0..MaxRecords
    BY <2>1, <2>2, NextRecordOf
  <2>5. logged' \in [Senders -> 0..MaxRecords]
    BY <2>1, <2>2, <2>4 DEF TypeInv
  <2>6. conn[p] \in Conns \ {0}
    BY <2>1, <2>2 DEF TypeInv, NetType
  <2>7. Append(frames[conn[p]], Garbage) \in Seq(Record \cup {Garbage})
    BY <2>6, AppendOf DEF TypeInv, NetType
  <2>8. NetType'
    BY <2>1, <2>6, <2>7 DEF TypeInv, NetType
  <2> QED
    BY <2>1, <2>3, <2>5, <2>8 DEF TypeInv
<1>7. CASE ExtLog
  <2> DEFINE r == NextRecord(Ext)
  <2>1. /\ logged[Ext] < MaxRecords
        /\ \/ state' = [state EXCEPT ![0] = "open"]
           \/ state[0] = "open" /\ UNCHANGED state
        /\ listening' \in {listening, "closed"}
        /\ frames' = [frames EXCEPT ![0] = Append(@, r)]
        /\ logged' = [logged EXCEPT ![Ext] = @ + 1]
        /\ UNCHANGED <<status_queue, unfinished, main, listener, conn, queue>>
        /\ UNCHANGED <<file, sent, torn, before>>
    BY <1>7 DEF ExtLog, Accepted, signals, threads, history
  <2>2. r \in FromExt /\ logged[Ext] + 1 \in 0..MaxRecords
    BY <2>1, NextRecordOf
  <2>3. logged' \in [Senders -> 0..MaxRecords]
    BY <2>1, <2>2 DEF TypeInv
  <2>4. /\ Append(frames[0], r) \in Seq(FromExt)
        /\ Append(frames[0], r) \in Seq(Record \cup {Garbage})
    BY <2>2, AppendOf DEF TypeInv, NetType
  <2>5. NetType'
    BY <2>1, <2>4 DEF TypeInv, NetType
  <2> QED
    BY <2>1, <2>3, <2>5 DEF TypeInv
<1>8. ASSUME NEW c \in Conns, Receive(c)
      PROVE TypeInv'
  <2>1. Tail(frames[c]) \in Seq(Record \cup {Garbage})
        /\ (c = 0 => Tail(frames[c]) \in Seq(FromExt))
    <3>1. frames[c] \in Seq(Record \cup {Garbage}) /\ frames[0] \in Seq(FromExt)
      BY DEF TypeInv, NetType
    <3>2. frames[c] # <<>>
      BY <1>8 DEF Receive
    <3> QED
      BY <3>1, <3>2, TailOf
  <2>2. /\ frames' = [frames EXCEPT ![c] = Tail(frames[c])] /\ state[c] = "open"
        /\ UNCHANGED <<conn, state>>
    BY <1>8, ReceiveDoes
  <2>3. NetType'
    BY <2>1, <2>2 DEF TypeInv, NetType
  <2> QED
    BY <1>8, <2>3, ReceiveDoes DEF TypeInv
<1>9. ASSUME NEW c \in Conns, ReceiveGarbage(c)
      PROVE TypeInv'
  <2>1. /\ \E s \in {"closed", "stuck"} : state' = [state EXCEPT ![c] = s]
        /\ torn' = torn \cup (ToSet(frames[c]) \ {Garbage})
        /\ frames' = [frames EXCEPT ![c] = <<>>]
        /\ UNCHANGED <<status_queue, unfinished, main, listener, listening>>
        /\ UNCHANGED <<conn, queue, file, logged, sent, before>>
    BY <1>9 DEF ReceiveGarbage, signals, threads
  <2>2. torn' \subseteq Record
    BY <2>1 DEF ToSet, TypeInv, NetType
  <2>3. NetType'
    BY <2>1 DEF TypeInv, NetType
  <2> QED
    BY <2>1, <2>2, <2>3 DEF TypeInv
<1>10. CASE Bind
  BY <1>10 DEF Bind, Put, net, history, TypeInv, NetType
<1>11. CASE Join \/ Check
  <2>1. status_queue' \in Seq({"address", "SHUTDOWN"})
    <3>1. \/ UNCHANGED status_queue
          \/ status_queue # <<>> /\ status_queue' = Tail(status_queue)
      BY <1>11 DEF Join, Check, signals
    <3>2. status_queue \in Seq({"address", "SHUTDOWN"})
      BY DEF TypeInv
    <3> QED
      BY <3>1, <3>2
  <2> QED
    BY <1>11, <2>1 DEF Join, Check, signals, net, history, TypeInv, NetType
<1>12. ASSUME NEW after \in {"checking", "draining"}, queue # <<>>, Process(after)
       PROVE TypeInv'
  <2>1. queue' \in Seq(Items)
    <3>1. queue' = Tail(queue) /\ queue # <<>>
      BY <1>12, ProcessDoes
    <3>2. queue \in Seq(Items)
      BY DEF TypeInv
    <3> QED
      BY <3>1, <3>2, TailOf
  <2>2. file' \in Seq(Record)
    <3>1. UNCHANGED file \/ \E r \in Record : file' = Append(file, r)
      BY <1>12, ProcessDoes
    <3>2. file \in Seq(Record)
      BY DEF TypeInv
    <3>3. \A r \in Record : Append(file, r) \in Seq(Record)
      BY <3>2, AppendOf
    <3> QED
      BY <3>1, <3>2, <3>3
  <2> QED
    BY <1>12, <2>1, <2>2, ProcessDoes DEF TypeInv
<1>13. CASE GetTimesOut \/ PauseEnds
  BY <1>13 DEF GetTimesOut, PauseEnds, signals, net, history, TypeInv, NetType
<1>14. CASE Drained
  <2>1. unfinished = 1
    BY <1>14 DEF Drained, PhaseInv, TypeInv
  <2> QED
    BY <1>14, <2>1 DEF Drained, net, history, TypeInv, NetType
<1>15. CASE UNCHANGED vars
  BY <1>15 DEF vars, signals, threads, net, history, TypeInv, NetType
<1> QED
  BY <1>1, <1>2, <1>3, <1>4, <1>5, <1>6, <1>7, <1>8, <1>9, <1>10, <1>11, <1>12,
     <1>13, <1>14, <1>15
     DEF Next, Listener, Get, Drain

\* The steps of the senders and of the threads of the connections.
Passing ==
  \/ \E p \in Processes : Log(p)
  \/ \E p \in Children : Fork(p) \/ \E q \in Processes : Mix(p, q)
  \/ ExtLog
  \/ \E c \in Conns : Receive(c) \/ ReceiveGarbage(c)

\* They leave the main thread and the listener alone, and log nothing before
\* the server has started.
LEMMA PassingLeaves ==
  ASSUME TypeInv, PhaseInv, Passing
  PROVE  /\ UNCHANGED <<status_queue, unfinished, main, listener, file, before>>
         /\ listening' \in {listening, "closed"}
         /\ listening' # listening => listening = "closing"
         /\ main = "starting" => UNCHANGED <<sent, conn>>
<1>1. ASSUME NEW p \in Processes, Log(p)
      PROVE /\ UNCHANGED <<status_queue, unfinished, main, listener, file>>
            /\ UNCHANGED before /\ listening' \in {listening, "closed"}
            /\ listening' # listening => listening = "closing"
            /\ main # "starting"
  <2>1. NextRecord(p) \in Record /\ NetType
    BY <1>1, NextRecordOf DEF Log, Senders, TypeInv
  <2> QED
    BY <1>1, <2>1, SendHands DEF Log, signals, threads
<1>2. ASSUME NEW p \in Children, Fork(p)
      PROVE /\ UNCHANGED <<status_queue, unfinished, main, listener, file>>
            /\ UNCHANGED <<before, listening>> /\ main # "starting"
  BY <1>2 DEF Fork, signals, threads, history
<1>3. ASSUME NEW p \in Children, NEW q \in Processes, Mix(p, q)
      PROVE /\ UNCHANGED <<status_queue, unfinished, main, listener, file>>
            /\ UNCHANGED <<before, listening>> /\ main # "starting"
  BY <1>3 DEF Mix, signals, threads, PhaseInv, Processes
<1>4. CASE ExtLog
  BY <1>4 DEF ExtLog, Accepted, signals, threads, history
<1>5. ASSUME NEW c \in Conns, Receive(c) \/ ReceiveGarbage(c)
      PROVE /\ UNCHANGED <<status_queue, unfinished, main, listener, file>>
            /\ UNCHANGED <<before, listening, sent, conn>>
  BY <1>5 DEF Receive, ReceiveGarbage, signals, threads, history
<1> QED
  BY <1>1, <1>2, <1>3, <1>4, <1>5 DEF Passing

LEMMA PhaseStep == TypeInv /\ PhaseInv /\ [Next]_vars => PhaseInv'
<1> SUFFICES ASSUME TypeInv, PhaseInv, [Next]_vars
             PROVE PhaseInv'
  OBVIOUS
<1> USE DEF PhaseInv, ServesUntilClosed
<1>1. CASE Passing
  BY <1>1, PassingLeaves
<1>2. CASE GetAddress
  <2>1. status_queue' = Tail(status_queue) /\ unfinished' = unfinished - 1
    BY <1>2 DEF GetAddress
  <2>2. Len(status_queue) = 1 /\ unfinished = 1
    BY <1>2 DEF GetAddress
  <2>3. status_queue' = <<>> /\ unfinished' = 0
    BY <2>1, <2>2 DEF TypeInv
  <2> QED
    BY <1>2, <2>2, <2>3 DEF GetAddress, net
<1>3. CASE Close
  BY <1>3 DEF Close, Put, TypeInv
<1>4. CASE CloseReturns
  BY <1>4 DEF CloseReturns, signals
<1>5. CASE Bind
  <2>1. Len(Append(status_queue, "address")) = Len(status_queue) + 1
    BY DEF TypeInv
  <2> QED
    BY <1>5, <2>1 DEF Bind, Put, history, net, TypeInv
<1>6. CASE Join
  BY <1>6 DEF Join, history, signals, net
<1>7. CASE Check
  BY <1>7 DEF Check, history, net, TypeInv
<1>8. ASSUME NEW after \in {"checking", "draining"}, queue # <<>>, Process(after),
             listener = (IF after = "checking" THEN "getting" ELSE "draining")
      PROVE PhaseInv'
  <2>1. /\ UNCHANGED <<status_queue, unfinished, main>>
        /\ listener' \in {after, "dead"} /\ listening' \in {listening, "closed"}
        /\ listening' # listening => listening = "closing"
    BY <1>8, ProcessDoes
  <2> QED
    BY <1>8, <2>1 DEF TypeInv
<1>9. CASE GetTimesOut
  BY <1>9 DEF GetTimesOut, history, signals, net
<1>10. CASE PauseEnds
  BY <1>10 DEF PauseEnds, history, signals, net
<1>11. CASE Drained
  BY <1>11 DEF Drained, history, net, TypeInv
<1>12. CASE UNCHANGED vars
  BY <1>12 DEF vars, history, signals, threads, net
<1> QED
  BY <1>1, <1>2, <1>3, <1>4, <1>5, <1>6, <1>7, <1>8, <1>9, <1>10, <1>11, <1>12
     DEF Next, Passing, Listener, Get, Drain

----------------------------------------------------------------------------
(* Nothing is lost on the way.                                             *)

OnTheNet == UNION {ToSet(frames[c]) : c \in Conns \ {0}}

\* Where a record that was sent can be: in the file or spoilt, or in the
\* queue, or not received.
Filed == ToSet(file) \cup torn
Saved == Filed \cup Queued
Kept  == Saved \cup OnTheNet

LEMMA Whereabouts ==
  /\ \A r : r \in OnTheNet <=>
       \E c \in Conns \ {0} : \E i \in DOMAIN frames[c] : frames[c][i] = r
  /\ \A r : r \in OnTheNet' <=>
       \E c \in Conns \ {0} : \E i \in DOMAIN frames'[c] : frames'[c][i] = r
  /\ \A r : r \in Queued <=>
       \E i \in DOMAIN queue : ~queue[i].ext /\ queue[i].record = r
  /\ \A r : r \in Queued' <=>
       \E i \in DOMAIN queue' : ~queue'[i].ext /\ queue'[i].record = r
  /\ InTransit = OnTheNet \cup Queued
  /\ InTransit' = OnTheNet' \cup Queued'
<1>1. \A r : r \in OnTheNet <=>
        \E c \in Conns \ {0} : \E i \in DOMAIN frames[c] : frames[c][i] = r
  BY DEF OnTheNet, ToSet
<1>2. \A r : r \in OnTheNet' <=>
        \E c \in Conns \ {0} : \E i \in DOMAIN frames'[c] : frames'[c][i] = r
  BY DEF OnTheNet, ToSet
<1>3. \A r : r \in Queued <=>
        \E i \in DOMAIN queue : ~queue[i].ext /\ queue[i].record = r
  BY DEF Queued, ToSet
<1>4. \A r : r \in Queued' <=>
        \E i \in DOMAIN queue' : ~queue'[i].ext /\ queue'[i].record = r
  BY DEF Queued, ToSet
<1>5. InTransit = OnTheNet \cup Queued /\ InTransit' = OnTheNet' \cup Queued'
  BY DEF InTransit, OnTheNet, Queued
<1> QED
  BY <1>1, <1>2, <1>3, <1>4, <1>5

\* No step moves a record back, and what is sent goes on its way.
Onward ==
  /\ Filed \cap Record \subseteq Filed'
  /\ Saved \cap Record \subseteq Saved'
  /\ Kept \cap Record \subseteq Kept'
  /\ Connectable => sent' \subseteq sent \cup Kept'

LEMMA HandedOnward ==
  ASSUME NEW p, NEW r, Handed(p, r)
  PROVE  /\ OnTheNet \subseteq OnTheNet' /\ torn \subseteq torn'
         /\ Connectable => r \in torn' \cup OnTheNet'
<1>1. \A c \in Conns : \A i \in DOMAIN frames[c] :
        i \in DOMAIN frames'[c] /\ frames'[c][i] = frames[c][i]
  BY DEF Handed
<1>2. OnTheNet \subseteq OnTheNet'
  BY <1>1, Whereabouts
<1> QED
  BY <1>2 DEF Handed, OnTheNet

LEMMA PassingOnward == ASSUME TypeInv, Passing PROVE Onward
<1> USE Kinds
<1>1. ASSUME NEW p \in Processes, Log(p)
      PROVE Onward
  <2>1. /\ NextRecord(p) \in Record /\ NetType /\ Send(p, NextRecord(p))
        /\ UNCHANGED <<queue, file>>
    BY <1>1, NextRecordOf DEF Log, Senders, TypeInv
  <2>2. Handed(p, NextRecord(p)) /\ sent' = sent \cup {NextRecord(p)}
    BY <2>1, SendHands
  <2> QED
    BY <2>1, <2>2, HandedOnward DEF Onward, Kept, Saved, Filed, Queued
<1>2. ASSUME NEW p \in Children, Fork(p)
      PROVE Onward
  BY <1>2 DEF Fork, history, Onward, Kept, Saved, Filed, Queued, OnTheNet
<1>3. ASSUME NEW p \in Children, NEW q \in Processes, Mix(p, q)
      PROVE Onward
  <2>1. /\ torn \subseteq torn' /\ sent' \subseteq sent \cup torn'
        /\ UNCHANGED <<queue, file>>
        /\ frames' = [frames EXCEPT ![conn[p]] = Append(@, Garbage)]
        /\ conn[p] \in Conns /\ p \in Processes
    BY <1>3 DEF Mix, TypeInv, NetType, Processes
  <2>2. \A c \in Conns : \A i \in DOMAIN frames[c] :
          i \in DOMAIN frames'[c] /\ frames'[c][i] = frames[c][i]
    <3> SUFFICES ASSUME NEW c \in Conns
                 PROVE \A i \in DOMAIN frames[c] :
                   i \in DOMAIN frames'[c] /\ frames'[c][i] = frames[c][i]
      OBVIOUS
    <3>1. frames[c] \in Seq(Record \cup {Garbage})
      BY DEF TypeInv, NetType
    <3>2. frames'[c] = frames[c] \/ frames'[c] = Append(frames[c], Garbage)
      BY <2>1 DEF TypeInv, NetType
    <3> QED
      BY <3>1, <3>2, AppendOf
  <2>3. OnTheNet \subseteq OnTheNet'
    BY <2>2, Whereabouts
  <2> QED
    BY <2>1, <2>3 DEF Onward, Kept, Saved, Filed, Queued
<1>4. CASE ExtLog
  <2>1. \A c \in Conns \ {0} : frames'[c] = frames[c]
    BY <1>4 DEF ExtLog, TypeInv, NetType
  <2>2. OnTheNet' = OnTheNet
    BY <2>1 DEF OnTheNet
  <2> QED
    BY <1>4, <2>2 DEF ExtLog, history, Onward, Kept, Saved, Filed, Queued
<1>5. ASSUME NEW c \in Conns, Receive(c)
      PROVE Onward
  <2>1. UNCHANGED <<file, sent, torn>>
    BY <1>5 DEF Receive, history
  <2>0. /\ \A i \in DOMAIN queue : i \in DOMAIN queue' /\ queue'[i] = queue[i]
        /\ Len(queue) + 1 \in DOMAIN queue'
        /\ queue'[Len(queue) + 1].ext = (c = 0)
        /\ queue'[Len(queue) + 1].record = frames[c][1]
        /\ \A d \in Conns \ {c} : frames'[d] = frames[d]
        /\ \A i \in DOMAIN frames[c] :
             \/ i = 1
             \/ i - 1 \in DOMAIN frames'[c] /\ frames'[c][i - 1] = frames[c][i]
    BY <1>5, ReceiveDoes
  <2>2. Queued \subseteq Queued' /\ (c # 0 => frames[c][1] \in Queued')
    <3>1. \A i \in DOMAIN queue :
            ~queue[i].ext => queue[i].record \in Queued'
      BY <2>0, Whereabouts
    <3>2. c # 0 => ~queue'[Len(queue) + 1].ext
      BY <2>0
    <3> QED
      BY <2>0, <3>1, <3>2, Whereabouts
  <2>3. OnTheNet \subseteq OnTheNet' \cup Queued'
    <3> SUFFICES ASSUME NEW d \in Conns \ {0}, NEW i \in DOMAIN frames[d]
                 PROVE frames[d][i] \in OnTheNet' \cup Queued'
      BY Whereabouts
    <3>1. CASE d # c
      <4>1. frames'[d] = frames[d]
        BY <2>0, <3>1
      <4> QED
        BY <4>1, Whereabouts
    <3>2. CASE d = c /\ i # 1
      <4>1. i - 1 \in DOMAIN frames'[c] /\ frames'[c][i - 1] = frames[c][i]
        BY <2>0, <3>2
      <4> QED
        BY <3>2, <4>1, Whereabouts
    <3> QED
      BY <2>2, <3>1, <3>2
  <2> QED
    BY <2>1, <2>2, <2>3 DEF Onward, Kept, Saved, Filed
<1>6. ASSUME NEW c \in Conns, ReceiveGarbage(c)
      PROVE Onward
  <2>1. /\ torn' = torn \cup (ToSet(frames[c]) \ {Garbage})
        /\ frames' = [frames EXCEPT ![c] = <<>>]
        /\ UNCHANGED <<queue, file, sent>>
    BY <1>6 DEF ReceiveGarbage
  <2>2. \A d \in Conns : frames'[d] = frames[d] \/ d = c
    BY <2>1 DEF TypeInv, NetType
  <2>3. OnTheNet \cap Record \subseteq OnTheNet' \cup torn'
    BY <2>1, <2>2 DEF OnTheNet
  <2> QED
    BY <2>1, <2>3 DEF Onward, Kept, Saved, Filed, Queued
<1> QED
  BY <1>1, <1>2, <1>3, <1>4, <1>5, <1>6 DEF Passing

\* So it is when the listener works off the queue, unless it dies of a record.
LEMMA ProcessOnward ==
  ASSUME TypeInv, NEW after, queue # <<>>, Process(after), listener' # "dead"
  PROVE  Onward
<1> DEFINE item == Head(queue)
<1>1. queue \in Seq(Items) /\ file \in Seq(Record) /\ queue' = Tail(queue)
  BY ProcessDoes DEF TypeInv
<1>2. \A r : r \in Queued => r \in Queued' \/ (~item.ext /\ r = item.record)
  <2> SUFFICES ASSUME NEW i \in DOMAIN queue, ~queue[i].ext
               PROVE \/ queue[i].record \in Queued'
                     \/ ~item.ext /\ queue[i].record = item.record
    BY Whereabouts
  <2>1. CASE i = 1
    BY <1>1, <2>1, TailOf
  <2>2. CASE i - 1 \in DOMAIN queue' /\ queue'[i - 1] = queue[i]
    BY <2>2, Whereabouts
  <2> QED
    BY <1>1, <2>1, <2>2, TailOf
<1>3. CASE item.ext
  <2>1. /\ Handed(Main, item.record) /\ UNCHANGED file
        /\ sent' = sent \cup {item.record}
    BY <1>3, ProcessDoes
  <2>2. Queued \subseteq Queued'
    BY <1>2, <1>3
  <2> QED
    BY <2>1, <2>2, HandedOnward DEF Onward, Kept, Saved, Filed
<1>4. CASE ~item.ext
  <2>1. /\ UNCHANGED <<frames, sent, torn>> /\ item.record \in Record
        /\ file' = Append(file, item.record)
    BY <1>4, ProcessDoes
  <2>2. ToSet(file) \cup {item.record} \subseteq ToSet(file')
    BY <1>1, <2>1, AppendOf DEF ToSet
  <2>3. OnTheNet' = OnTheNet
    BY <2>1 DEF OnTheNet
  <2> QED
    BY <1>2, <2>1, <2>2, <2>3 DEF Onward, Kept, Saved, Filed
<1> QED
  BY <1>3, <1>4

\* The pause leaves nothing of what close() found on the connections.
LEMMA PauseEmpties ==
  ASSUME TypeInv, PauseEnds
  PROVE  before \cap OnTheNet = {}
BY DEF PauseEnds, OnTheNet, ToSet, TypeInv, NetType

LEMMA InitDelivery == Init => DeliveryInv
BY DEF Init, DeliveryInv, OnItsWay, BeforeInv

LEMMA DeliveryStep ==
  TypeInv /\ PhaseInv /\ DeliveryInv /\ [Next]_vars => DeliveryInv'
<1> SUFFICES ASSUME TypeInv, PhaseInv, DeliveryInv, [Next]_vars
             PROVE DeliveryInv'
  OBVIOUS
<1>1. /\ OnItsWay <=> (main = "running" /\ listener # "dead" => sent \subseteq Kept)
      /\ OnItsWay' <=> (main = "running" /\ listener # "dead" => sent \subseteq Kept)'
  BY Whereabouts DEF OnItsWay, Kept, Saved, Filed
<1>2. /\ BeforeInv <=>
           (main \in {"closing", "closed"} =>
              CASE listener = "dead" -> TRUE
                [] listener = "ended" -> before \subseteq Filed
                [] listener = "draining" -> before \subseteq Saved
                [] OTHER -> before \subseteq Kept)
      /\ BeforeInv' <=>
           (main \in {"closing", "closed"} =>
              CASE listener = "dead" -> TRUE
                [] listener = "ended" -> before \subseteq Filed
                [] listener = "draining" -> before \subseteq Saved
                [] OTHER -> before \subseteq Kept)'
  BY Whereabouts DEF BeforeInv, Kept, Saved, Filed
<1>3. sent \subseteq Record /\ before \subseteq Record
  BY DEF TypeInv
<1>4. ASSUME Onward, UNCHANGED <<main, before>>,
             listener' = listener \/ {listener, listener'} \subseteq
                                       {"checking", "getting", "pausing"}
      PROVE DeliveryInv'
  <2>1. main = "running" => Connectable
    BY DEF PhaseInv, ServesUntilClosed, Connectable, TypeInv
  <2>2. OnItsWay'
    BY <1>1, <1>3, <1>4, <2>1 DEF DeliveryInv, Onward
  <2>3. BeforeInv'
    BY <1>2, <1>3, <1>4 DEF DeliveryInv, Onward
  <2> QED
    BY <2>2, <2>3 DEF DeliveryInv
<1>5. ASSUME UNCHANGED <<queue, file, torn, frames>>
      PROVE UNCHANGED <<Filed, Saved, Kept>>
  BY <1>5 DEF Kept, Saved, Filed, Queued, OnTheNet
<1>6. CASE Passing
  BY <1>4, <1>6, PassingLeaves, PassingOnward
<1>7. CASE GetAddress
  <2>1. sent' = {} /\ main' = "running"
    BY <1>7 DEF GetAddress, history, PhaseInv
  <2> QED
    BY <1>1, <1>2, <2>1 DEF DeliveryInv
<1>8. CASE Close
  <2>1. /\ main = "running" /\ main' = "closing" /\ before' = sent
        /\ UNCHANGED <<Filed, Saved, Kept, listener>>
    BY <1>5, <1>8 DEF Close, net
  <2>2. listener \in {"bound", "checking", "getting", "dead"}
    BY <2>1 DEF PhaseInv
  <2> QED
    BY <1>1, <1>2, <2>1, <2>2 DEF DeliveryInv
<1>9. CASE CloseReturns
  <2>1. /\ main = "closing" /\ main' = "closed"
        /\ UNCHANGED <<Filed, Saved, Kept, listener, before>>
    BY <1>5, <1>9 DEF CloseReturns, net, history
  <2> QED
    BY <1>1, <1>2, <2>1 DEF DeliveryInv
<1>10. CASE Bind \/ Join \/ Check \/ GetTimesOut
  <2>1. /\ UNCHANGED <<Filed, Saved, Kept, main, before, sent>>
        /\ listener \notin {"dead", "ended", "draining"}
        /\ listener' \notin {"dead", "ended", "draining"}
    BY <1>5, <1>10 DEF Bind, Join, Check, GetTimesOut, net, history
  <2> QED
    BY <1>1, <1>2, <2>1 DEF DeliveryInv
<1>11. ASSUME NEW after \in {"checking", "draining"}, queue # <<>>, Process(after),
              listener = (IF after = "checking" THEN "getting" ELSE "draining")
       PROVE DeliveryInv'
  <2>1. UNCHANGED <<main, before>> /\ listener' \in {after, "dead"}
    BY <1>11, ProcessDoes
  <2>2. CASE listener' = "dead"
    BY <1>1, <1>2, <2>2 DEF DeliveryInv
  <2>3. CASE listener' # "dead"
    <3>1. Onward
      BY <1>11, <2>3, ProcessOnward
    <3> QED
      BY <1>4, <1>11, <2>1, <2>3, <3>1
  <2> QED
    BY <2>2, <2>3
<1>12. CASE PauseEnds
  <2>1. /\ UNCHANGED <<Filed, Saved, Kept, main, before, sent>>
        /\ listener = "pausing" /\ listener' = "draining"
    BY <1>5, <1>12 DEF PauseEnds, net, history
  <2>2. main # "running" /\ before \cap OnTheNet = {}
    BY <1>12, <2>1, PauseEmpties DEF PhaseInv
  <2> QED
    BY <1>1, <1>2, <2>1, <2>2 DEF DeliveryInv, Kept
<1>13. CASE Drained
  <2>1. /\ UNCHANGED <<Filed, Saved, Kept, main, before, sent>>
        /\ listener = "draining" /\ listener' = "ended" /\ queue = <<>>
    BY <1>5, <1>13 DEF Drained, net, history
  <2>2. main # "running" /\ Queued = {}
    BY <2>1, Whereabouts DEF PhaseInv
  <2> QED
    BY <1>1, <1>2, <2>1, <2>2 DEF DeliveryInv, Saved
<1>14. CASE UNCHANGED vars
  <2>1. UNCHANGED <<Filed, Saved, Kept, main, listener, before, sent>>
    BY <1>5, <1>14 DEF vars, threads, net, history
  <2> QED
    BY <1>1, <1>2, <2>1 DEF DeliveryInv
<1> QED
  BY <1>6, <1>7, <1>8, <1>9, <1>10, <1>11, <1>12, <1>13, <1>14
     DEF Next, Passing, Listener, Get, Drain

----------------------------------------------------------------------------
(* The order is kept.                                                      *)

LEMMA InitOrder == Init => OrderInv
<1> SUFFICES ASSUME Init
             PROVE OrderInv
  OBVIOUS
<1>1. /\ DOMAIN file = {} /\ DOMAIN queue = {} /\ 0 \in Conns
      /\ \A c \in Conns : DOMAIN frames[c] = {}
  BY Kinds DEF Init
<1> QED
  BY <1>1 DEF OrderInv, CarriersHaveThem, EachInOrder, FramesInOrder, FileFirst,
              QueueNext, ExtLast, Counted

\* A record that is handed to a socket after all that the connections hold.
LEMMA HandedInOrder ==
  ASSUME TypeInv, OrderInv, NEW p \in Processes, NEW r \in Record, Handed(p, r),
         Carrier(r) = p, AfterSent(r, frames), BeforeExt(r, frames)
  PROVE  /\ CarriersHaveThem' /\ FramesInOrder(frames') /\ ExtLast'
         /\ \A x : BeforeAll(x, frames) /\ Earlier(x, r) => BeforeAll(x, frames')
         /\ \A x : AfterSent(x, frames) /\ Earlier(r, x) => AfterSent(x, frames')
         /\ \A x : BeforeExt(x, frames) => BeforeExt(x, frames')
<1> USE Kinds
<1>1. \A c \in Conns : \A i \in DOMAIN frames'[c] :
        \/ i \in DOMAIN frames[c] /\ frames'[c][i] = frames[c][i]
        \/ c # 0 /\ c = conn'[p] /\ frames'[c][i] = r
  BY DEF Handed
<1>2. \A x : BeforeAll(x, frames) /\ Earlier(x, r) => BeforeAll(x, frames')
  BY <1>1 DEF BeforeAll
<1>3. \A x : AfterSent(x, frames) /\ Earlier(r, x) => AfterSent(x, frames')
  BY <1>1 DEF AfterSent
<1>4. \A x : BeforeExt(x, frames) => BeforeExt(x, frames')
  BY <1>1 DEF BeforeExt
<1>5. ExtLast'
  <2> SUFFICES ASSUME NEW i \in DOMAIN frames'[0]
               PROVE AfterSent(frames'[0][i], frames')
    BY DEF ExtLast
  <2>1. i \in DOMAIN frames[0] /\ frames'[0][i] = frames[0][i]
    BY <1>1
  <2>2. AfterSent(frames[0][i], frames) /\ Earlier(r, frames[0][i])
    BY <2>1 DEF OrderInv, ExtLast, BeforeExt
  <2> QED
    BY <1>3, <2>1, <2>2
<1>6. FramesInOrder(frames')
  <2> SUFFICES ASSUME NEW c \in Conns, NEW i \in DOMAIN frames'[c],
                      NEW j \in DOMAIN frames'[c], i < j
               PROVE Earlier(frames'[c][i], frames'[c][j])
    BY DEF FramesInOrder
  <2>0. i \in DOMAIN frames[c]
    BY DEF Handed
  <2>1. frames'[c][i] = frames[c][i]
    BY <2>0 DEF Handed
  <2>2. CASE j \in DOMAIN frames[c] /\ frames'[c][j] = frames[c][j]
    BY <2>0, <2>1, <2>2 DEF OrderInv, EachInOrder, FramesInOrder
  <2>3. CASE c # 0 /\ frames'[c][j] = r
    BY <2>0, <2>1, <2>3 DEF AfterSent
  <2> QED
    BY <1>1, <2>2, <2>3
<1>7. CarriersHaveThem'
  <2> SUFFICES ASSUME NEW c \in Conns \ {0}, NEW i \in DOMAIN frames'[c],
                      frames'[c][i] # Garbage
               PROVE conn'[Carrier(frames'[c][i])] = c
    BY DEF CarriersHaveThem
  <2>1. CASE i \in DOMAIN frames[c] /\ frames'[c][i] = frames[c][i]
    <3> DEFINE q == Carrier(frames[c][i])
    <3>1. conn[q] = c /\ frames[c][i] \in Record
      BY <2>1 DEF OrderInv, CarriersHaveThem, TypeInv, NetType
    <3>2. q \in Processes /\ frames[c] # <<>> /\ c # None
      BY <2>1, <3>1
    <3>3. conn'[q] = conn[q]
      BY <3>1, <3>2 DEF Handed
    <3> QED
      BY <2>1, <3>1, <3>3
  <2>2. CASE c = conn'[p] /\ frames'[c][i] = r
    BY <2>2
  <2> QED
    BY <1>1, <2>1, <2>2
<1> QED
  BY <1>2, <1>3, <1>4, <1>5, <1>6, <1>7

\* The numbers of the records that the connections hold.
LEMMA FramesCounted ==
  ASSUME TypeInv, OrderInv, TypeInv', NEW r \in Record,
         \A p \in Senders : logged[p] <= logged'[p], r.n <= logged'[r.from],
         \A c \in Conns : \A i \in DOMAIN frames'[c] :
           \/ frames'[c][i] \in {Garbage, r}
           \/ \E j \in DOMAIN frames[c] : frames'[c][i] = frames[c][j]
  PROVE  \A c \in Conns : \A i \in DOMAIN frames'[c] :
           frames'[c][i] # Garbage => frames'[c][i].n <= logged'[frames'[c][i].from]
<1> SUFFICES ASSUME NEW c \in Conns, NEW i \in DOMAIN frames'[c],
                    frames'[c][i] # Garbage, frames'[c][i] # r
             PROVE frames'[c][i].n <= logged'[frames'[c][i].from]
  OBVIOUS
<1> DEFINE q == frames'[c][i]
<1>1. PICK j \in DOMAIN frames[c] : q = frames[c][j]
  OBVIOUS
<1>2. q \in Record /\ q.n <= logged[q.from]
  <2>1. frames[c] \in Seq(Record \cup {Garbage})
    BY DEF TypeInv, NetType
  <2>2. frames[c][j] \in Record \cup {Garbage}
    BY <2>1
  <2> QED
    BY <1>1, <2>2 DEF OrderInv, Counted
<1>3. q.from \in Senders /\ q.n \in Nat
  BY <1>2, Kinds
<1>4. /\ logged[q.from] \in Nat /\ logged'[q.from] \in Nat
      /\ logged[q.from] <= logged'[q.from]
  BY <1>3 DEF TypeInv
<1> QED
  BY <1>2, <1>3, <1>4

\* A step that puts nothing into the connections but garbage.
LEMMA NoMoreFrames ==
  ASSUME TypeInv, OrderInv,
         \A p \in Processes : conn[p] # None => conn'[p] = conn[p],
         NEW Shift \in [Conns -> {0, 1}],
         \A c \in Conns : \A i \in DOMAIN frames'[c] :
           \/ frames'[c][i] = Garbage
           \/ /\ i + Shift[c] \in DOMAIN frames[c]
              /\ frames'[c][i] = frames[c][i + Shift[c]],
         \A c \in Conns : DOMAIN frames'[c] \subseteq Nat
  PROVE  /\ CarriersHaveThem' /\ FramesInOrder(frames') /\ ExtLast'
         /\ \A x : BeforeAll(x, frames) => BeforeAll(x, frames')
         /\ \A x : AfterSent(x, frames) => AfterSent(x, frames')
         /\ \A x : BeforeExt(x, frames) => BeforeExt(x, frames')
<1> USE Kinds
<1>1. \A c \in Conns : \A i \in DOMAIN frames'[c] :
        \/ frames'[c][i] = Garbage
        \/ \E j \in DOMAIN frames[c] : frames'[c][i] = frames[c][j]
  OBVIOUS
<1>2. \A x : BeforeAll(x, frames) => BeforeAll(x, frames')
  BY <1>1 DEF BeforeAll, Earlier
<1>3. \A x : AfterSent(x, frames) => AfterSent(x, frames')
  BY <1>1 DEF AfterSent, Earlier
<1>4. \A x : BeforeExt(x, frames) => BeforeExt(x, frames')
  BY <1>1 DEF BeforeExt, Earlier
<1>5. ExtLast'
  <2> SUFFICES ASSUME NEW i \in DOMAIN frames'[0]
               PROVE AfterSent(frames'[0][i], frames')
    BY DEF ExtLast
  <2>1. CASE frames'[0][i] = Garbage
    BY <2>1 DEF AfterSent, Earlier
  <2>2. ASSUME NEW j \in DOMAIN frames[0], frames'[0][i] = frames[0][j]
        PROVE AfterSent(frames'[0][i], frames')
    <3>1. AfterSent(frames[0][j], frames)
      BY DEF OrderInv, ExtLast
    <3> QED
      BY <1>3, <2>2, <3>1
  <2> QED
    BY <1>1, <2>1, <2>2
<1>6. FramesInOrder(frames')
  <2> SUFFICES ASSUME NEW c \in Conns, NEW i \in DOMAIN frames'[c],
                      NEW j \in DOMAIN frames'[c], i < j,
                      frames'[c][i] # Garbage, frames'[c][j] # Garbage
               PROVE Earlier(frames'[c][i], frames'[c][j])
    BY DEF FramesInOrder, Earlier
  <2>1. /\ i + Shift[c] \in DOMAIN frames[c] /\ j + Shift[c] \in DOMAIN frames[c]
        /\ frames'[c][i] = frames[c][i + Shift[c]]
        /\ frames'[c][j] = frames[c][j + Shift[c]]
    OBVIOUS
  <2>2. i + Shift[c] < j + Shift[c]
    <3>1. i \in Nat /\ j \in Nat /\ Shift[c] \in {0, 1}
      OBVIOUS
    <3> QED
      BY <3>1
  <2> QED
    BY <2>1, <2>2 DEF OrderInv, EachInOrder, FramesInOrder
<1>7. CarriersHaveThem'
  <2> SUFFICES ASSUME NEW c \in Conns \ {0}, NEW i \in DOMAIN frames'[c],
                      frames'[c][i] # Garbage
               PROVE conn'[Carrier(frames'[c][i])] = c
    BY DEF CarriersHaveThem
  <2>1. PICK j \in DOMAIN frames[c] : frames'[c][i] = frames[c][j]
    BY <1>1
  <2> DEFINE q == Carrier(frames[c][j])
  <2>2. conn[q] = c /\ frames[c][j] \in Record
    BY <2>1 DEF OrderInv, CarriersHaveThem, TypeInv, NetType
  <2>3. q \in Processes /\ c # None
    BY <2>2
  <2> QED
    BY <2>1, <2>2, <2>3
<1> QED
  BY <1>2, <1>3, <1>4, <1>5, <1>6, <1>7

\* With the queue, the file and the counts as they are, the rest follows.
LEMMA QueueStays ==
  ASSUME TypeInv, OrderInv, TypeInv', UNCHANGED <<queue, file>>,
         \A p \in Senders : logged[p] <= logged'[p],
         CarriersHaveThem', FramesInOrder(frames'), ExtLast',
         \A i \in DOMAIN file : BeforeAll(file[i], frames) =>
                                 BeforeAll(file[i], frames'),
         \A i \in DOMAIN queue :
           LET r == queue[i].record
           IN  IF queue[i].ext
               THEN /\ AfterSent(r, frames) => AfterSent(r, frames')
                    /\ BeforeExt(r, frames) => BeforeExt(r, frames')
               ELSE BeforeAll(r, frames) => BeforeAll(r, frames'),
         \A c \in Conns : \A i \in DOMAIN frames'[c] :
           frames'[c][i] # Garbage => frames'[c][i].n <= logged'[frames'[c][i].from]
  PROVE  OrderInv'
<1>1. EachInOrder'
  BY DEF OrderInv, EachInOrder
<1>2. FileFirst'
  BY DEF OrderInv, FileFirst
<1>3. QueueNext'
  <2> SUFFICES ASSUME NEW i \in DOMAIN queue
               PROVE IF queue[i].ext
                     THEN /\ \A j \in DOMAIN queue :
                               ~queue[j].ext =>
                                 Earlier(queue[j].record, queue[i].record)
                          /\ AfterSent(queue[i].record, frames')
                          /\ BeforeExt(queue[i].record, frames')
                     ELSE BeforeAll(queue[i].record, frames')
    BY DEF QueueNext
  <2> QED
    BY DEF OrderInv, QueueNext
<1>4. Counted'
  <2>1. \A i \in DOMAIN file : file[i].n <= logged'[file[i].from]
    <3> SUFFICES ASSUME NEW i \in DOMAIN file
                 PROVE file[i].n <= logged'[file[i].from]
      OBVIOUS
    <3>1. file[i] \in Record /\ file[i].n <= logged[file[i].from]
      BY DEF OrderInv, Counted, TypeInv
    <3>2. file[i].from \in Senders /\ file[i].n \in Nat
      BY <3>1, Kinds
    <3> QED
      BY <3>1, <3>2 DEF TypeInv
  <2>2. \A i \in DOMAIN queue : queue[i].record.n <= logged'[queue[i].record.from]
    <3> SUFFICES ASSUME NEW i \in DOMAIN queue
                 PROVE queue[i].record.n <= logged'[queue[i].record.from]
      OBVIOUS
    <3> DEFINE r == queue[i].record
    <3>0. queue[i] \in Items
      BY DEF TypeInv
    <3>1. r \in Record /\ r.n <= logged[r.from]
      BY <3>0, Kinds DEF OrderInv, Counted, Items
    <3>2. r.from \in Senders /\ r.n \in Nat
      BY <3>1, Kinds
    <3> QED
      BY <3>1, <3>2 DEF TypeInv
  <2> QED
    BY <2>1, <2>2 DEF Counted
<1> QED
  BY <1>1, <1>2, <1>3, <1>4 DEF OrderInv

\* A record is the newest of its sender: it comes after all there are.
LEMMA NewestLast ==
  ASSUME TypeInv, OrderInv, NEW p \in Senders, NEW r \in Record,
         r.from = p, r.n = logged[p] + 1
  PROVE  /\ \A i \in DOMAIN file : Earlier(file[i], r)
         /\ \A i \in DOMAIN queue : Earlier(queue[i].record, r)
         /\ \A c \in Conns : \A i \in DOMAIN frames[c] : Earlier(frames[c][i], r)
<1> DEFINE Old(q) == q # Garbage => q \in Record /\ q.n <= logged[q.from]
<1>1. ASSUME NEW q, Old(q)
      PROVE Earlier(q, r)
  <2> SUFFICES ASSUME q # Garbage, q.from = p
               PROVE q.n < r.n
    BY DEF Earlier
  <2>1. q.n \in Nat /\ logged[p] \in Nat /\ q.n <= logged[p]
    BY <1>1, Kinds DEF TypeInv
  <2> QED
    BY <2>1
<1>2. \A i \in DOMAIN file : Old(file[i])
  BY DEF OrderInv, Counted, TypeInv
<1>3. \A i \in DOMAIN queue : Old(queue[i].record)
  <2>1. \A i \in DOMAIN queue : queue[i] \in Items
    BY DEF TypeInv
  <2> QED
    BY <2>1, Kinds DEF OrderInv, Counted, Items
<1>4. \A c \in Conns : \A i \in DOMAIN frames[c] : Old(frames[c][i])
  BY DEF OrderInv, Counted, TypeInv, NetType
<1> HIDE DEF Old
<1> QED
  BY <1>1, <1>2, <1>3, <1>4

LEMMA LogInOrder ==
  ASSUME TypeInv, OrderInv, TypeInv', NEW p \in Processes, Log(p)
  PROVE  OrderInv'
<1> DEFINE r == NextRecord(p)
<1>1. /\ logged[p] < MaxRecords /\ Send(p, r)
      /\ logged' = [logged EXCEPT ![p] = @ + 1] /\ UNCHANGED <<queue, file>>
  BY DEF Log
<1>2. r \in Record /\ r.from = p /\ r.n = logged[p] + 1
      /\ p \in Senders /\ p # Ext
  BY <1>1, NextRecordOf, Kinds
<1> HIDE DEF r
<1>3. Handed(p, r)
  BY <1>1, <1>2, SendHands DEF TypeInv
<1>4. /\ \A i \in DOMAIN file : Earlier(file[i], r)
      /\ \A i \in DOMAIN queue : Earlier(queue[i].record, r)
      /\ AfterSent(r, frames)
  BY <1>2, NewestLast DEF AfterSent
<1>5. ASSUME NEW e, e = Garbage \/ e \in FromExt
      PROVE Earlier(r, e)
  BY <1>2, <1>5, Kinds DEF Earlier
<1>6. /\ BeforeExt(r, frames)
      /\ \A i \in DOMAIN queue : queue[i].ext => Earlier(r, queue[i].record)
  <2>1. \A i \in DOMAIN frames[0] : frames[0][i] \in FromExt
    BY DEF TypeInv, NetType
  <2>2. \A i \in DOMAIN queue : queue[i].ext => queue[i].record \in FromExt
    <3>1. \A i \in DOMAIN queue : queue[i] \in Items
      BY DEF TypeInv
    <3> QED
      BY <3>1 DEF Items
  <2> QED
    BY <1>5, <2>1, <2>2 DEF BeforeExt
<1>7. Carrier(r) = p
  BY <1>2 DEF Carrier
<1>8. /\ CarriersHaveThem' /\ FramesInOrder(frames') /\ ExtLast'
      /\ \A x : BeforeAll(x, frames) /\ Earlier(x, r) => BeforeAll(x, frames')
      /\ \A x : AfterSent(x, frames) /\ Earlier(r, x) => AfterSent(x, frames')
      /\ \A x : BeforeExt(x, frames) => BeforeExt(x, frames')
  BY <1>2, <1>3, <1>4, <1>6, <1>7, HandedInOrder
<1>9. /\ \A q \in Senders : logged[q] <= logged'[q]
      /\ r.n <= logged'[r.from]
  BY <1>1, <1>2 DEF TypeInv
<1>10. \A c \in Conns : \A i \in DOMAIN frames'[c] :
         frames'[c][i] # Garbage => frames'[c][i].n <= logged'[frames'[c][i].from]
  <2>1. \A c \in Conns : \A i \in DOMAIN frames'[c] :
          \/ frames'[c][i] \in {Garbage, r}
          \/ \E j \in DOMAIN frames[c] : frames'[c][i] = frames[c][j]
    BY <1>3 DEF Handed
  <2> QED
    BY <1>2, <1>9, <2>1, FramesCounted
<1>11. /\ \A i \in DOMAIN file : BeforeAll(file[i], frames) =>
                                   BeforeAll(file[i], frames')
       /\ \A i \in DOMAIN queue :
            LET q == queue[i].record
            IN  IF queue[i].ext
                THEN /\ AfterSent(q, frames) => AfterSent(q, frames')
                     /\ BeforeExt(q, frames) => BeforeExt(q, frames')
                ELSE BeforeAll(q, frames) => BeforeAll(q, frames')
  BY <1>4, <1>6, <1>8
<1> QED
  BY <1>1, <1>8, <1>9, <1>10, <1>11, QueueStays

\* The steps that put no record into a connection.
LEMMA IdleInOrder ==
  ASSUME TypeInv, OrderInv, TypeInv', UNCHANGED <<queue, file>>,
         \A q \in Senders : logged[q] <= logged'[q],
         \A p \in Processes : conn[p] # None => conn'[p] = conn[p],
         \A c \in Conns : \A i \in DOMAIN frames'[c] :
           \/ frames'[c][i] = Garbage
           \/ i \in DOMAIN frames[c] /\ frames'[c][i] = frames[c][i]
  PROVE  OrderInv'
<1> DEFINE Shift == [c \in Conns |-> 0]
<1>1. /\ \A c \in Conns : DOMAIN frames'[c] \subseteq Nat
      /\ \A c \in Conns : DOMAIN frames[c] \subseteq Nat
  BY DEF TypeInv, NetType
<1>2. Shift \in [Conns -> {0, 1}] /\ \A c \in Conns : Shift[c] = 0
  OBVIOUS
<1>3. \A c \in Conns : \A i \in DOMAIN frames'[c] :
        \/ frames'[c][i] = Garbage
        \/ /\ i + Shift[c] \in DOMAIN frames[c]
           /\ frames'[c][i] = frames[c][i + Shift[c]]
  BY <1>1, <1>2
<1> HIDE DEF Shift
<1>4. /\ CarriersHaveThem' /\ FramesInOrder(frames') /\ ExtLast'
      /\ \A x : BeforeAll(x, frames) => BeforeAll(x, frames')
      /\ \A x : AfterSent(x, frames) => AfterSent(x, frames')
      /\ \A x : BeforeExt(x, frames) => BeforeExt(x, frames')
  BY <1>1, <1>2, <1>3, NoMoreFrames
<1>5. \A c \in Conns : \A i \in DOMAIN frames'[c] :
        frames'[c][i] # Garbage => frames'[c][i].n <= logged'[frames'[c][i].from]
  <2> SUFFICES ASSUME NEW c \in Conns, NEW i \in DOMAIN frames'[c],
                      frames'[c][i] # Garbage
               PROVE frames'[c][i].n <= logged'[frames'[c][i].from]
    OBVIOUS
  <2> DEFINE q == frames[c][i]
  <2>1. i \in DOMAIN frames[c] /\ frames'[c][i] = q
    OBVIOUS
  <2>2. q \in Record /\ q.n <= logged[q.from]
    BY <2>1 DEF OrderInv, Counted, TypeInv, NetType
  <2>3. q.from \in Senders /\ q.n \in Nat
    BY <2>2, Kinds
  <2> QED
    BY <2>1, <2>2, <2>3 DEF TypeInv
<1>6. \A i \in DOMAIN queue :
        LET q == queue[i].record
        IN  IF queue[i].ext
            THEN /\ AfterSent(q, frames) => AfterSent(q, frames')
                 /\ BeforeExt(q, frames) => BeforeExt(q, frames')
            ELSE BeforeAll(q, frames) => BeforeAll(q, frames')
  BY <1>4
<1> QED
  BY <1>4, <1>5, <1>6, QueueStays

LEMMA ExtLogInOrder ==
  ASSUME TypeInv, OrderInv, TypeInv', ExtLog
  PROVE  OrderInv'
<1> DEFINE r == NextRecord(Ext)
<1>1. /\ logged[Ext] < MaxRecords /\ logged' = [logged EXCEPT ![Ext] = @ + 1]
      /\ frames' = [frames EXCEPT ![0] = Append(@, r)]
      /\ UNCHANGED <<conn, queue, file>>
  BY DEF ExtLog
<1>2. /\ r \in Record /\ r \in FromExt /\ r.from = Ext /\ r.n = logged[Ext] + 1
      /\ Ext \in Senders
  BY <1>1, NextRecordOf, Kinds
<1> HIDE DEF r
<1>3. /\ \A c \in Conns \ {0} : frames'[c] = frames[c]
      /\ \A i \in DOMAIN frames[0] :
           i \in DOMAIN frames'[0] /\ frames'[0][i] = frames[0][i]
      /\ \A i \in DOMAIN frames'[0] :
           i \in DOMAIN frames[0] \/ i = Len(frames[0]) + 1
      /\ frames'[0][Len(frames[0]) + 1] = r
      /\ DOMAIN frames[0] = 1..Len(frames[0]) /\ Len(frames[0]) \in Nat
  <2>1. frames[0] \in Seq(FromExt) /\ DOMAIN frames = Conns /\ 0 \in Conns
    BY Kinds DEF TypeInv, NetType
  <2>2. /\ frames'[0] = Append(frames[0], r)
        /\ \A c \in Conns \ {0} : frames'[c] = frames[c]
    BY <1>1, <2>1
  <2> QED
    BY <1>2, <2>1, <2>2, AppendOf
<1>4. /\ \A i \in DOMAIN file : Earlier(file[i], r)
      /\ \A i \in DOMAIN queue : Earlier(queue[i].record, r)
      /\ \A c \in Conns : \A i \in DOMAIN frames[c] : Earlier(frames[c][i], r)
  BY <1>2, NewestLast
<1>5. \A c \in Conns : \A i \in DOMAIN frames'[c] :
        \/ i \in DOMAIN frames[c] /\ frames'[c][i] = frames[c][i]
        \/ c = 0 /\ i = Len(frames[0]) + 1 /\ frames'[c][i] = r
  BY <1>3
<1>6. /\ \A x : BeforeAll(x, frames) /\ Earlier(x, r) => BeforeAll(x, frames')
      /\ \A x : AfterSent(x, frames) => AfterSent(x, frames')
      /\ \A x : BeforeExt(x, frames) /\ Earlier(x, r) => BeforeExt(x, frames')
  BY <1>5, Kinds DEF BeforeAll, AfterSent, BeforeExt
<1>7. FramesInOrder(frames')
  <2> SUFFICES ASSUME NEW c \in Conns, NEW i \in DOMAIN frames'[c],
                      NEW j \in DOMAIN frames'[c], i < j
               PROVE Earlier(frames'[c][i], frames'[c][j])
    BY DEF FramesInOrder
  <2>1. CASE i \in DOMAIN frames[c] /\ j \in DOMAIN frames[c]
    <3>1. frames'[c][i] = frames[c][i] /\ frames'[c][j] = frames[c][j]
      BY <1>3, <2>1
    <3> QED
      BY <2>1, <3>1 DEF OrderInv, EachInOrder, FramesInOrder
  <2>2. CASE i \in DOMAIN frames[c] /\ j \notin DOMAIN frames[c]
    BY <1>3, <1>4, <1>5, <2>2
  <2>3. CASE i \notin DOMAIN frames[c]
    <3>1. c = 0 /\ i = Len(frames[0]) + 1
      BY <1>5, <2>3
    <3>2. j <= Len(frames[0]) + 1
      BY <1>3, <3>1
    <3> QED
      BY <1>3, <3>1, <3>2
  <2> QED
    BY <2>1, <2>2, <2>3
<1>8. CarriersHaveThem'
  BY <1>1, <1>3 DEF OrderInv, CarriersHaveThem
<1>9. ExtLast'
  <2> SUFFICES ASSUME NEW i \in DOMAIN frames'[0]
               PROVE AfterSent(frames'[0][i], frames)
    BY <1>6 DEF ExtLast
  <2>1. CASE i \in DOMAIN frames[0]
    BY <1>3, <2>1 DEF OrderInv, ExtLast
  <2>2. CASE i = Len(frames[0]) + 1
    BY <1>3, <1>4, <2>2 DEF AfterSent
  <2> QED
    BY <1>3, <2>1, <2>2
<1>10. /\ \A q \in Senders : logged[q] <= logged'[q]
       /\ r.n <= logged'[r.from]
  BY <1>1, <1>2 DEF TypeInv
<1>11. \A c \in Conns : \A i \in DOMAIN frames'[c] :
         frames'[c][i] # Garbage => frames'[c][i].n <= logged'[frames'[c][i].from]
  <2>1. \A c \in Conns : \A i \in DOMAIN frames'[c] :
          \/ frames'[c][i] \in {Garbage, r}
          \/ \E j \in DOMAIN frames[c] : frames'[c][i] = frames[c][j]
    BY <1>5
  <2> QED
    BY <1>2, <1>10, <2>1, FramesCounted
<1>12. \A i \in DOMAIN queue :
         LET q == queue[i].record
         IN  IF queue[i].ext
             THEN /\ AfterSent(q, frames) => AfterSent(q, frames')
                  /\ BeforeExt(q, frames) => BeforeExt(q, frames')
             ELSE BeforeAll(q, frames) => BeforeAll(q, frames')
  BY <1>4, <1>6
<1>13. \A i \in DOMAIN file : BeforeAll(file[i], frames) =>
                               BeforeAll(file[i], frames')
  BY <1>4, <1>6
<1> QED
  BY <1>1, <1>7, <1>8, <1>9, <1>10, <1>11, <1>12, <1>13, QueueStays

\* What was first on its connection is before all that is left.
LEMMA FirstIsNext ==
  ASSUME TypeInv, OrderInv, NEW c \in Conns, Receive(c)
  PROVE  IF c = 0
         THEN AfterSent(frames[0][1], frames') /\ BeforeExt(frames[0][1], frames')
         ELSE BeforeAll(frames[c][1], frames')
<1> USE Kinds
<1>1. /\ 1 \in DOMAIN frames[c] /\ frames[c][1] \in Record
      /\ \A d \in Conns \ {c} : frames'[d] = frames[d]
      /\ \A i \in DOMAIN frames'[c] :
           i + 1 \in DOMAIN frames[c] /\ frames'[c][i] = frames[c][i + 1]
  BY ReceiveDoes
<1>2. \A i \in DOMAIN frames'[c] : i \in Nat /\ i >= 1
  <2>1. frames' = [frames EXCEPT ![c] = Tail(frames[c])] /\ frames[c] # <<>>
    BY DEF Receive
  <2>2. frames'[c] = Tail(frames[c]) /\ frames[c] \in Seq(Record \cup {Garbage})
    BY <2>1 DEF TypeInv, NetType
  <2> QED
    BY <2>1, <2>2
<1>3. \A i \in DOMAIN frames'[c] : Earlier(frames[c][1], frames'[c][i])
  <2> SUFFICES ASSUME NEW i \in DOMAIN frames'[c]
               PROVE Earlier(frames[c][1], frames[c][i + 1])
    BY <1>1
  <2>1. 1 < i + 1
    BY <1>2
  <2> QED
    BY <1>1, <2>1 DEF OrderInv, EachInOrder, FramesInOrder
<1>4. CASE c = 0
  <2>1. AfterSent(frames[0][1], frames)
    BY <1>1, <1>4 DEF OrderInv, ExtLast
  <2> QED
    BY <1>1, <1>3, <1>4, <2>1 DEF AfterSent, BeforeExt
<1>5. CASE c # 0
  <2> SUFFICES ASSUME NEW d \in Conns, NEW i \in DOMAIN frames'[d], d # c
               PROVE Earlier(frames[c][1], frames[d][i])
    BY <1>1, <1>3, <1>5 DEF BeforeAll
  <2>1. i \in DOMAIN frames[d]
    BY <1>1
  <2>2. CASE d = 0
    BY <1>1, <1>5, <2>1, <2>2 DEF OrderInv, ExtLast, AfterSent
  <2>3. CASE d # 0
    <3> SUFFICES ASSUME frames[d][i] # Garbage,
                        frames[c][1].from = frames[d][i].from
                 PROVE FALSE
      BY DEF Earlier
    <3>1. conn[Carrier(frames[c][1])] = c /\ conn[Carrier(frames[d][i])] = d
      BY <1>1, <1>5, <2>1, <2>3 DEF OrderInv, CarriersHaveThem
    <3> QED
      BY <3>1 DEF Carrier
  <2> QED
    BY <2>2, <2>3
<1> QED
  BY <1>4, <1>5

LEMMA ReceiveInOrder ==
  ASSUME TypeInv, OrderInv, TypeInv', NEW c \in Conns, Receive(c)
  PROVE  OrderInv'
<1> USE Kinds
<1> DEFINE r == frames[c][1]
           n == Len(queue)
<1>1. /\ 1 \in DOMAIN frames[c] /\ r \in Record /\ n \in Nat
      /\ UNCHANGED <<conn, file, logged>>
      /\ \A i \in DOMAIN queue : i \in DOMAIN queue' /\ queue'[i] = queue[i]
      /\ queue'[n + 1].ext = (c = 0) /\ queue'[n + 1].record = r
      /\ \A i \in DOMAIN queue' : i \in DOMAIN queue \/ i = n + 1
      /\ DOMAIN queue = 1..n
  <2>1. DOMAIN queue = 1..n
    BY DEF TypeInv
  <2> QED
    BY <2>1, ReceiveDoes
<1>2. /\ \A d \in Conns \ {c} : frames'[d] = frames[d]
      /\ \A i \in DOMAIN frames'[c] :
           i + 1 \in DOMAIN frames[c] /\ frames'[c][i] = frames[c][i + 1]
  BY ReceiveDoes
<1>3. /\ CarriersHaveThem' /\ FramesInOrder(frames') /\ ExtLast'
      /\ \A x : BeforeAll(x, frames) => BeforeAll(x, frames')
      /\ \A x : AfterSent(x, frames) => AfterSent(x, frames')
      /\ \A x : BeforeExt(x, frames) => BeforeExt(x, frames')
  <2> DEFINE Shift == [d \in Conns |-> IF d = c THEN 1 ELSE 0]
  <2>1. /\ \A d \in Conns : DOMAIN frames'[d] \subseteq Nat
        /\ \A d \in Conns : DOMAIN frames[d] \subseteq Nat
    <3>1. /\ frames \in [Conns -> Seq(Record \cup {Garbage})]
          /\ frames' \in [Conns -> Seq(Record \cup {Garbage})]
      BY DEF TypeInv, NetType
    <3> QED
      BY <3>1
  <2>2. /\ Shift \in [Conns -> {0, 1}] /\ Shift[c] = 1
        /\ \A d \in Conns \ {c} : Shift[d] = 0
    OBVIOUS
  <2> HIDE DEF Shift
  <2>3. \A d \in Conns : \A i \in DOMAIN frames'[d] :
          /\ i + Shift[d] \in DOMAIN frames[d]
          /\ frames'[d][i] = frames[d][i + Shift[d]]
    BY <1>2, <2>1, <2>2
  <2>4. \A p \in Processes : conn[p] # None => conn'[p] = conn[p]
    BY <1>1
  <2> HIDE DEF r, n
  <2> QED
    BY <2>1, <2>2, <2>3, <2>4, NoMoreFrames
<1>4. FileFirst'
  <2> SUFFICES ASSUME NEW i \in DOMAIN file
               PROVE /\ \A j \in DOMAIN queue' : Earlier(file[i], queue'[j].record)
                     /\ BeforeAll(file[i], frames')
    BY <1>1 DEF FileFirst
  <2>1. /\ \A j \in DOMAIN queue : Earlier(file[i], queue[j].record)
        /\ BeforeAll(file[i], frames)
    BY DEF OrderInv, FileFirst
  <2>2. Earlier(file[i], r)
    BY <1>1, <2>1 DEF BeforeAll
  <2> QED
    BY <1>1, <1>3, <2>1, <2>2
<1>5. \A i \in DOMAIN queue :
        IF queue[i].ext THEN /\ c = 0 => Earlier(queue[i].record, r)
                             /\ c # 0 => Earlier(r, queue[i].record)
        ELSE Earlier(queue[i].record, r)
  <2> SUFFICES ASSUME NEW i \in DOMAIN queue
               PROVE IF queue[i].ext THEN /\ c = 0 => Earlier(queue[i].record, r)
                                          /\ c # 0 => Earlier(r, queue[i].record)
                     ELSE Earlier(queue[i].record, r)
    OBVIOUS
  <2>1. CASE queue[i].ext
    <3>1. /\ AfterSent(queue[i].record, frames)
          /\ BeforeExt(queue[i].record, frames)
      BY <2>1 DEF OrderInv, QueueNext
    <3> QED
      BY <1>1, <2>1, <3>1 DEF AfterSent, BeforeExt
  <2>2. CASE ~queue[i].ext
    <3>1. BeforeAll(queue[i].record, frames)
      BY <2>2 DEF OrderInv, QueueNext
    <3> QED
      BY <1>1, <2>2, <3>1 DEF BeforeAll
  <2> QED
    BY <2>1, <2>2
<1>6. EachInOrder'
  <2> SUFFICES ASSUME NEW i \in DOMAIN queue', NEW j \in DOMAIN queue', i < j,
                      queue'[i].ext = queue'[j].ext
               PROVE Earlier(queue'[i].record, queue'[j].record)
    BY <1>1, <1>3 DEF OrderInv, EachInOrder
  <2>1. i \in DOMAIN queue
    BY <1>1
  <2>2. CASE j \in DOMAIN queue
    BY <1>1, <2>1, <2>2 DEF OrderInv, EachInOrder
  <2>3. CASE j = n + 1
    BY <1>1, <1>5, <2>1, <2>3
  <2> QED
    BY <1>1, <2>2, <2>3
<1>7. QueueNext'
  <2> SUFFICES ASSUME NEW i \in DOMAIN queue'
               PROVE IF queue'[i].ext
                     THEN /\ \A j \in DOMAIN queue' :
                               ~queue'[j].ext =>
                                 Earlier(queue'[j].record, queue'[i].record)
                          /\ AfterSent(queue'[i].record, frames')
                          /\ BeforeExt(queue'[i].record, frames')
                     ELSE BeforeAll(queue'[i].record, frames')
    BY DEF QueueNext
  <2>1. CASE i \in DOMAIN queue
    <3>1. queue'[i] = queue[i]
      BY <1>1, <2>1
    <3>2. CASE queue[i].ext
      <4>1. /\ \A j \in DOMAIN queue :
                 ~queue[j].ext => Earlier(queue[j].record, queue[i].record)
            /\ AfterSent(queue[i].record, frames)
            /\ BeforeExt(queue[i].record, frames)
        BY <2>1, <3>2 DEF OrderInv, QueueNext
      <4>2. \A j \in DOMAIN queue' :
              ~queue'[j].ext => Earlier(queue'[j].record, queue[i].record)
        BY <1>1, <1>5, <2>1, <3>2, <4>1
      <4> QED
        BY <1>3, <3>1, <3>2, <4>1, <4>2
    <3>3. CASE ~queue[i].ext
      <4>1. BeforeAll(queue[i].record, frames)
        BY <2>1, <3>3 DEF OrderInv, QueueNext
      <4> QED
        BY <1>3, <3>1, <3>3, <4>1
    <3> QED
      BY <3>2, <3>3
  <2>2. CASE i = n + 1
    <3>1. queue'[i].ext = (c = 0) /\ queue'[i].record = r
      BY <1>1, <2>2
    <3>2. CASE c = 0
      <4>1. \A j \in DOMAIN queue' : ~queue'[j].ext => Earlier(queue'[j].record, r)
        BY <1>1, <1>5, <3>2
      <4>2. AfterSent(r, frames') /\ BeforeExt(r, frames')
        BY <3>2, FirstIsNext
      <4> QED
        BY <3>1, <3>2, <4>1, <4>2
    <3>3. CASE c # 0
      <4>1. BeforeAll(r, frames')
        BY <3>3, FirstIsNext
      <4> QED
        BY <3>1, <3>3, <4>1
    <3> QED
      BY <3>2, <3>3
  <2> QED
    BY <1>1, <2>1, <2>2
<1>8. Counted'
  <2>1. r.n <= logged[r.from]
    BY <1>1 DEF OrderInv, Counted
  <2>2. \A d \in Conns : \A i \in DOMAIN frames'[d] :
          \E j \in DOMAIN frames[d] : frames'[d][i] = frames[d][j]
    BY <1>2
  <2>3. \A d \in Conns : \A i \in DOMAIN frames'[d] :
          frames'[d][i] # Garbage => frames'[d][i].n <= logged[frames'[d][i].from]
    BY <2>2 DEF OrderInv, Counted
  <2>4. \A i \in DOMAIN queue' :
          queue'[i].record.n <= logged[queue'[i].record.from]
    BY <1>1, <2>1 DEF OrderInv, Counted
  <2> QED
    BY <1>1, <2>3, <2>4 DEF OrderInv, Counted
<1> QED
  BY <1>3, <1>4, <1>6, <1>7, <1>8 DEF OrderInv

LEMMA ProcessInOrder ==
  ASSUME TypeInv, OrderInv, TypeInv', NEW after, queue # <<>>, Process(after)
  PROVE  OrderInv'
<1> USE Kinds
<1> DEFINE r == queue[1].record
<1>1. /\ queue \in Seq(Items) /\ queue' = Tail(queue)
      /\ Head(queue) = queue[1] /\ 1 \in DOMAIN queue /\ queue[1] \in Items
      /\ \A i \in DOMAIN queue' : i + 1 \in DOMAIN queue /\ queue'[i] = queue[i + 1]
      /\ \A i \in DOMAIN queue' : i \in Nat /\ 1 < i + 1
  <2>1. queue \in Seq(Items) /\ queue' = Tail(queue)
    BY ProcessDoes DEF TypeInv
  <2>2. /\ Head(queue) = queue[1] /\ 1 \in DOMAIN queue /\ queue[1] \in Items
        /\ \A i \in DOMAIN queue' :
             i + 1 \in DOMAIN queue /\ queue'[i] = queue[i + 1]
    BY <2>1, TailOf
  <2>3. \A i \in DOMAIN queue' : i \in Nat /\ 1 < i + 1
    BY DEF TypeInv
  <2> QED
    BY <2>1, <2>2, <2>3
<1>2. r \in Record
  BY <1>1 DEF Items
<1>3. \A i, j \in DOMAIN queue' :
        i < j /\ queue'[i].ext = queue'[j].ext =>
          Earlier(queue'[i].record, queue'[j].record)
  <2> SUFFICES ASSUME NEW i \in DOMAIN queue', NEW j \in DOMAIN queue', i < j,
                      queue'[i].ext = queue'[j].ext
               PROVE Earlier(queue[i + 1].record, queue[j + 1].record)
    BY <1>1
  <2>1. i + 1 < j + 1 /\ queue[i + 1].ext = queue[j + 1].ext
    BY <1>1
  <2> QED
    BY <1>1, <2>1 DEF OrderInv, EachInOrder
<1>4. \A i \in DOMAIN queue' :
        /\ queue'[i].ext = queue[1].ext => Earlier(r, queue'[i].record)
        /\ ~queue'[i].ext /\ queue[1].ext => Earlier(queue'[i].record, r)
        /\ queue'[i].ext /\ ~queue[1].ext => Earlier(r, queue'[i].record)
  <2> SUFFICES ASSUME NEW i \in DOMAIN queue'
               PROVE
        /\ queue[i + 1].ext = queue[1].ext => Earlier(r, queue[i + 1].record)
        /\ ~queue[i + 1].ext /\ queue[1].ext => Earlier(queue[i + 1].record, r)
        /\ queue[i + 1].ext /\ ~queue[1].ext => Earlier(r, queue[i + 1].record)
    BY <1>1
  <2>1. i + 1 \in DOMAIN queue /\ 1 < i + 1
    BY <1>1
  <2>2. queue[i + 1].ext = queue[1].ext => Earlier(r, queue[i + 1].record)
    BY <1>1, <2>1 DEF OrderInv, EachInOrder
  <2>3. ~queue[i + 1].ext /\ queue[1].ext => Earlier(queue[i + 1].record, r)
    BY <1>1, <2>1 DEF OrderInv, QueueNext
  <2>4. queue[i + 1].ext /\ ~queue[1].ext => Earlier(r, queue[i + 1].record)
    BY <1>1, <2>1 DEF OrderInv, QueueNext
  <2> QED
    BY <2>2, <2>3, <2>4
<1>5. \A i \in DOMAIN queue' :
        IF queue'[i].ext
        THEN /\ \A j \in DOMAIN queue' :
                  ~queue'[j].ext => Earlier(queue'[j].record, queue'[i].record)
             /\ AfterSent(queue'[i].record, frames)
             /\ BeforeExt(queue'[i].record, frames)
        ELSE BeforeAll(queue'[i].record, frames)
  BY <1>1 DEF OrderInv, QueueNext
<1>6. UNCHANGED logged
  BY ProcessDoes
<1>7. CASE Head(queue).ext
  <2>1. /\ queue[1].ext /\ Handed(Main, r) /\ r \in FromExt /\ UNCHANGED file
    BY <1>1, <1>7, ProcessDoes
  <2>2. AfterSent(r, frames) /\ BeforeExt(r, frames) /\ Carrier(r) = Main
    BY <1>1, <2>1 DEF OrderInv, QueueNext, Carrier
  <2>3. /\ CarriersHaveThem' /\ FramesInOrder(frames') /\ ExtLast'
        /\ \A x : BeforeAll(x, frames) /\ Earlier(x, r) => BeforeAll(x, frames')
        /\ \A x : AfterSent(x, frames) /\ Earlier(r, x) => AfterSent(x, frames')
        /\ \A x : BeforeExt(x, frames) => BeforeExt(x, frames')
    BY <1>2, <2>1, <2>2, HandedInOrder
  <2>4. EachInOrder'
    BY <1>3, <2>1, <2>3 DEF OrderInv, EachInOrder
  <2>5. FileFirst'
    <3> SUFFICES ASSUME NEW i \in DOMAIN file
                 PROVE /\ \A j \in DOMAIN queue' :
                            Earlier(file[i], queue'[j].record)
                       /\ BeforeAll(file[i], frames')
      BY <2>1 DEF FileFirst
    <3>1. /\ \A j \in DOMAIN queue : Earlier(file[i], queue[j].record)
          /\ BeforeAll(file[i], frames)
      BY DEF OrderInv, FileFirst
    <3> QED
      BY <1>1, <2>3, <3>1
  <2>6. QueueNext'
    <3> SUFFICES ASSUME NEW i \in DOMAIN queue'
                 PROVE IF queue'[i].ext
                       THEN /\ AfterSent(queue'[i].record, frames')
                            /\ BeforeExt(queue'[i].record, frames')
                       ELSE BeforeAll(queue'[i].record, frames')
      BY <1>5 DEF QueueNext
    <3>1. CASE queue'[i].ext
      <4>1. queue'[i].ext = queue[1].ext
        BY <2>1, <3>1 DEF Items, TypeInv
      <4> QED
        BY <1>4, <1>5, <2>3, <3>1, <4>1
    <3>2. CASE ~queue'[i].ext
      BY <1>4, <1>5, <2>1, <2>3, <3>2
    <3> QED
      BY <3>1, <3>2
  <2>7. Counted'
    <3>1. r.n <= logged[r.from]
      BY <1>1 DEF OrderInv, Counted
    <3>2. \A c \in Conns : \A i \in DOMAIN frames'[c] :
            \/ frames'[c][i] = r
            \/ \E j \in DOMAIN frames[c] : frames'[c][i] = frames[c][j]
      BY <2>1 DEF Handed
    <3>3. \A c \in Conns : \A i \in DOMAIN frames'[c] :
            frames'[c][i] # Garbage =>
              frames'[c][i].n <= logged[frames'[c][i].from]
      BY <3>1, <3>2 DEF OrderInv, Counted
    <3>4. \A i \in DOMAIN queue' :
            queue'[i].record.n <= logged[queue'[i].record.from]
      BY <1>1 DEF OrderInv, Counted
    <3> QED
      BY <1>6, <2>1, <3>3, <3>4 DEF OrderInv, Counted
  <2> QED
    BY <2>3, <2>4, <2>5, <2>6, <2>7 DEF OrderInv
<1>8. CASE ~Head(queue).ext
  <2>1. /\ ~queue[1].ext /\ UNCHANGED <<conn, frames>>
        /\ file' = Append(file, r) \/ UNCHANGED file
    BY <1>1, <1>8, ProcessDoes
  <2>2. /\ \A i \in DOMAIN file' :
             \/ i \in DOMAIN file /\ file'[i] = file[i]
             \/ i = Len(file) + 1 /\ file'[i] = r
        /\ DOMAIN file = 1..Len(file) /\ Len(file) \in Nat
    <3>1. file \in Seq(Record)
      BY DEF TypeInv
    <3> QED
      BY <1>2, <2>1, <3>1, AppendOf
  <2>3. /\ BeforeAll(r, frames)
        /\ \A i \in DOMAIN file : Earlier(file[i], r) /\ BeforeAll(file[i], frames)
    BY <1>1, <2>1 DEF OrderInv, QueueNext, FileFirst
  <2>4. EachInOrder'
    <3>1. \A i, j \in DOMAIN file' : i < j => Earlier(file'[i], file'[j])
      <4> SUFFICES ASSUME NEW i \in DOMAIN file', NEW j \in DOMAIN file', i < j
                   PROVE Earlier(file'[i], file'[j])
        OBVIOUS
      <4>1. i \in DOMAIN file /\ file'[i] = file[i]
        BY <2>2
      <4>2. CASE j \in DOMAIN file /\ file'[j] = file[j]
        BY <4>1, <4>2 DEF OrderInv, EachInOrder
      <4>3. CASE file'[j] = r
        BY <2>3, <4>1, <4>3
      <4> QED
        BY <2>2, <4>2, <4>3
    <3> QED
      BY <1>3, <2>1, <3>1 DEF OrderInv, EachInOrder
  <2>5. FileFirst'
    <3>1. \A j \in DOMAIN queue' : Earlier(r, queue'[j].record)
      <4>1. \A j \in DOMAIN queue' : ~queue'[j].ext => queue'[j].ext = queue[1].ext
        <5> SUFFICES ASSUME NEW j \in DOMAIN queue', ~queue'[j].ext
                     PROVE queue'[j].ext = queue[1].ext
          OBVIOUS
        <5>1. queue'[j] \in Items
          BY <1>1 DEF TypeInv
        <5>2. queue'[j].ext = FALSE /\ queue[1].ext = FALSE
          BY <1>1, <2>1, <5>1 DEF Items
        <5> QED
          BY <5>2
      <4> QED
        BY <1>4, <2>1, <4>1
    <3>2. \A i \in DOMAIN file : \A j \in DOMAIN queue' :
            Earlier(file[i], queue'[j].record)
      BY <1>1 DEF OrderInv, FileFirst
    <3> QED
      BY <2>1, <2>2, <2>3, <3>1, <3>2 DEF FileFirst
  <2>6. QueueNext'
    BY <1>5, <2>1 DEF QueueNext
  <2>7. Counted'
    BY <1>1, <1>6, <2>1, <2>2 DEF OrderInv, Counted
  <2>8. CarriersHaveThem' /\ ExtLast'
    BY <2>1 DEF OrderInv, CarriersHaveThem, ExtLast
  <2> QED
    BY <2>4, <2>5, <2>6, <2>7, <2>8 DEF OrderInv
<1> QED
  BY <1>7, <1>8

LEMMA OrderStep == TypeInv /\ TypeInv' /\ OrderInv /\ [Next]_vars => OrderInv'
<1> SUFFICES ASSUME TypeInv, TypeInv', OrderInv, [Next]_vars
             PROVE OrderInv'
  OBVIOUS
<1>1. ASSUME NEW p \in Processes, Log(p)
      PROVE OrderInv'
  BY <1>1, LogInOrder
<1>2. ASSUME NEW p \in Children, Fork(p)
      PROVE OrderInv'
  <2>1. /\ conn' = [conn EXCEPT ![p] = conn[Main]] /\ conn[p] = None
        /\ UNCHANGED <<frames, queue, file, logged>>
    BY <1>2 DEF Fork
  <2>2. \A q \in Processes : conn[q] # None => conn'[q] = conn[q]
    BY <2>1 DEF TypeInv, NetType
  <2>3. \A q \in Senders : logged[q] <= logged'[q]
    BY <2>1 DEF TypeInv
  <2> QED
    BY <2>1, <2>2, <2>3, IdleInOrder
<1>3. ASSUME NEW p \in Children, NEW q \in Processes, Mix(p, q)
      PROVE OrderInv'
  <2>1. /\ frames' = [frames EXCEPT ![conn[p]] = Append(@, Garbage)]
        /\ logged' = [logged EXCEPT ![p] = @ + 1, ![q] = @ + 1]
        /\ conn[p] # None /\ UNCHANGED <<conn, queue, file>>
    BY <1>3 DEF Mix
  <2>2. conn[p] \in Conns
    BY <2>1 DEF TypeInv, NetType, Processes
  <2>3. \A c \in Conns : \A i \in DOMAIN frames'[c] :
          \/ frames'[c][i] = Garbage
          \/ i \in DOMAIN frames[c] /\ frames'[c][i] = frames[c][i]
    <3> SUFFICES ASSUME NEW c \in Conns
                 PROVE \A i \in DOMAIN frames'[c] :
                   \/ frames'[c][i] = Garbage
                   \/ i \in DOMAIN frames[c] /\ frames'[c][i] = frames[c][i]
      OBVIOUS
    <3>1. frames[c] \in Seq(Record \cup {Garbage})
      BY DEF TypeInv, NetType
    <3>2. frames'[c] = frames[c] \/ frames'[c] = Append(frames[c], Garbage)
      BY <2>1, <2>2 DEF TypeInv, NetType
    <3> QED
      BY <3>1, <3>2, AppendOf
  <2>4. \A s \in Senders : logged[s] <= logged'[s]
    <3> SUFFICES ASSUME NEW s \in Senders
                 PROVE logged[s] <= logged'[s]
      OBVIOUS
    <3>1. logged[s] \in Nat /\ DOMAIN logged = Senders
      BY DEF TypeInv
    <3>2. logged'[s] \in {logged[s], logged[s] + 1, logged[s] + 1 + 1}
      BY <2>1, <3>1
    <3> QED
      BY <3>1, <3>2
  <2> QED
    BY <2>1, <2>3, <2>4, IdleInOrder
<1>4. CASE ExtLog
  BY <1>4, ExtLogInOrder
<1>5. ASSUME NEW c \in Conns, Receive(c)
      PROVE OrderInv'
  BY <1>5, ReceiveInOrder
<1>6. ASSUME NEW c \in Conns, ReceiveGarbage(c)
      PROVE OrderInv'
  <2>1. /\ frames' = [frames EXCEPT ![c] = <<>>]
        /\ UNCHANGED <<conn, queue, file, logged>>
    BY <1>6 DEF ReceiveGarbage
  <2>2. \A d \in Conns : \A i \in DOMAIN frames'[d] :
          i \in DOMAIN frames[d] /\ frames'[d][i] = frames[d][i]
    BY <2>1 DEF TypeInv, NetType
  <2>3. \A q \in Senders : logged[q] <= logged'[q]
    BY <2>1 DEF TypeInv
  <2> QED
    BY <2>1, <2>2, <2>3, IdleInOrder
<1>7. ASSUME NEW after, queue # <<>>, Process(after)
      PROVE OrderInv'
  BY <1>7, ProcessInOrder
<1>8. CASE UNCHANGED <<conn, frames, queue, file, logged>>
  <2>1. \A q \in Senders : logged[q] <= logged'[q]
    BY <1>8 DEF TypeInv
  <2> QED
    BY <1>8, <2>1, IdleInOrder
<1>9. CASE \/ GetAddress \/ Close \/ CloseReturns \/ Bind \/ Join \/ Check
           \/ GetTimesOut \/ PauseEnds \/ Drained \/ UNCHANGED vars
  BY <1>8, <1>9 DEF GetAddress, Close, CloseReturns, Bind, Join, Check,
                    GetTimesOut, PauseEnds, Drained, net, vars
<1> QED
  BY <1>1, <1>2, <1>3, <1>4, <1>5, <1>6, <1>7, <1>9
     DEF Next, Listener, Get, Drain

----------------------------------------------------------------------------
(* The theorem.                                                            *)

LEMMA InvariantAlways == Spec => []LogInv
<1>1. Init => LogInv
  BY InitType, InitDelivery, InitOrder DEF LogInv
<1>2. LogInv /\ [Next]_vars => LogInv'
  BY TypeStep, PhaseStep, DeliveryStep, OrderStep DEF LogInv
<1> QED
  BY <1>1, <1>2, PTL DEF Spec

\* The log file can be relied on (mp_logger.py, socket_interface.py): the
\* server serves until close() is called, what is logged meanwhile is on its
\* way or in the file, what was logged before is in the file when close()
\* returns, and a record is in it once, after those its process logged before.
\* Records on a connection that two processes spoilt are excepted.
THEOREM LogAlwaysComplete == Spec => []LogComplete
<1>1. LogInv => LogComplete
  <2> SUFFICES ASSUME LogInv
               PROVE LogComplete
    OBVIOUS
  <2>1. ServesUntilClosed /\ OnItsWay
    BY DEF LogInv, PhaseInv, DeliveryInv
  <2>2. WrittenBeforeClose
    BY DEF LogInv, PhaseInv, DeliveryInv, BeforeInv, WrittenBeforeClose
  <2>3. InOrderOnce
    <3>1. file \in Seq(Record) /\ \A i \in DOMAIN file : file[i] # Garbage
      BY Kinds DEF LogInv, TypeInv
    <3> QED
      BY <3>1 DEF LogInv, OrderInv, EachInOrder, Earlier, InOrderOnce
  <2> QED
    BY <2>1, <2>2, <2>3 DEF LogComplete
<1> QED
  BY <1>1, InvariantAlways, PTL
=============================================================================
