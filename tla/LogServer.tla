----------------------------- MODULE LogServer -----------------------------
(***************************************************************************)
(* The logging server (openwpm/mp_logger.py, openwpm/socket_interface.py). *)
(*                                                                         *)
(* Every process logs through a socket; a thread per connection puts the   *)
(* records into a queue, and the listener thread of the main process       *)
(* writes them to the log file.  Records of the extension are handed to    *)
(* the logger of the main process first, so they travel twice.  The main   *)
(* process learns the address of the server, and tells it to shut down,    *)
(* over one queue.                                                         *)
(*                                                                         *)
(* A forked process inherits the logger of the main process, its open      *)
(* connection included, but not a lock: two long records sent at a time    *)
(* mix on the connection.  What is formatted into a record, the console    *)
(* and Sentry are left out.                                                *)
(*                                                                         *)
(* Definitions marked "Variant:" are defective versions of the definition  *)
(* that follows them, for the model checker.                               *)
(***************************************************************************)
EXTENDS Naturals, FiniteSets, SequencesExt

CONSTANTS
  Main,       \* the main process
  Children,   \* processes it forks
  Ext,        \* the extension, which has a connection of its own
  MaxRecords, \* bound: records that each of them logs
  MaxConns,   \* bound: connections of Main and Children
  Long,       \* records that need more than one send
  Poison,     \* records whose arguments the listener cannot unpickle
  None, Garbage

Processes == Children \cup {Main}
Senders == Processes \cup {Ext}
Record == [from : Senders, n : 1..MaxRecords]
Conns == 0..MaxConns       \* 0 is the connection of the extension

ASSUME MainAssumption == Main \notin Children /\ Ext \notin Processes
ASSUME NamesAssumption == None \notin Conns /\ Garbage \notin Record
ASSUME BoundsAssumption == MaxRecords \in Nat /\ MaxConns \in Nat
ASSUME RecordsAssumption == Long \subseteq Record /\ Poison \subseteq Record

VARIABLES
  status_queue, unfinished,  \* the JoinableQueue
  main,       \* "starting", "running", "closing", "closed"
  listener,   \* "binding", "bound", "joining", "checking", "getting",
              \* "pausing", "draining", "ended", or "dead" of an exception
  listening,  \* the server's socket: "no", "open", "closing", "closed"
  conn,       \* the connection each process uses, None if it has none
  state,      \* of connections: "unused", "open", "closed", or "stuck": its
              \* thread waits for the rest of a message with a wrong length
  frames,     \* what was sent and not received
  queue,      \* the queue of received records
  file,       \* the log file
  logged,     \* number of records each process has logged
  sent,       \* history: records handed to the socket handler
  torn,       \* history: records sent to a connection that was spoilt
  before      \* history: the records sent when close() was called

signals == <<status_queue, unfinished>>
threads == <<main, listener>>
net     == <<conn, state, frames>>
history == <<sent, torn, before>>

vars == <<signals, threads, listening, net, queue, file, logged, history>>

Init ==
  /\ status_queue = <<>> /\ unfinished = 0
  /\ main = "starting" /\ listener = "binding" /\ listening = "no"
  /\ conn = [p \in Processes |-> None]
  /\ state = [c \in Conns |-> "unused"]
  /\ frames = [c \in Conns |-> <<>>]
  /\ queue = <<>> /\ file = <<>>
  /\ logged = [p \in Senders |-> 0]
  /\ sent = {} /\ torn = {} /\ before = {}

Put(signal) ==
  status_queue' = Append(status_queue, signal) /\ unfinished' = unfinished + 1

----------------------------------------------------------------------------
(* Start and stop: _initialize_loggers() and close() in the main thread.   *)

\* The task_done() wakes the listener, if it is joining already.
GetAddress ==
  /\ main = "starting" /\ status_queue # <<>>
  /\ status_queue' = Tail(status_queue) /\ unfinished' = unfinished - 1
  /\ main' = "running"
  /\ listener' = IF listener = "joining" THEN "checking" ELSE listener
  /\ UNCHANGED <<listening, net, queue, file, logged, history>>

Close ==
  /\ main = "running"
  /\ Put("SHUTDOWN")
  /\ main' = "closing"
  /\ before' = sent
  /\ UNCHANGED <<listener, listening, net, queue, file, logged, sent, torn>>

CloseReturns ==
  /\ main = "closing" /\ unfinished = 0 /\ listener \in {"ended", "dead"}
  /\ main' = "closed"
  /\ UNCHANGED <<signals, listener, listening, net, queue, file, logged,
                 history>>

----------------------------------------------------------------------------
(* Senders: SocketHandler.emit() with ClientSocketHandler.makePickle().    *)

Connectable == listening \in {"open", "closing"}

\* A closed socket serves the accept() that is under way, and only that.
Accepted == listening' = IF listening = "closing" THEN "closed" ELSE listening

Fresh == {c \in Conns \ {0} : state[c] = "unused"}

\* The record r goes to the connection of p, which is opened if need be.
\* After an error the connection is dropped, the record is not sent again.
Send(p, r) ==
  /\ sent' = sent \cup {r}
  /\ LET c == conn[p]
     IN  \/ /\ c = None /\ Connectable
            /\ \E new \in Fresh :
                 /\ \A d \in Fresh : new <= d
                 /\ conn' = [conn EXCEPT ![p] = new]
                 /\ state' = [state EXCEPT ![new] = "open"]
                 /\ frames' = [frames EXCEPT ![new] = <<r>>]
            /\ Accepted /\ UNCHANGED torn
         \/ /\ c = None /\ ~Connectable
            /\ UNCHANGED <<net, listening, torn>>
         \/ /\ c # None /\ state[c] = "open"
            /\ frames' = [frames EXCEPT ![c] = Append(@, r)]
            /\ UNCHANGED <<conn, state, listening, torn>>
         \/ /\ c # None /\ state[c] \in {"closed", "stuck"}
            /\ torn' = torn \cup {r}
            /\ \/ UNCHANGED conn
               \/ state[c] = "closed" /\ conn' = [conn EXCEPT ![p] = None]
            /\ UNCHANGED <<state, frames, listening>>

NextRecord(p) == [from |-> p, n |-> logged[p] + 1]

Log(p) ==
  /\ main # "starting" /\ logged[p] < MaxRecords
  /\ Send(p, NextRecord(p))
  /\ logged' = [logged EXCEPT ![p] = @ + 1]
  /\ UNCHANGED <<signals, threads, queue, file, before>>

\* A process is forked, with the connection that the main process has.  (One
\* that logs without it was forked before there was one.)
Fork(p) ==
  /\ main = "running" /\ logged[p] = 0 /\ conn[p] = None /\ conn[Main] # None
  /\ conn' = [conn EXCEPT ![p] = conn[Main]]
  /\ UNCHANGED <<signals, threads, listening, state, frames, queue, file,
                 logged, history>>

\* Two processes send long records on one connection at the same time.
Mix(p, q) ==
  /\ p # q /\ conn[p] = conn[q] /\ conn[p] # None /\ state[conn[p]] = "open"
  /\ logged[p] < MaxRecords /\ logged[q] < MaxRecords
  /\ LET both == {NextRecord(p), NextRecord(q)}
     IN  /\ both \subseteq Long
         /\ sent' = sent \cup both /\ torn' = torn \cup both
  /\ frames' = [frames EXCEPT ![conn[p]] = Append(@, Garbage)]
  /\ logged' = [logged EXCEPT ![p] = @ + 1, ![q] = @ + 1]
  /\ UNCHANGED <<signals, threads, listening, conn, state, queue, file, before>>

\* The extension sends ["EXT", ...] on the connection it opened at its start.
ExtLog ==
  /\ main # "starting" /\ logged[Ext] < MaxRecords
  /\ \/ state[0] = "unused" /\ Connectable /\ Accepted
        /\ state' = [state EXCEPT ![0] = "open"]
     \/ state[0] = "open" /\ UNCHANGED <<state, listening>>
  /\ frames' = [frames EXCEPT ![0] = Append(@, NextRecord(Ext))]
  /\ logged' = [logged EXCEPT ![Ext] = @ + 1]
  /\ UNCHANGED <<signals, threads, conn, queue, file, history>>

----------------------------------------------------------------------------
(* The thread of a connection: ServerSocket._handle_conn().                *)

\* A record is queued under the connection it came from, which tells an
\* extension's own message from the record the main process made of it.
Receive(c) ==
  /\ state[c] = "open" /\ frames[c] # <<>> /\ Head(frames[c]) # Garbage
  /\ queue' = Append(queue, [ext |-> c = 0, record |-> Head(frames[c])])
  /\ frames' = [frames EXCEPT ![c] = Tail(@)]
  /\ UNCHANGED <<signals, threads, listening, conn, state, file, logged,
                 history>>

\* Garbage: the error of the parser, or the one in its handler, ends the
\* thread and closes the connection, or the thread waits for ever.
ReceiveGarbage(c) ==
  /\ state[c] = "open" /\ frames[c] # <<>> /\ Head(frames[c]) = Garbage
  /\ \E s \in {"closed", "stuck"} : state' = [state EXCEPT ![c] = s]
  /\ torn' = torn \cup (ToSet(frames[c]) \ {Garbage})
  /\ frames' = [frames EXCEPT ![c] = <<>>]
  /\ UNCHANGED <<signals, threads, listening, conn, queue, file, logged, sent,
                 before>>

----------------------------------------------------------------------------
(* The listener thread: _start_listener().                                 *)

Bind ==
  /\ listener = "binding"
  /\ listening' = "open"
  /\ Put("address")
  /\ listener' = "bound"
  /\ UNCHANGED <<main, net, queue, file, logged, history>>

\* Variant: the listener does not wait for the address to be taken.
JoinNot ==
  /\ listener = "bound"
  /\ listener' = "checking"
  /\ UNCHANGED <<signals, main, listening, net, queue, file, logged, history>>

Join ==
  /\ listener = "bound"
  /\ listener' = IF unfinished = 0 THEN "checking" ELSE "joining"
  /\ UNCHANGED <<signals, main, listening, net, queue, file, logged, history>>

Check ==
  /\ listener = "checking"
  /\ IF status_queue # <<>>
     THEN /\ status_queue' = Tail(status_queue)
          /\ listening' = "closing" /\ listener' = "pausing"
     ELSE listener' = "getting" /\ UNCHANGED <<status_queue, listening>>
  /\ UNCHANGED <<unfinished, main, net, queue, file, logged, history>>

\* _process_record(): a record is written to the file, one of the extension
\* is handed to the logger of this process, which sends it to the server.
Process(after) ==
  LET item == Head(queue)
  IN  /\ queue' = Tail(queue)
      /\ IF item.ext
         THEN Send(Main, item.record) /\ listener' = after /\ UNCHANGED file
         ELSE /\ IF item.record \in Poison
                 THEN listener' = "dead" /\ UNCHANGED file
                 ELSE listener' = after /\ file' = Append(file, item.record)
              /\ UNCHANGED <<net, listening, sent, torn>>
      /\ UNCHANGED <<signals, main, logged, before>>

Get == listener = "getting" /\ queue # <<>> /\ Process("checking")

\* queue.get(True, 10) runs into its timeout.
GetTimesOut ==
  /\ listener = "getting" /\ queue = <<>>
  /\ listener' = "checking"
  /\ UNCHANGED <<signals, main, listening, net, queue, file, logged, history>>

\* Three seconds: the threads have read what was sent before the shutdown.
\* Variant: no time at all.
PauseEndsAtOnce ==
  /\ listener = "pausing"
  /\ listener' = "draining"
  /\ UNCHANGED <<signals, main, listening, net, queue, file, logged, history>>

PauseEnds ==
  /\ listener = "pausing"
  /\ \A c \in Conns : state[c] = "open" =>
       ToSet(frames[c]) \cap (before \cup {Garbage}) = {}
  /\ listener' = "draining"
  /\ UNCHANGED <<signals, main, listening, net, queue, file, logged, history>>

Drain == listener = "draining" /\ queue # <<>> /\ Process("draining")

\* Variant: the loop is left without task_done().
DrainedUndone ==
  /\ listener = "draining" /\ queue = <<>>
  /\ listener' = "ended"
  /\ UNCHANGED <<signals, main, listening, net, queue, file, logged, history>>

Drained ==
  /\ listener = "draining" /\ queue = <<>>
  /\ unfinished' = unfinished - 1
  /\ listener' = "ended"
  /\ UNCHANGED <<status_queue, main, listening, net, queue, file, logged,
                 history>>

Listener == Bind \/ Join \/ Check \/ Get \/ GetTimesOut
            \/ PauseEnds \/ Drain \/ Drained

Next ==
  \/ GetAddress \/ Close \/ CloseReturns
  \/ \E p \in Processes : Log(p)
  \/ \E p \in Children : Fork(p) \/ \E q \in Processes : Mix(p, q)
  \/ ExtLog
  \/ \E c \in Conns : Receive(c) \/ ReceiveGarbage(c)
  \/ Listener

\* The threads of the server run, and so does the one that called close().
Fairness ==
  /\ WF_vars(Listener) /\ WF_vars(CloseReturns)
  /\ \A c \in Conns : WF_vars(Receive(c)) /\ WF_vars(ReceiveGarbage(c))

Spec == Init /\ [][Next]_vars /\ Fairness

----------------------------------------------------------------------------
(* Properties.                                                             *)

InTransit ==
  (UNION {ToSet(frames[c]) : c \in Conns \ {0}})
    \cup {item.record : item \in {i \in ToSet(queue) : ~i.ext}}

\* Nobody but close() stops the server.
ServesUntilClosed ==
  listening \in {"closing", "closed"} => main \in {"closing", "closed"}

\* While the server runs, what was logged is on its way or in the file,
\* unless another process spoilt its connection.
OnItsWay ==
  main = "running" /\ listener # "dead" =>
    sent \subseteq ToSet(file) \cup InTransit \cup torn

\* What was logged before close() is in the file when it returns.
WrittenBeforeClose ==
  main = "closed" => before \subseteq ToSet(file) \cup torn

\* A record is logged once, and those of one process in their order
\* (test/test_mp_logger.py counts each of them once).
InOrderOnce ==
  \A i, j \in DOMAIN file :
    i < j /\ file[i].from = file[j].from => file[i].n < file[j].n

\* The log file can be relied on: the four facts above.
LogComplete ==
  ServesUntilClosed /\ OnItsWay /\ WrittenBeforeClose /\ InOrderOnce

\* close() returns, unless a record killed the listener thread: its join on
\* the queue then waits for a task_done() that nobody makes.  (A close() even
\* before the listener has come to its own join waits for it in vain, too.)
CloseEnds ==
  main = "closing" /\ listener \notin {"bound", "joining"} ~>
    main = "closed" \/ listener = "dead"
============================================================================
