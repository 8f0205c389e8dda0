----------------------------- MODULE Extension -----------------------------
(***************************************************************************)
(* The WebExtension's records and the visit they belong to                 *)
(* (Extension/src/loggingdb.ts, background/http-instrument.ts,             *)
(* lib/response-body-listener.ts), the commands that drive it              *)
(* (openwpm/commands/browser_commands.py) and the database of the content  *)
(* (openwpm/storage/leveldb.py).                                           *)
(*                                                                         *)
(* The browser process sends the extension the beginning, the number and   *)
(* the end of each visit over a socket, without waiting for an answer.     *)
(* The handlers of the browser's events look up the tab, and wait for the  *)
(* body and its hash, before they save a record, which is stamped with the *)
(* visit that is current at that moment.  A tab that was closed cannot be  *)
(* looked up: the record is lost.                                          *)
(*                                                                         *)
(* One requestId stands for a request that is not redirected.  The         *)
(* onBeforeRequest event that a POST waits for has always come by then.    *)
(* Other browsers write to the content database as well; the messages of   *)
(* one extension are stored as they come.                                  *)
(*                                                                         *)
(* Definitions marked "Variant:" are defective versions of the definition  *)
(* that follows them, for the model checker.                               *)
(***************************************************************************)
EXTENDS Integers, FiniteSets, SequencesExt

CONSTANTS
  Visits,         \* bound: visits made by this browser, 1..n
  Requests,       \* bound: the requests
  Background,     \* those that belong to no tab
  WithContent,    \* those of a type in save_content
  Chunks,         \* the pieces that bodies are made of
  MaxChunks,      \* bound: pieces of a body
  MaxTabs,        \* bound: no further page in a visit after so many tabs
  LDB_BATCH_SIZE,
  None

ASSUME VisitsAssumption == Visits \in Nat
ASSUME RequestsAssumption == Background \subseteq Requests
                             /\ WithContent \subseteq Requests
ASSUME ContentAssumption == MaxChunks \in Nat /\ MaxTabs \in Nat
                             /\ LDB_BATCH_SIZE \in Nat \ {0}
ASSUME NoneAssumption == None \notin Nat

\* sha256, as far as it matters here: different contents, different digests.
Digest(content) == content

VARIABLES
  visit,      \* the visit_id of the commands, 0 before the first
  step,       \* the last command: "none", "Initialize", "Get", "Restart" (the
              \* tab was replaced by Finalize, which sleeps), "Finalize"
  inbox,      \* messages to the extension that it has not handled
  tab,        \* number of the current tab
  visitID,    \* None between visits
  asked,      \* the tab and visit each request was made in, None before
  stage,      \* the request's events: "none", "sent", "done", "failed"
  task,       \* what the handlers of onBeforeSendHeaders ("http_requests") and
              \* onCompleted ("http_responses") wait for: "none", "tab",
              \* "content", and "saved" or "lost" in the end
  body,       \* the chunks that came
  stopped,    \* onstop was called
  hash,       \* what resolved the promise of the content hash
  records,    \* history: the records sent
  open,       \* history: visits initialized and not finalized in what was sent
  db, batch,  \* the content database, and what is not written yet
  counter     \* _ldb_counter

Tables == {"http_requests", "http_responses"}

commands == <<visit, step, tab>>
events   == <<asked, stage, body, stopped, hash>>
content  == <<db, batch, counter>>
sent     == <<records, open>>

vars == <<commands, inbox, visitID, events, task, sent, content>>

Init ==
  /\ visit = 0 /\ step = "none" /\ tab = 0 /\ inbox = <<>> /\ visitID = None
  /\ asked = [r \in Requests |-> None]
  /\ stage = [r \in Requests |-> "none"]
  /\ task = [t \in Tables |-> [r \in Requests |-> "none"]]
  /\ body = [r \in Requests |-> <<>>]
  /\ stopped = [r \in Requests |-> FALSE]
  /\ hash = [r \in Requests |-> None]
  /\ records = {} /\ open = {}
  /\ db = <<>> /\ batch = <<>> /\ counter = 0

----------------------------------------------------------------------------
(* Commands of the browser process.                                        *)

Tell(action, id) == inbox' = Append(inbox, [action |-> action, visit_id |-> id])

CommandRest == <<visitID, events, task, sent, content>>

InitializeCommand ==
  /\ step \in {"none", "Finalize"} /\ visit < Visits
  /\ visit' = visit + 1 /\ step' = "Initialize"
  /\ Tell("Initialize", visit + 1)
  /\ UNCHANGED <<tab, CommandRest>>

\* tab_restart_browser() opens a tab and closes the old one, unless that is
\* still blank.  A visit may get several pages.
GetCommand ==
  /\ step = "Initialize" \/ (step = "Get" /\ tab < MaxTabs)
  /\ step' = "Get"
  /\ tab' = IF step = "Get" THEN tab + 1 ELSE tab
  /\ Tell("visit_id", visit)
  /\ UNCHANGED <<visit, CommandRest>>

\* FinalizeCommand replaces the tab, sleeps and tells the extension.
RestartTab ==
  /\ step \in {"Initialize", "Get"}
  /\ step' = "Restart"
  /\ tab' = IF step = "Get" THEN tab + 1 ELSE tab
  /\ UNCHANGED <<visit, inbox, CommandRest>>

\* What the five seconds are for: whatever a request of a closed tab still
\* waits for that comes at all has come, and messages were handled.
Settled ==
  /\ inbox = <<>>
  /\ \A r \in Requests \ Background :
       /\ stage[r] # "sent"
       /\ \A t \in Tables : task[t][r] # "tab"
       /\ task["http_responses"][r] = "content" => body[r] = <<>>

\* Variant: no sleep.
FinalizeCommandAtOnce ==
  /\ step = "Restart"
  /\ step' = "Finalize"
  /\ Tell("Finalize", visit)
  /\ UNCHANGED <<visit, tab, CommandRest>>

FinalizeCommand ==
  /\ step = "Restart" /\ Settled
  /\ step' = "Finalize"
  /\ Tell("Finalize", visit)
  /\ UNCHANGED <<visit, tab, CommandRest>>

----------------------------------------------------------------------------
(* The extension's listening socket: listeningSocketCallback().            *)

\* Variant: the visit goes on after its Finalize.
VisitAfterKept(msg) ==
  IF msg.action = "Finalize" THEN visitID ELSE msg.visit_id

VisitAfter(msg) == IF msg.action = "Finalize" THEN None ELSE msg.visit_id

Listen ==
  /\ inbox # <<>>
  /\ LET msg == Head(inbox)
     IN  /\ visitID' = VisitAfter(msg)
         /\ open' = CASE msg.action = "Initialize" -> open \cup {msg.visit_id}
                      [] msg.action = "Finalize" -> open \ {msg.visit_id}
                      [] OTHER -> open
  /\ inbox' = Tail(inbox)
  /\ UNCHANGED <<commands, events, task, records, content>>

----------------------------------------------------------------------------
(* Events of the browser.                                                  *)

EventRest == <<commands, inbox, visitID, sent, content>>

\* A request is made by the page in the current tab or in the background;
\* its onBeforeSendHeaders handler begins to look up the tab, if it has one.
SendRequest(r) ==
  /\ stage[r] = "none" /\ visit > 0
  /\ r \in Background \/ step = "Get"
  /\ asked' = [asked EXCEPT ![r] = [tab |-> tab, visit |-> visit]]
  /\ stage' = [stage EXCEPT ![r] = "sent"]
  /\ task' = [task EXCEPT !["http_requests"][r] = "tab"]
  /\ UNCHANGED <<body, stopped, hash, EventRest>>

\* The filter of the response: ondata, and onstop at its end, which may come
\* after onCompleted.
\* Variant: the filter does not outlive onCompleted.
StreamingUntilDone(r) == r \in WithContent /\ stage[r] = "sent" /\ ~stopped[r]

Streaming(r) ==
  r \in WithContent /\ stage[r] \in {"sent", "done"} /\ ~stopped[r]

OnData(r) ==
  /\ Streaming(r) /\ stage[r] = "sent" /\ Len(body[r]) < MaxChunks
  /\ \E chunk \in Chunks : body' = [body EXCEPT ![r] = Append(@, chunk)]
  /\ UNCHANGED <<asked, stage, stopped, hash, task, EventRest>>

OnStop(r) ==
  /\ Streaming(r)
  /\ stopped' = [stopped EXCEPT ![r] = TRUE]
  /\ UNCHANGED <<asked, stage, body, hash, task, EventRest>>

\* The digest of each chunk is computed asynchronously, and the first that is
\* ready resolves the promise.
DigestReady(r) ==
  /\ hash[r] = None
  /\ \E i \in DOMAIN body[r] :
       hash' = [hash EXCEPT ![r] = Digest(<<body[r][i]>>)]
  /\ UNCHANGED <<asked, stage, body, stopped, task, EventRest>>

\* onCompleted: the handler begins to look up the tab.
Complete(r) ==
  /\ stage[r] = "sent"
  /\ stage' = [stage EXCEPT ![r] = "done"]
  /\ task' = [task EXCEPT !["http_responses"][r] = "tab"]
  /\ UNCHANGED <<asked, body, stopped, hash, EventRest>>

\* The request fails, as every request does whose tab is closed.
Fail(r) ==
  /\ stage[r] = "sent"
  /\ stage' = [stage EXCEPT ![r] = "failed"]
  /\ UNCHANGED <<asked, body, stopped, hash, task, EventRest>>

----------------------------------------------------------------------------
(* The handlers go on.                                                     *)

\* saveRecord(): -1 stands for no visit.
SaveRecord(t, r) ==
  records' = records \cup
    {[table |-> t, request |-> r,
      visit_id |-> IF visitID = None THEN -1 ELSE visitID]}

Holds(store, key) == key \in DOMAIN store
With(store, key, value) ==
  [k \in DOMAIN store \cup {key} |-> IF k = key THEN value ELSE store[k]]

\* LevelDbProvider.store_blob(), which flushes every LDB_BATCH_SIZE blobs.
StoreBlob(key, blob) ==
  IF Holds(db, key) THEN UNCHANGED content
  ELSE LET full == counter + 1 >= LDB_BATCH_SIZE
           put  == With(batch, key, blob)
       IN  /\ counter' = IF full THEN 0 ELSE counter + 1
           /\ batch' = IF full THEN <<>> ELSE put
           /\ db' = IF full
                    THEN [k \in DOMAIN db \cup DOMAIN put |->
                            IF Holds(put, k) THEN put[k] ELSE db[k]]
                    ELSE db

ThereIsATab(r) == r \in Background \/ asked[r].tab = tab

\* browser.tabs.get(): without a tab the handler ends in a rejected promise.
NextTask(t, r) ==
  IF ~ThereIsATab(r) THEN "lost"
  ELSE IF t = "http_responses" /\ r \in WithContent THEN "content" ELSE "saved"

TabLookedUp(t, r) ==
  /\ task[t][r] = "tab"
  /\ task' = [task EXCEPT ![t][r] = NextTask(t, r)]
  /\ IF NextTask(t, r) = "saved" THEN SaveRecord(t, r) ELSE UNCHANGED records
  /\ UNCHANGED <<commands, inbox, visitID, events, open, content>>

\* logWithResponseBody(): the content and then the record are sent.
ContentCame(r) ==
  /\ task["http_responses"][r] = "content" /\ stopped[r] /\ hash[r] # None
  /\ task' = [task EXCEPT !["http_responses"][r] = "saved"]
  /\ StoreBlob(hash[r], body[r])
  /\ SaveRecord("http_responses", r)
  /\ UNCHANGED <<commands, inbox, visitID, events, open>>

Commands == InitializeCommand \/ GetCommand \/ RestartTab \/ FinalizeCommand

Continue(r) == (\E t \in Tables : TabLookedUp(t, r)) \/ ContentCame(r)

Next ==
  \/ Commands \/ Listen
  \/ \E r \in Requests :
       \/ SendRequest(r) \/ OnData(r) \/ OnStop(r) \/ DigestReady(r)
       \/ Complete(r) \/ Fail(r) \/ Continue(r)

\* The extension's event loop runs, digests are computed, and the browser
\* ends the stream of a response that is complete.
Fairness ==
  /\ WF_vars(Listen)
  /\ \A r \in Requests :
       /\ WF_vars(DigestReady(r)) /\ WF_vars(Continue(r))
       /\ WF_vars(OnStop(r) /\ stage[r] = "done")

Spec == Init /\ [][Next]_vars /\ Fairness

----------------------------------------------------------------------------
(* Properties.                                                             *)

\* A record with a visit's id is sent after the visit's Initialize and before
\* its Finalize: the storage controller never gets a record of a visit that
\* is finalized.
InItsVisit(rec) == rec.visit_id \in open \cup {-1}

\* A record of a page's request carries the id of the visit that the page was
\* loaded for, unless the extension had yet to handle a message that was sent
\* before.  (A background request may last into the next visit.)
OwnVisit(rec) ==
  rec.request \notin Background =>
    rec.visit_id = asked[rec.request].visit \/ inbox # <<>>

\* The instruments never attribute what happened in one visit to another.
StampedRight ==
  [][\A rec \in records' \ records : InItsVisit(rec) /\ OwnVisit(rec)]_vars

\* A response that is complete is saved, unless the tab is closed first or
\* its type is saved and the body is empty: its hash never comes.
ResponseSaved ==
  \A r \in Requests :
    stage[r] = "done" ~>
      \/ task["http_responses"][r] \in {"saved", "lost"}
      \/ r \in WithContent /\ body[r] = <<>>

\* docs/Configuration.md:376-378: the content_hash "can be used to do content
\* lookups in the LevelDB content database".  What is found under the hash of
\* a saved response is its body.
ContentFound ==
  \A rec \in records :
    rec.table = "http_responses" /\ rec.request \in WithContent =>
      LET key == hash[rec.request]
      IN  body[rec.request] = IF Holds(batch, key) THEN batch[key] ELSE db[key]
============================================================================
