-------------------------- MODULE Extension_proofs --------------------------
(***************************************************************************)
(* The extension never attributes what happened in one visit to another    *)
(* (StampedRight), for every number of visits, requests and tabs.          *)
(*                                                                         *)
(* Two chains meet in a record.  The messages to the extension tell of one *)
(* visit at a time: each of them is about the visit that the messages      *)
(* before it leave current (MessagesAlternate), and the last one leaves    *)
(* what the commands have come to (MessagesLead).  And the sleep of        *)
(* FinalizeCommand leaves no handler that could still save a record of a   *)
(* request of the visit: what goes on waiting waits for the hash of an     *)
(* empty body, which never comes (OldAreSettled, HashesHaveBodies).        *)
(***************************************************************************)
EXTENDS Extension, TLAPS

----------------------------------------------------------------------------
(* The invariant.                                                          *)

Messages == [action : {"Initialize", "visit_id", "Finalize"}, visit_id : Nat]

TypeInv ==
  /\ visit \in Nat /\ tab \in Nat
  /\ step \in {"none", "Initialize", "Get", "Restart", "Finalize"}
  /\ inbox \in Seq(Messages)
  /\ asked \in [Requests -> {None} \cup [tab : Nat, visit : Nat]]
  /\ stage \in [Requests -> {"none", "sent", "done", "failed"}]
  /\ task \in [Tables -> [Requests -> {"none", "tab", "content", "saved",
                                       "lost"}]]
  /\ body \in [Requests -> Seq(Chunks)]
  /\ DOMAIN hash = Requests

\* The visit that is current once the first i messages are handled.
VisitAt(i) == IF i = 0 THEN visitID ELSE VisitAfter(inbox[i])

\* A message begins a visit when there is none, or is about the current one.
MessagesAlternate ==
  \A i \in 1..Len(inbox) :
    VisitAt(i - 1) =
      IF inbox[i].action = "Initialize" THEN None ELSE inbox[i].visit_id

UnderWay == step \in {"Initialize", "Get", "Restart"}

MessagesLead == VisitAt(Len(inbox)) = IF UnderWay THEN visit ELSE None

OpenIsCurrent == open = {visitID} \ {None}

VisitInv == MessagesAlternate /\ MessagesLead /\ OpenIsCurrent

\* No handler of the request r will ever save a record.
NothingLeft(r) ==
  /\ stage[r] # "sent"
  /\ \A t \in Tables : task[t][r] # "tab"
  /\ task["http_responses"][r] = "content" => body[r] = <<>>

\* So it is for the page requests of the visits before.
OldAreSettled ==
  \A r \in Requests \ Background :
    stage[r] # "none" /\ (asked[r].visit # visit \/ ~UnderWay) => NothingLeft(r)

\* Nothing is asked before the first visit, no handler waits for a request
\* that was not made, and there is no hash without a body.
HashesHaveBodies ==
  /\ step = "none" => visit = 0
  /\ \A r \in Requests :
       /\ step = "none" => stage[r] = "none"
       /\ stage[r] = "none" => \A t \in Tables : task[t][r] = "none"
       /\ hash[r] # None => body[r] # <<>>

StampInv == TypeInv /\ VisitInv /\ OldAreSettled /\ HashesHaveBodies

----------------------------------------------------------------------------
(* The types.                                                              *)

LEMMA InitType == Init => TypeInv
BY DEF Init, TypeInv, Tables

LEMMA TypeStep == TypeInv /\ [Next]_vars => TypeInv'
<1> SUFFICES ASSUME TypeInv, [Next]_vars
             PROVE TypeInv'
  OBVIOUS
<1> USE DEF TypeInv, Messages, Tables
<1>1. CASE Commands
  <2>1. CASE InitializeCommand
    BY <2>1 DEF InitializeCommand, Tell, CommandRest, events
  <2>2. CASE GetCommand
    BY <2>2 DEF GetCommand, Tell, CommandRest, events
  <2>3. CASE RestartTab
    BY <2>3 DEF RestartTab, CommandRest, events
  <2>4. CASE FinalizeCommand
    BY <2>4 DEF FinalizeCommand, Tell, CommandRest, events
  <2> QED
    BY <1>1, <2>1, <2>2, <2>3, <2>4 DEF Commands
<1>2. CASE Listen
  BY <1>2 DEF Listen, commands, events
<1>3. ASSUME NEW r \in Requests, SendRequest(r)
      PROVE TypeInv'
  <2>1. [tab |-> tab, visit |-> visit] \in [tab : Nat, visit : Nat]
    OBVIOUS
  <2>2. asked' \in [Requests -> {None} \cup [tab : Nat, visit : Nat]]
    BY <1>3, <2>1 DEF SendRequest
  <2>3. stage' \in [Requests -> {"none", "sent", "done", "failed"}]
    BY <1>3 DEF SendRequest
  <2>4. task' \in [Tables -> [Requests -> {"none", "tab", "content", "saved",
                                           "lost"}]]
    BY <1>3 DEF SendRequest
  <2> QED
    BY <1>3, <2>2, <2>3, <2>4 DEF SendRequest, EventRest, commands
<1>4. ASSUME NEW r \in Requests, OnData(r)
      PROVE TypeInv'
  <2>1. body' \in [Requests -> Seq(Chunks)]
    BY <1>4 DEF OnData
  <2> QED
    BY <1>4, <2>1 DEF OnData, EventRest, commands
<1>5. ASSUME NEW r \in Requests, OnStop(r)
      PROVE TypeInv'
  BY <1>5 DEF OnStop, EventRest, commands
<1>6. ASSUME NEW r \in Requests, DigestReady(r)
      PROVE TypeInv'
  BY <1>6 DEF DigestReady, EventRest, commands
<1>7. ASSUME NEW r \in Requests, Complete(r)
      PROVE TypeInv'
  BY <1>7 DEF Complete, EventRest, commands
<1>8. ASSUME NEW r \in Requests, Fail(r)
      PROVE TypeInv'
  BY <1>8 DEF Fail, EventRest, commands
<1>9. ASSUME NEW r \in Requests, NEW t \in Tables, TabLookedUp(t, r)
      PROVE TypeInv'
  <2>1. NextTask(t, r) \in {"content", "saved", "lost"}
    BY DEF NextTask
  <2> QED
    BY <1>9, <2>1 DEF TabLookedUp, commands, events
<1>10. ASSUME NEW r \in Requests, ContentCame(r)
       PROVE TypeInv'
  BY <1>10 DEF ContentCame, commands, events
<1>11. CASE UNCHANGED vars
  BY <1>11 DEF vars, commands, events
<1> QED
  BY <1>1, <1>2, <1>3, <1>4, <1>5, <1>6, <1>7, <1>8, <1>9, <1>10, <1>11
     DEF Next, Continue

----------------------------------------------------------------------------
(* The messages and the current visit.                                     *)

\* What the steps that are none of the commands and not Listen leave alone.
LEMMA EventsLeaveVisits ==
  ASSUME NEW r \in Requests,
         \/ SendRequest(r) \/ OnData(r) \/ OnStop(r) \/ DigestReady(r)
         \/ Complete(r) \/ Fail(r) \/ Continue(r)
  PROVE  UNCHANGED <<visit, step, tab, inbox, visitID, open>>
<1>1. CASE SendRequest(r)
  BY <1>1 DEF SendRequest, EventRest, commands, sent
<1>2. CASE OnData(r)
  BY <1>2 DEF OnData, EventRest, commands, sent
<1>3. CASE OnStop(r)
  BY <1>3 DEF OnStop, EventRest, commands, sent
<1>4. CASE DigestReady(r)
  BY <1>4 DEF DigestReady, EventRest, commands, sent
<1>5. CASE Complete(r)
  BY <1>5 DEF Complete, EventRest, commands, sent
<1>6. CASE Fail(r)
  BY <1>6 DEF Fail, EventRest, commands, sent
<1>7. CASE Continue(r)
  BY <1>7 DEF Continue, TabLookedUp, ContentCame, commands
<1> QED
  BY <1>1, <1>2, <1>3, <1>4, <1>5, <1>6, <1>7

\* A message that fits what the commands have come to is told.
LEMMA Told ==
  ASSUME TypeInv, VisitInv,
         NEW msg \in Messages,
         inbox' = Append(inbox, msg), UNCHANGED <<visitID, open>>,
         (IF msg.action = "Initialize" THEN None ELSE msg.visit_id)
           = IF UnderWay THEN visit ELSE None,
         VisitAfter(msg) = (IF UnderWay THEN visit ELSE None)'
  PROVE  VisitInv'
<1>0. PICK n \in Nat : n = Len(inbox)
  BY DEF TypeInv
<1>1. /\ Len(inbox') = n + 1 /\ inbox'[n + 1] = msg
      /\ \A i \in 1..n : inbox'[i] = inbox[i]
  BY <1>0 DEF TypeInv
<1>2. \A i \in 0..n : VisitAt(i)' = VisitAt(i)
  BY <1>1 DEF VisitAt, VisitAfter
<1>3. VisitAt(n + 1)' = VisitAfter(msg)
  BY <1>1 DEF VisitAt, VisitAfter
<1>4. MessagesLead'
  BY <1>1, <1>3 DEF MessagesLead
<1>5. MessagesAlternate'
  <2> SUFFICES ASSUME NEW i \in 1..(n + 1)
               PROVE VisitAt(i - 1)' =
                 IF inbox'[i].action = "Initialize" THEN None
                 ELSE inbox'[i].visit_id
    BY <1>1 DEF MessagesAlternate
  <2>1. CASE i \in 1..n
    BY <2>1, <1>0, <1>1, <1>2 DEF VisitInv, MessagesAlternate
  <2>2. CASE i = n + 1
    BY <2>2, <1>0, <1>1, <1>2 DEF VisitInv, MessagesLead
  <2> QED
    BY <2>1, <2>2, <1>1
<1> QED
  BY <1>4, <1>5 DEF VisitInv, OpenIsCurrent

LEMMA InitVisit == Init => VisitInv
BY DEF Init, VisitInv, MessagesAlternate, MessagesLead, OpenIsCurrent,
       VisitAt, UnderWay

LEMMA VisitStep == TypeInv /\ VisitInv /\ [Next]_vars => VisitInv'
<1> SUFFICES ASSUME TypeInv, VisitInv, [Next]_vars
             PROVE VisitInv'
  OBVIOUS
<1>1. CASE Commands
  <2>1. CASE InitializeCommand
    <3>1. visit \in Nat /\ visit' = visit + 1 /\ ~UnderWay /\ UnderWay'
      BY <2>1 DEF InitializeCommand, UnderWay, TypeInv
    <3> DEFINE msg == [action |-> "Initialize", visit_id |-> visit + 1]
    <3>2. msg \in Messages /\ inbox' = Append(inbox, msg)
      BY <2>1, <3>1 DEF InitializeCommand, Tell, Messages
    <3> QED
      BY <3>1, <3>2, <2>1, Told DEF InitializeCommand, CommandRest, sent,
                                    VisitAfter
  <2>2. CASE GetCommand
    <3>1. visit \in Nat /\ visit' = visit /\ UnderWay /\ UnderWay'
      BY <2>2 DEF GetCommand, UnderWay, TypeInv
    <3> DEFINE msg == [action |-> "visit_id", visit_id |-> visit]
    <3>2. msg \in Messages /\ inbox' = Append(inbox, msg)
      BY <2>2, <3>1 DEF GetCommand, Tell, Messages
    <3> QED
      BY <3>1, <3>2, <2>2, Told DEF GetCommand, CommandRest, sent, VisitAfter
  <2>3. CASE RestartTab
    <3>1. UNCHANGED <<visit, inbox, visitID, open>> /\ UnderWay /\ UnderWay'
      BY <2>3 DEF RestartTab, CommandRest, sent, UnderWay
    <3> QED
      BY <3>1 DEF VisitInv, MessagesAlternate, MessagesLead, OpenIsCurrent,
                  VisitAt
  <2>4. CASE FinalizeCommand
    <3>1. visit \in Nat /\ visit' = visit /\ UnderWay /\ ~UnderWay'
      BY <2>4 DEF FinalizeCommand, UnderWay, TypeInv
    <3> DEFINE msg == [action |-> "Finalize", visit_id |-> visit]
    <3>2. msg \in Messages /\ inbox' = Append(inbox, msg)
      BY <2>4, <3>1 DEF FinalizeCommand, Tell, Messages
    <3> QED
      BY <3>1, <3>2, <2>4, Told DEF FinalizeCommand, CommandRest, sent,
                                    VisitAfter
  <2> QED
    BY <1>1, <2>1, <2>2, <2>3, <2>4 DEF Commands
<1>2. CASE Listen
  <2> DEFINE msg == Head(inbox)
  <2>0. PICK n \in Nat \ {0} : n = Len(inbox)
    BY <1>2 DEF Listen, TypeInv
  <2>1. /\ msg = inbox[1] /\ msg \in Messages
        /\ Len(inbox') = n - 1
        /\ \A i \in 1..(n - 1) : inbox'[i] = inbox[i + 1]
    BY <1>2, <2>0 DEF Listen, TypeInv
  <2>2. /\ visitID' = VisitAfter(msg)
        /\ open' = CASE msg.action = "Initialize" -> open \cup {msg.visit_id}
                     [] msg.action = "Finalize" -> open \ {msg.visit_id}
                     [] OTHER -> open
        /\ UNCHANGED <<visit, step>>
    BY <1>2 DEF Listen, commands
  <2>3. \A i \in 0..(n - 1) : VisitAt(i)' = VisitAt(i + 1)
    BY <2>1, <2>2 DEF VisitAt, VisitAfter
  <2>4. MessagesAlternate'
    <3> SUFFICES ASSUME NEW i \in 1..(n - 1)
                 PROVE VisitAt(i - 1)' =
                   IF inbox'[i].action = "Initialize" THEN None
                   ELSE inbox'[i].visit_id
      BY <2>1 DEF MessagesAlternate
    <3>1. i + 1 \in 1..Len(inbox) /\ i - 1 \in 0..(n - 1)
      BY <2>0
    <3>2. VisitAt(i - 1)' = VisitAt((i - 1) + 1) /\ (i - 1) + 1 = (i + 1) - 1
      BY <2>3, <3>1
    <3> QED
      BY <3>1, <3>2, <2>1 DEF VisitInv, MessagesAlternate
  <2>5. MessagesLead'
    <3>1. VisitAt(n - 1)' = VisitAt(n)
      BY <2>3
    <3> QED
      BY <3>1, <2>0, <2>1, <2>2 DEF VisitInv, MessagesLead, UnderWay
  <2>6. OpenIsCurrent'
    <3>1. /\ open = {visitID} \ {None} /\ msg.visit_id # None
          /\ visitID = IF msg.action = "Initialize" THEN None ELSE msg.visit_id
      BY <2>0, <2>1, NoneAssumption
         DEF VisitInv, OpenIsCurrent, MessagesAlternate, VisitAt, Messages
    <3>2. CASE msg.action = "Initialize"
      BY <3>1, <3>2, <2>2 DEF OpenIsCurrent, VisitAfter
    <3>3. CASE msg.action = "Finalize"
      BY <3>1, <3>3, <2>2 DEF OpenIsCurrent, VisitAfter
    <3>4. CASE msg.action = "visit_id"
      BY <3>1, <3>4, <2>2 DEF OpenIsCurrent, VisitAfter
    <3> QED
      BY <3>2, <3>3, <3>4, <2>1 DEF Messages
  <2> QED
    BY <2>4, <2>5, <2>6 DEF VisitInv
<1>3. CASE UNCHANGED <<visit, step, tab, inbox, visitID, open>>
  BY <1>3 DEF VisitInv, MessagesAlternate, MessagesLead, OpenIsCurrent,
              VisitAt, UnderWay
<1> QED
  BY <1>1, <1>2, <1>3, EventsLeaveVisits DEF Next, vars, commands, sent

----------------------------------------------------------------------------
(* The handlers.                                                           *)

LEMMA InitHandlers == Init => OldAreSettled /\ HashesHaveBodies
BY DEF Init, OldAreSettled, HashesHaveBodies, Tables

LEMMA HandlersStep ==
  TypeInv /\ OldAreSettled /\ HashesHaveBodies /\ [Next]_vars
    => OldAreSettled' /\ HashesHaveBodies'
<1> SUFFICES ASSUME TypeInv, OldAreSettled, HashesHaveBodies, [Next]_vars
             PROVE OldAreSettled' /\ HashesHaveBodies'
  OBVIOUS
<1> USE DEF Tables, UnderWay, NothingLeft
<1>1. CASE Commands
  <2>1. UNCHANGED <<asked, stage, task, body, hash>> /\ step' # "none"
    BY <1>1 DEF Commands, InitializeCommand, GetCommand, RestartTab,
                FinalizeCommand, CommandRest, events
  <2>2. HashesHaveBodies'
    BY <2>1 DEF HashesHaveBodies
  <2>0. \A r : NothingLeft(r)' <=> NothingLeft(r)
    BY <2>1
  <2> HIDE DEF NothingLeft
  <2>3. CASE InitializeCommand
    <3>1. step \in {"none", "Finalize"}
      BY <2>3 DEF InitializeCommand
    <3> QED
      BY <3>1, <2>1, <2>2, <2>0 DEF OldAreSettled, HashesHaveBodies
  <2>4. CASE GetCommand \/ RestartTab
    <3>1. UNCHANGED visit /\ UnderWay /\ UnderWay'
      BY <2>4 DEF GetCommand, RestartTab
    <3> QED
      BY <3>1, <2>1, <2>2, <2>0 DEF OldAreSettled
  <2>6. CASE FinalizeCommand
    <3>1. \A r \in Requests \ Background : NothingLeft(r)
      BY <2>6 DEF FinalizeCommand, Settled, NothingLeft
    <3> QED
      BY <3>1, <2>1, <2>2, <2>0 DEF OldAreSettled
  <2> QED
    BY <1>1, <2>2, <2>3, <2>4, <2>6 DEF Commands
<1>2. CASE Listen
  BY <1>2 DEF Listen, commands, events, OldAreSettled, HashesHaveBodies
<1>3. ASSUME NEW r \in Requests, SendRequest(r)
      PROVE OldAreSettled' /\ HashesHaveBodies'
  <2>1. /\ stage[r] = "none" /\ visit > 0 /\ (r \in Background \/ step = "Get")
        /\ UNCHANGED <<visit, step, body, hash>>
        /\ stage' = [stage EXCEPT ![r] = "sent"]
        /\ asked'[r].visit = visit
        /\ \A q \in Requests \ {r} :
             /\ asked'[q] = asked[q] /\ stage'[q] = stage[q]
             /\ \A t \in Tables : task'[t][q] = task[t][q]
    BY <1>3 DEF SendRequest, EventRest, commands, TypeInv
  <2>2. OldAreSettled'
    <3> SUFFICES ASSUME NEW q \in Requests \ Background,
                        stage'[q] # "none",
                        asked'[q].visit # visit' \/ ~UnderWay'
                 PROVE NothingLeft(q)'
      BY DEF OldAreSettled
    <3>1. q # r /\ stage[q] # "none" /\ (asked[q].visit # visit \/ ~UnderWay)
      BY <2>1
    <3>2. NothingLeft(q)
      BY <3>1 DEF OldAreSettled
    <3> QED
      BY <3>1, <3>2, <2>1
  <2>3. HashesHaveBodies'
    <3>1. stage'[r] = "sent" /\ step # "none"
      BY <2>1 DEF HashesHaveBodies, TypeInv
    <3> QED
      BY <3>1, <2>1 DEF HashesHaveBodies
  <2> QED
    BY <2>2, <2>3
<1>4. ASSUME NEW r \in Requests, OnData(r)
      PROVE OldAreSettled' /\ HashesHaveBodies'
  <2>1. /\ stage[r] = "sent" /\ body'[r] # <<>>
        /\ \A q \in Requests \ {r} : body'[q] = body[q]
        /\ UNCHANGED <<visit, step, asked, stage, task, hash>>
    <3>1. PICK chunk \in Chunks : body' = [body EXCEPT ![r] = Append(@, chunk)]
      BY <1>4 DEF OnData
    <3>2. body[r] \in Seq(Chunks) /\ body' = [body EXCEPT ![r] = body'[r]]
          /\ body'[r] = Append(body[r], chunk)
      BY <3>1 DEF TypeInv
    <3>3. Append(body[r], chunk) # <<>>
      BY <3>2
    <3>4. stage[r] = "sent" /\ UNCHANGED <<visit, step, asked, stage, task, hash>>
      BY <1>4 DEF OnData, EventRest, commands
    <3> QED
      BY <3>2, <3>3, <3>4 DEF TypeInv
  <2>2. OldAreSettled'
    BY <2>1 DEF OldAreSettled
  <2>3. HashesHaveBodies'
    BY <2>1 DEF HashesHaveBodies
  <2> QED
    BY <2>2, <2>3
<1>5. ASSUME NEW r \in Requests, OnStop(r)
      PROVE OldAreSettled' /\ HashesHaveBodies'
  BY <1>5 DEF OnStop, EventRest, commands, OldAreSettled, HashesHaveBodies
<1>6. ASSUME NEW r \in Requests, DigestReady(r)
      PROVE OldAreSettled' /\ HashesHaveBodies'
  BY <1>6 DEF DigestReady, EventRest, commands, TypeInv, OldAreSettled,
              HashesHaveBodies
<1>7. ASSUME NEW r \in Requests, Complete(r)
      PROVE OldAreSettled' /\ HashesHaveBodies'
  BY <1>7 DEF Complete, EventRest, commands, TypeInv, OldAreSettled,
              HashesHaveBodies
<1>8. ASSUME NEW r \in Requests, Fail(r)
      PROVE OldAreSettled' /\ HashesHaveBodies'
  BY <1>8 DEF Fail, EventRest, commands, TypeInv, OldAreSettled,
              HashesHaveBodies
<1>9. ASSUME NEW r \in Requests, NEW t \in Tables, TabLookedUp(t, r)
      PROVE OldAreSettled' /\ HashesHaveBodies'
  BY <1>9 DEF TabLookedUp, commands, events, TypeInv, OldAreSettled,
              HashesHaveBodies
<1>10. ASSUME NEW r \in Requests, ContentCame(r)
       PROVE OldAreSettled' /\ HashesHaveBodies'
  BY <1>10 DEF ContentCame, commands, events, TypeInv, OldAreSettled,
               HashesHaveBodies
<1>11. CASE UNCHANGED vars
  BY <1>11 DEF vars, commands, events, OldAreSettled, HashesHaveBodies
<1> QED
  BY <1>1, <1>2, <1>3, <1>4, <1>5, <1>6, <1>7, <1>8, <1>9, <1>10, <1>11
     DEF Next, Continue

LEMMA InvariantAlways == Spec => []StampInv
<1>1. Init => StampInv
  BY InitType, InitVisit, InitHandlers DEF StampInv
<1>2. StampInv /\ [Next]_vars => StampInv'
  BY TypeStep, VisitStep, HandlersStep DEF StampInv
<1> QED
  BY <1>1, <1>2, PTL DEF Spec

----------------------------------------------------------------------------
(* The records.                                                            *)

\* Whoever saves a record of the request r waits for its tab or has its hash.
LEMMA Savers ==
  ASSUME [Next]_vars, NEW rec \in records' \ records
  PROVE  \E r \in Requests :
           /\ rec.request = r
           /\ rec.visit_id = IF visitID = None THEN -1 ELSE visitID
           /\ \/ \E t \in Tables : task[t][r] = "tab"
              \/ task["http_responses"][r] = "content" /\ hash[r] # None
<1> DEFINE Saved(r) ==
             /\ rec.request = r
             /\ rec.visit_id = IF visitID = None THEN -1 ELSE visitID
             /\ \/ \E t \in Tables : task[t][r] = "tab"
                \/ task["http_responses"][r] = "content" /\ hash[r] # None
<1>1. ASSUME NEW r \in Requests, NEW t \in Tables, TabLookedUp(t, r)
      PROVE Saved(r)
  BY <1>1 DEF TabLookedUp, SaveRecord
<1>2. ASSUME NEW r \in Requests, ContentCame(r)
      PROVE Saved(r)
  BY <1>2 DEF ContentCame, SaveRecord
<1>3. Next
  BY DEF vars, sent
<1>4. CASE Commands \/ Listen
  BY <1>4 DEF Commands, InitializeCommand, GetCommand, RestartTab,
              FinalizeCommand, CommandRest, Listen, sent
<1>5. ASSUME NEW r \in Requests,
             \/ SendRequest(r) \/ OnData(r) \/ OnStop(r) \/ DigestReady(r)
             \/ Complete(r) \/ Fail(r)
      PROVE FALSE
  BY <1>5 DEF SendRequest, OnData, OnStop, DigestReady, Complete, Fail,
              EventRest, sent
<1> QED
  BY <1>1, <1>2, <1>3, <1>4, <1>5 DEF Next, Continue

LEMMA Stamped ==
  StampInv /\ [Next]_vars =>
    [\A rec \in records' \ records : InItsVisit(rec) /\ OwnVisit(rec)]_vars
<1> SUFFICES ASSUME StampInv, [Next]_vars, NEW rec \in records' \ records
             PROVE InItsVisit(rec) /\ OwnVisit(rec)
  OBVIOUS
<1>1. PICK r \in Requests :
        /\ rec.request = r
        /\ rec.visit_id = IF visitID = None THEN -1 ELSE visitID
        /\ \/ \E t \in Tables : task[t][r] = "tab"
           \/ task["http_responses"][r] = "content" /\ hash[r] # None
  BY Savers
<1>2. InItsVisit(rec)
  BY <1>1 DEF InItsVisit, StampInv, VisitInv, OpenIsCurrent
<1>3. ASSUME r \notin Background, inbox = <<>>
      PROVE rec.visit_id = asked[r].visit
  <2>1. ~NothingLeft(r) /\ stage[r] # "none"
    BY <1>1 DEF NothingLeft, StampInv, HashesHaveBodies, Tables
  <2>2. UnderWay /\ asked[r].visit = visit
    BY <2>1, <1>3 DEF StampInv, OldAreSettled
  <2>3. visitID = visit
    BY <2>2, <1>3 DEF StampInv, VisitInv, MessagesLead, VisitAt
  <2>4. visit # None
    BY NoneAssumption DEF StampInv, TypeInv
  <2> QED
    BY <1>1, <2>2, <2>3, <2>4
<1> QED
  BY <1>1, <1>2, <1>3 DEF OwnVisit

\* No record is attributed to a visit other than its own (loggingdb.ts stamps
\* what it is given with the visit that is current, browser_commands.py tells
\* it of the visits and waits before it ends one): a record is sent within the
\* visit whose id it has, and that is the visit its page was loaded for.
THEOREM AlwaysStampedRight == Spec => StampedRight
<1>1. StampInv /\ [Next]_vars =>
        [\A rec \in records' \ records : InItsVisit(rec) /\ OwnVisit(rec)]_vars
  BY Stamped
<1> QED
  BY <1>1, InvariantAlways, PTL DEF Spec, StampedRight
=============================================================================
