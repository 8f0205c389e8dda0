-------------------------- MODULE FinalizePromise --------------------------
(***************************************************************************)
(* What a storage controller promises about each Finalize message, without *)
(* sockets, tasks, locks, batches or a shutdown sequence.  A message that  *)
(* is accepted waits, becomes durable together with everything owed to it, *)
(* and only then is reported.  A message about a visit without tasks is    *)
(* dismissed, and reported without any promise.  A message can be lost,    *)
(* with its connection or with the process, but what happened to it is     *)
(* never taken back, and nothing leaves persistent storage.                *)
(***************************************************************************)
VARIABLES
  stage,   \* the stage of each Finalize message
  owed,    \* what must be in storage when it is reported, a fixed function
  saved    \* what is in persistent storage

vars == <<stage, owed, saved>>

Stages == {"unread", "waiting", "durable", "dismissed", "reported", "lost"}

\* The stages a message may go to from each stage.
After ==
  [s \in Stages |->
     CASE s = "unread"    -> {"waiting", "durable", "dismissed", "lost"}
       [] s = "waiting"   -> {"durable", "lost"}
       [] s = "durable"   -> {"reported"}
       [] s = "dismissed" -> {"reported"}
       [] s = "reported"  -> {}
       [] s = "lost"      -> {}]

Init ==
  /\ stage = [b \in DOMAIN owed |-> "unread"]
  /\ saved = {}

Step ==
  /\ saved \subseteq saved'
  /\ UNCHANGED owed
  /\ DOMAIN stage' = DOMAIN stage
  /\ \A b \in DOMAIN stage :
       /\ stage'[b] = stage[b] \/ stage'[b] \in After[stage[b]]
       /\ stage'[b] = "durable" => owed[b] \subseteq saved'

Spec == Init /\ [][Step]_vars
============================================================================
