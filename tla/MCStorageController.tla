------------------------ MODULE MCStorageController ------------------------
(***************************************************************************)
(* Instances of StorageController for TLC.  "tm" is the socket of a        *)
(* BrowserManagerHandle, "ext" the one of the browser's WebExtension,      *)
(* "cmd" one that a command opens in the browser process.  v1 is a visit,  *)
(* v2 the browser's next one.                                              *)
(***************************************************************************)
EXTENDS StorageController

CONSTANTS v1, v2

Rec(v)    == [type |-> "record",   visit |-> v, success |-> TRUE]
Alien(v)  == [type |-> "alien",    visit |-> v, success |-> TRUE]
Skip(v)   == [type |-> "skip",     visit |-> v, success |-> TRUE]
Fatal(v)  == [type |-> "fatal",    visit |-> v, success |-> TRUE]
Fin(v, s) == [type |-> "finalize", visit |-> v, success |-> s]

Streams(ext, tm, cmd) ==
  [c \in {"ext", "tm", "cmd"} |->
     CASE c = "ext" -> ext [] c = "tm" -> tm [] c = "cmd" -> cmd]

\* The extension finalizes: Initialize, records, Finalize, next visit.  The
\* manager writes site_visits and crawl_history, its last row being for the
\* FinalizeCommand itself.
Completed == Streams(<<Skip(v1), Rec(v1), Fin(v1, TRUE), Rec(v2)>>,
                     <<Rec(v1), Rec(v1), Rec(v2)>>, <<>>)

\* A command failed: the manager finalizes, the extension was killed.
Interrupted == Streams(<<Rec(v1)>>,
                       <<Rec(v1), Fin(v1, FALSE), Rec(v2), Fin(v2, FALSE)>>,
                       <<Rec(v1)>>)

\* The failure limit was exceeded: nobody finalizes.
Abandoned == Streams(<<Rec(v1)>>, <<Rec(v1), Rec(v1)>>, <<Rec(v1)>>)

\* The extension has finalized when the FinalizeCommand times out.
Twice == Streams(<<Rec(v1), Fin(v1, TRUE)>>,
                 <<Rec(v1), Rec(v1), Fin(v1, FALSE), Rec(v2)>>, <<Rec(v1)>>)

\* A custom command writes to a table that the provider does not have, or
\* still asks for the creation of one.
UnknownTable == Streams(<<Rec(v1), Fin(v1, TRUE)>>,
                        <<Rec(v1), Rec(v2), Fin(v2, FALSE)>>, <<Alien(v1)>>)
CreateTable  == Streams(<<Rec(v1), Fin(v1, TRUE)>>, <<Rec(v1)>>,
                        <<Rec(v1), Fatal(v1)>>)

Every == {Completed, Interrupted, Abandoned, Twice, UnknownTable, CreateTable}
============================================================================
