------------------------ MODULE MCCommandExecution ------------------------
(* Small crawls for the model checker. *)
EXTENDS CommandExecution

J(blocking, reset, callback) ==
  [blocking |-> blocking, reset |-> reset, callback |-> callback]

\* Two sequences for one browser that nobody joins: the first has a callback
\* and keeps the browser's state, the second resets it.
PlainThenReset == {<<J(FALSE, FALSE, TRUE), J(FALSE, TRUE, FALSE)>>}

\* Three sequences for two browsers: the second is joined and has a callback.
\* Three is the least that FailureStopsCrawl needs to be able to fail.
JoinedInTheMiddle == {<<J(FALSE, FALSE, FALSE), J(TRUE, FALSE, TRUE),
                        J(FALSE, FALSE, FALSE)>>}

BothModes == BOOLEAN
RelaxedOnly == {TRUE}
=============================================================================
