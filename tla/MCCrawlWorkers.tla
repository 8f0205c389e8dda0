-------------------------- MODULE MCCrawlWorkers --------------------------
(* Small queues for the model checker. *)
EXTENDS CrawlWorkers, TLC

CONSTANTS j1, j2, w1, w2

OneJob == <<j1>>
TwoJobs == <<j1, j2>>
=============================================================================
