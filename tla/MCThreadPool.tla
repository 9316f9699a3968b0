---------------------------- MODULE MCThreadPool ----------------------------
(* Three workers share four jobs: enough for a worker to hold the mutex    *)
(* while one waits and one has died, and for jobs to be queued behind a    *)
(* job that panics.                                                        *)
EXTENDS ThreadPool

CONSTANTS w1, w2, w3, j1, j2, j3, j4

MCWorkers == {w1, w2, w3}
MCJobs == {j1, j2, j3, j4}
=============================================================================
