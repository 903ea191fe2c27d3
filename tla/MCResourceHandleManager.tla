----------------------- MODULE MCResourceHandleManager -----------------------
(* Small instances of ResourceHandleManager for TLC.                         *)
EXTENDS ResourceHandleManager, TLC

CONSTANTS n1, n2, n3, u1, b1

NetJobs == {n1, n2, n3}

NetSymmetry == Permutations({n1, n2})

\* Two questions in one state space: two transfers contend for a slot, or one and
\* a refused URL are deferred.  Once the second transfer is created the refused
\* URL is not, nor is the first transfer deferred, and the other way round: this
\* holds back what owners need not do, and nothing a fairness condition is about.
OneQuestion == d[n2] # NoHandle => d[b1] = NoHandle /\ ~d[n1].defers

=============================================================================
