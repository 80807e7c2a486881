---------------------------- MODULE MCPoolV4Relay ----------------------------
(***************************************************************************)
(* Instances of PoolV4Relay for TLC.  c1 spends n1 and n2, c2 spends n2:    *)
(* two calls that compete for one input.  b1 and b2 carry c1 (one payload   *)
(* sealed twice), b3 carries c2.                                            *)
(***************************************************************************)
EXTENDS PoolV4Relay, TLC

CONSTANTS b1, b2, b3, c1, c2, n1, n2, t1, t2, p1, p2

MCBundles   == {b1, b3}
MCCallOf    == (b1 :> c1) @@ (b3 :> c2)
MCInputsOf  == (c1 :> {n1, n2}) @@ (c2 :> {n2})

\* one call, sealed twice
MCTwins     == {b1, b2}
MCCallOfTwins == (b1 :> c1) @@ (b2 :> c1)
MCOneCall   == (c1 :> {n1})

MCOneProc   == (t1 :> p1) @@ (t2 :> p1)
MCOneThread == (t1 :> p1)
MCTwoProcs  == (t1 :> p1) @@ (t2 :> p2)

\* Threads of one process are interchangeable; with a thread each, so are processes.
Symmetry     == Permutations(Hashes) \cup Permutations(Threads)
ProcSymmetry == Permutations(Hashes)
                  \cup {(t1 :> t2) @@ (t2 :> t1) @@ (p1 :> p2) @@ (p2 :> p1)}
=============================================================================
