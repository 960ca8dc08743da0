------------------------------ MODULE MCFetcher ------------------------------
(***************************************************************************)
(* Two calls at a time, on a pool and a tick array.                        *)
(***************************************************************************)
EXTENDS AccountFetcher, TLC

CONSTANTS pool, array, c1, c2

VARIABLES begun       \* how many calls were made

MCAddress == {pool, array}
\* One list asks for the pool twice, in two chunks.
MCWanted  == {<<pool>>, <<pool, array, pool>>}

CONSTANTS MaxBegun,   \* bound: calls
          MaxWrites   \* bound: versions of all accounts together

MCInit == Init /\ begun = 0

Begins == \E c \in Calls : ~Waiting(c) /\ call'[c] # call[c]

MCNext ==
  /\ Next
  /\ begun' = IF Begins THEN begun + 1 ELSE begun
  /\ begun' <= MaxBegun
  /\ chain'[pool].version + chain'[array].version <= MaxWrites

MCSpec == MCInit /\ [][MCNext]_<<vars, begun>>

Symmetry == Permutations({c1, c2})
=============================================================================
