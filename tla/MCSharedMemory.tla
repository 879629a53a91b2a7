--------------------------- MODULE MCSharedMemory ----------------------------
(***************************************************************************)
(* Three chains that send a key to each other in a circle, each block      *)
(* touching both others; chain 3 has an atomic backend.  Its block 1 puts  *)
(* to both, block 2 is a bonus block that repeats block 1, and block 3     *)
(* imports.                                                                *)
(***************************************************************************)
EXTENDS SharedMemory

Requests(removes, puts) == [removes |-> removes, puts |-> puts]
Import == Requests(<<"k">>, <<>>)
Export == Requests(<<>>, <<"k">>)

MCBlocks == <<
  <<(2 :> Export) @@ (3 :> Import)>>,
  <<(3 :> Export) @@ (1 :> Import), (3 :> Import)>>,
  <<(1 :> Export) @@ (2 :> Export), (1 :> Export) @@ (2 :> Export), (2 :> Import)>> >>

MCLookups == {<<3, 2>>}

MCTraits == [k \in Key |-> {"owner"}]

\* Not the order of the peers for chain 2, nor for chain 3.
MCHash == (<<1, 2>> :> 2) @@ (<<1, 3>> :> 3) @@ (<<2, 3>> :> 1)

=============================================================================
