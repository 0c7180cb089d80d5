--------------------------- MODULE MCStreamServers ---------------------------
(***************************************************************************)
(* Small instances of StreamServers: files of a block and a half, without  *)
(* and with a NUL in the middle, and a file of one block.                  *)
(***************************************************************************)
EXTENDS StreamServers

MCContents == {<<"a", "b", "c">>, <<"a", "NUL", "b">>}
MCBlock == {<<"a", "b">>}

\* No connection is named anywhere.
ConnSymmetry == Permutations(Conns)
=============================================================================
