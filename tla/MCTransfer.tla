----------------------------- MODULE MCTransfer -----------------------------
(* Files of five pieces, the last one shorter, in trees of eight leaves; all  *)
(* pieces of one but the last are equal.  The seeder has what is wanted or not.*)
EXTENDS Transfer

MCFiles == {<<1, 2, 3, 4, 5, 6, 7, 8, 9>>, <<1, 2, 1, 2, 1, 2, 1, 2, 1>>}
=============================================================================
