---------------------------- MODULE MCFileSystem ----------------------------
(***************************************************************************)
(* Names of which an entry holds two bytes, texts of which a block holds   *)
(* two: one of each is too long, and two names agree in what is held.      *)
(***************************************************************************)
EXTENDS FileSystem

MCNames == {<<>>, <<"a", "b">>, <<"a", "b", "a">>}
MCTexts == {<<"b">>, <<"a", "a", "b">>}
MCDisks == {<<<<"a", "b">>, <<"b">>>>}
=============================================================================
