----------------------------- MODULE MCFrontend -----------------------------
(***************************************************************************)
(* Model values for checking the user interface: a window of three columns *)
(* in which a line of five characters scrolls, text boxes of three columns *)
(* and texts that are shorter, as long and longer.                         *)
(***************************************************************************)
EXTENDS Frontend

MCChars == {"a", "b"}
MCTexts == {<<"1">>, <<"2", "2", "2", "2">>}
MCTrue  == <<"t", "t">>
MCFalse == <<"f", "f", "f">>
=============================================================================
