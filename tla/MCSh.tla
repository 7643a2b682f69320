-------------------------------- MODULE MCSh --------------------------------
(* Sh for TLC: all lines of at most four characters, and some longer ones.  *)
EXTENDS Sh

Chars == {"a", " ", "|", "&", ";", "(", ")", "<", ">"}

Long == {<<"a", "|", "a", "|", "a">>, <<"a", "|", "a", "&", "&">>,
         <<"(", "a", ";", "a", ")", "|", "a">>, <<"a", "|", "(", "a", "&", ")", ";", "a">>,
         <<"a", ">", ">", "a", "|", "a">>, <<"(", "a", ")", "<", "a", "|", "a">>,
         <<"a", "a", " ", "a", " ", "a", "a">>, <<"cd ", "a">>}

MCLines == SeqOf(Chars, 4) \cup Long
=============================================================================
