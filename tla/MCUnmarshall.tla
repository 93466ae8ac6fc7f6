---------------------------- MODULE MCUnmarshall ----------------------------
EXTENDS Unmarshall

OneTarget == <<"t">>
Data == {<< >>, <<"a", "newline", "1">>}
Binary == <<<<"0">>, <<"1">>, <<"1", "0">>, <<"1", "1">>>>
=============================================================================
