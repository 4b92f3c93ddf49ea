------------------------------ MODULE MCScript ------------------------------
EXTENDS Script
TheDelims == {<<"d">>, <<"d", "e">>}
=============================================================================
