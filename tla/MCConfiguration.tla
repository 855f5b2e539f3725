--------------------------- MODULE MCConfiguration --------------------------
(***************************************************************************)
(* Instances for TLC.                                                      *)
(***************************************************************************)
EXTENDS Configuration, TLC

CONSTANTS k1, k2, v1, v2

MCWords == {"include", "needed", "verbose", "level", "quiet", "loud", "v", "V", "I", "1", "true"}
MCKeys == {<<k>> : k \in {"include", "needed", "v", "level", "quiet"}}
MCValues == {<<"1">>, <<"x">>, <<"true">>}
MCPlain == {<<"1">>, <<"x">>}
MCOptionLists ==
    {<<Option(<<"*", ":", "include", ",", "I", "=", "string">>),
       Option(<<"!", ":", "needed", "=", "bool">>)>>,
     <<Option(<<"v", ":", "verbose", ",", "V", "?", "int", ",", "1">>),
       Option(<<":", "level", "=", "int", ",", "1">>)>>,
     <<Option(<<":", "quiet">>),
       Option(<<"*", "quiet", ":", "loud", ",", "I", "?", "string", ",", "x">>)>>}

MCFileKeys == {k1, k2}
MCFileValues == {v1, v2}
MCEnvironments == {<<"A">> :> <<"$", "B">> @@ <<"A", "B">> :> <<".", "B">> @@ <<"B">> :> <<>>}
MCEntries == {".", "d1", "d2", "base", "id", "more", "file", "sub"}
MCFiles == {<<"file">>, <<"sub", "file">>}
MCSystems == {<<"base", "id">>, <<"base", "id", "more">>}
=============================================================================
