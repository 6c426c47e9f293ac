--------------------------- MODULE MCPersonaStream ---------------------------
(* PersonaStream with a claim of one word, "ab", and a claim of two, "b a". *)
EXTENDS PersonaStream

FewCharacters == {"a", "b", "may", " ", "\n", "."}

ShortChunks ==
    {<<>>, <<"a">>, <<"b">>, <<"may">>, <<" ">>, <<"\n">>, <<"b", ".">>}

WordAndPhrase == {<<"a", "b">>, <<"b", " ", "a">>}
=============================================================================
