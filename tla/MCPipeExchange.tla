--------------------------- MODULE MCPipeExchange ---------------------------
(* An instance of PipeExchange for TLC. *)
EXTENDS PipeExchange, TLC

MCNames == {<<"f">>, <<"g">>}
MCContents == {<<>>, <<"a">>, <<"b">>, <<"b", ":", "a">>}
\* At most two files, the second with a simple text.
MCDirectories ==
    {<<>>} \cup {<<"f">> :> t : t \in MCContents}
      \cup {(<<"f">> :> t) @@ (<<"g">> :> <<"b">>) : t \in MCContents}
\* A NUL, another character, a digit.
MCJunk == {<<>>, <<"x">>, <<"1">>}
=============================================================================
