------------------------------ MODULE MCProxy ------------------------------
EXTENDS Proxy
(* Hosts of one to three letters against lists of no, one or two patterns, *)
(* two of them empty components; replies of HTTP that fit in the buffer    *)
(* and that do not, with a line end and a half on the way.                 *)
MCHosts == {<<"l">>, <<"a">>, <<"a", "b">>, <<"b", "a", "b">>, <<"a", "b", "a">>,
            <<"7", ".", "a", ".", "b">>, <<":", "1">>}
MCPatterns ==
    {<<>>, <<"a">>, <<Star>>, <<"a", Star>>, <<Star, "b">>, <<"a", Star, "a">>,
     <<Star, "a", Star>>, <<"a", Star, Star, "b">>, <<"b", Star, "a", Star, "b">>,
     <<Star, "b", Star, "b">>}
MCNames == {<<h, <<>>>> : h \in MCHosts}
           \cup {<<h, <<p>>>> : h \in MCHosts, p \in MCPatterns}
           \cup {<<h, <<p, <<>>>>>> : h \in MCHosts, p \in {<<"a">>, <<Star, "b">>}}
MCTypes == {"none", "telnet", "http", "socks4", "socks5"}
MCConfs ==
    Configuration(MCTypes, {<<<<"a">>, <<>>>>},
                  {<<>>, <<4>>, <<6>>, <<6, 4>>, <<4, 6>>, <<6, 6>>})
    \cup Configuration({"none", "http"}, MCNames, {<<4>>})
MCHttpReplies ==
    {<<"v", " ", "2", "\r", "\n", "\r", "\n">>,
     <<"v", " ", "2", "h", "\r", "\n", "h", "\r", "\r", "\n", "\r", "\n">>}
=============================================================================
