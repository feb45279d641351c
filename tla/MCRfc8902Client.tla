-------------------------- MODULE MCRfc8902Client --------------------------
(***************************************************************************)
(* An instance of Rfc8902Client: peers that fail each check of             *)
(* ssl_print_1609_status and one that passes, wanted and held SSPs up to   *)
(* and longer than the array, with and without a bit past its end, and     *)
(* replies with CRLF and LF line ends, an empty body, a body that starts   *)
(* with an empty line, a header that does not end and one that does not    *)
(* parse.                                                                  *)
(***************************************************************************)
EXTENDS Rfc8902Client

t == "text"
MCOptions == {[psid |-> 36, ssp |-> <<>>]} \cup [psid : {37}, ssp : {<<{0}, {1}>>, <<{0}, {1}, {1}>>}]
MCPeers ==
    {[psid |-> 0, ssp |-> <<>>], [psid |-> 36, ssp |-> <<>>]}
        \cup [psid : {37}, ssp : {<<>>, <<{0}>>, <<{1}, {1}>>, <<{0}, {2}>>, <<{0}, {1, 2}>>,
                                  <<{0}, {2}, {}>>, <<{0}, {2}, {2}>>}]
MCReplies ==
    {[bytes |-> <<t, "LF", "LF", t>>, status |-> 200],
     [bytes |-> <<t, "CR", "LF", t, "LF", "CR", "LF", t, t>>, status |-> 500],
     [bytes |-> <<t, "LF", "CR", "LF">>, status |-> 200],
     [bytes |-> <<t, "LF", "LF", "LF", t>>, status |-> 200],
     [bytes |-> <<t, "LF", t>>, status |-> 200],
     [bytes |-> <<t, "LF", "LF", t>>, status |-> -1]}
=============================================================================
