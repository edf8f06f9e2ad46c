----------------------------- MODULE MCHttpHead -----------------------------
(* Heads with paths, field names and values of up to two symbols, two        *)
(* fields, and numbers of two digits, those beyond an int and beyond a long   *)
(* among them; every node is also offered symbols it does not link.  Values   *)
(* that are empty or start with a blank are set.  Texts of up to eight        *)
(* symbols for a url or an endpoint.                                          *)
EXTENDS Url

MCDigit == {"0", "1", "9"}
MCLetter == {"a", "A"}
MCHost == {<<"a">>, <<>>, <<" ", "a">>}
MCLength == {0, 10}

MCOffer ==
    [n \in Node |->
        {" ", "\r", "\n"} \cup
        CASE n = "root" -> Method \cup {"STATUS", "a"}
          [] n \in {"path", "status_code"} -> {"HTTP/", "a"}
          [] n = "method" -> {"a", "."}
          [] n = "path_info" -> {"."}
          [] n = "status" -> {"1", "9"}
          [] n = "status_code_info" -> {"0", "9"}
          [] n = "version_major_info" -> {"0", "."}
          [] n = "version_major" -> {"1"}
          [] n = "version_minor_info" -> {"0"}
          [] n = "sn" -> {"a", "A", ":", "Content-Length"}
          [] n = "key_info" -> {"a", ":"}
          [] n \in {"kv_split", "kv_space2"} -> {":"}
          [] n = "value_info" -> {"1"}
          [] n = "kv_space1" -> {":"}
          [] OTHER -> {}]

MCUrlTail == {"a", "0", "1", ":", "/", "?", "://"}

MCUrlOffer ==
    <<{"http", "HTTP", "tcp", "a"}, {"://", ":", "a"}, {"a", "?", "/"}>>
    \o [n \in 1..5 |-> MCUrlTail]
=============================================================================
