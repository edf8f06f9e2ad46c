--------------------------------- MODULE Url ---------------------------------
(* http::url (http/src/url.cpp): the parser of an address text, the setters   *)
(* and the inverse to_string; and endpoint (network/abstract.cpp), which      *)
(* reads the same kind of text by a regular expression of its own.            *)
(*                                                                            *)
(* A symbol is one character, except that the name of a protocol, an ip       *)
(* address or a host ("a") and "://" are one symbol each.  The expressions    *)
(* are modelled by what they match first: each part takes as much as it can,  *)
(* and gives back only what the rest needs to match the text to its end.      *)
EXTENDS HttpHead

CONSTANTS
    UrlOffer,   \* UrlOffer[n]: the symbols a text may have in place n; its
                \* length bounds that of a text
    PortMod     \* bound: ports are unsigned shorts; 2^16 in the code

ASSUME UrlAssumption ==
    /\ \A n \in DOMAIN UrlOffer :
          UrlOffer[n] \subseteq {"http", "HTTP", "tcp", "a", "0", "1", ":", "/", "?", "://"}
    /\ PortMod \in 1..100 /\ IntMod % PortMod = 0

VARIABLES
    text,       \* the text assigned last, growing; empty once a setter was called
    url,        \* the url object
    object      \* which class is explored: head or url; they share nothing

uvars == <<text, url>>
allvars == <<hvars, uvars, object>>

-----------------------------------------------------------------------------
(* Parts of a text. *)

Digits == Range(Numeral)

(* \w *)
Word == {"http", "HTTP", "tcp", "a"} \cup Digits

(* [^:/] *)
HostSymbol == Word \cup {"?"}

(* [^\?] *)
PathSymbol == Word \cup {":", "/", "://"}

(* The length of the longest prefix of s made of symbols of class. *)
Span(s, class) == Max({n \in 0..Len(s) : \A i \in 1..n : s[i] \in class})

Behind(s, n) == SubSeq(s, n + 1, Len(s))

StartsWith(s, c) == s # <<>> /\ s[1] = c

(* (:\d+)? at the start of s: its length, or -1 when s cannot go on. *)
PortLength(s) ==
    IF ~StartsWith(s, ":") THEN 0
    ELSE IF Span(Tail(s), Digits) = 0 THEN -1 ELSE 1 + Span(Tail(s), Digits)

(* atoi, cut to an unsigned short. *)
Port(s) == atoi(s) % PortMod

-----------------------------------------------------------------------------
(* http::url *)

EmptyUrl == [protocol_ |-> "unkown", domain_ |-> <<>>, port_ |-> 0,
             path_ |-> <<>>, data_ |-> <<>>, error_ |-> FALSE]

(* set_protocol_s; the text was put in lower case. *)
ProtocolOf(s) ==
    CASE s \in {<<"http">>, <<"HTTP">>} -> "http" [] s = <<"tcp">> -> "tcp" [] OTHER -> "unkown"

\* What follows the domain: (:\d+)?(/[^\?]*)?(\?.*)?$
UrlRest(s) ==
    LET p == PortLength(s)
        t == Behind(s, p)
        q == IF StartsWith(t, "/") THEN Span(t, PathSymbol) ELSE 0
        r == Behind(t, q)
    IN  IF p < 0 THEN [match |-> FALSE]
        ELSE [match |-> r = <<>> \/ StartsWith(r, "?"), port |-> SubSeq(s, 2, p),
              path |-> SubSeq(t, 1, q), query |-> r]

IsHttp(p) == p = "http"

(* url::parse past the expression; http and https alike. *)
UrlFields(protocol, domain, rest) ==
    [protocol_ |-> protocol, domain_ |-> domain, port_ |-> Port(rest.port),
     path_ |-> IF ~IsHttp(protocol) THEN rest.path \o rest.query
               ELSE IF rest.path = <<>> THEN <<"/">> ELSE rest.path,
     data_ |-> IF IsHttp(protocol) THEN Behind(rest.query, 1) ELSE <<>>,
     error_ |-> FALSE]

(* url::parse.  The domain may hold a "?", and does whenever that matches.    *)
UrlParse(s) ==
    LET k == Span(s, Word)
        t == Behind(s, k + 1)
        domains == {d \in 1..Span(t, HostSymbol) : UrlRest(Behind(t, d)).match}
        protocol == ProtocolOf(SubSeq(s, 1, k))
    IN  IF k > 0 /\ StartsWith(Behind(s, k), "://") /\ domains # {} /\ protocol # "unkown"
        THEN UrlFields(protocol, SubSeq(t, 1, Max(domains)), UrlRest(Behind(t, Max(domains))))
        ELSE [EmptyUrl EXCEPT !.error_ = TRUE]

UrlOk(u) == ~u.error_ /\ u.protocol_ # "unkown"

(* Mutant: a path is left out whether or not data follow it. *)
UrlToStringDropsPath(u) ==
    <<u.protocol_, "://">> \o u.domain_
    \o (IF u.port_ # 0 THEN <<":">> \o Decimal(u.port_) ELSE <<>>)
    \o (IF u.path_ = <<"/">> THEN <<>> ELSE u.path_)
    \o (IF u.data_ = <<>> THEN <<>> ELSE <<"?">> \o u.data_)

(* url::to_string of a url that is ok. *)
UrlToString(u) ==
    <<u.protocol_, "://">> \o u.domain_
    \o (IF u.port_ # 0 THEN <<":">> \o Decimal(u.port_) ELSE <<>>)
    \o (IF u.path_ = <<"/">> /\ u.data_ = <<>> THEN <<>> ELSE u.path_)
    \o (IF u.data_ = <<>> THEN <<>> ELSE <<"?">> \o u.data_)

-----------------------------------------------------------------------------
(* endpoint *)

\* What follows the protocol: ([^:/]+)(:(\d+))?(/.*)?
EndpointRest(s) ==
    LET d == Span(s, HostSymbol)
        t == Behind(s, d)
        p == PortLength(t)
    IN  IF d = 0 \/ p < 0 THEN [match |-> FALSE]
        ELSE [match |-> p = Len(t) \/ StartsWith(Behind(t, p), "/"), host |-> SubSeq(s, 1, d),
              port |-> SubSeq(t, 2, p), path |-> Behind(t, p)]

(* str2proto; the case matters here. *)
str2proto(s) ==
    CASE s = <<"http">> -> "http" [] s = <<"tcp">> -> "tcp" [] OTHER -> "unkown"

(* Mutant: the first "://" ends the protocol, and no other is tried. *)
SplitsFirst(s) ==
    LET ks == {k \in 1..Len(s) : s[k] = "://"}
    IN  {k \in {Min(ks \cup {Len(s) + 1}) % (Len(s) + 1)} : EndpointRest(Behind(s, k)).match}

\* ((.*)://)? : the places at which it may end, 0 when it matches nothing.
Splits(s) ==
    {k \in 0..Len(s) : (k = 0 \/ s[k] = "://") /\ EndpointRest(Behind(s, k)).match}

(* endpoint::from_string; the one host that is an address is "a". *)
from_string(s) ==
    IF Splits(s) = {} THEN [ec |-> TRUE]
    ELSE LET k == Max(Splits(s))
             rest == EndpointRest(Behind(s, k))
         IN  IF rest.host # <<"a">> THEN [ec |-> TRUE]
             ELSE [ec |-> FALSE, proto_ |-> str2proto(SubSeq(s, 1, k - 1)), address |-> rest.host,
                   port |-> Port(rest.port), path_ |-> rest.path]

EndpointToString(e) ==
    (IF e.proto_ = "unkown" THEN <<>> ELSE <<e.proto_, "://">>)
    \o e.address \o <<":">> \o Decimal(e.port) \o e.path_

-----------------------------------------------------------------------------
(* The life of one url. *)

UInit ==
    /\ HInit
    /\ text = <<>>
    /\ url = EmptyUrl
    /\ object \in {"head", "url"}

(* operator= with a text one symbol longer than the last.  ":", "/", "/" is   *)
(* only spelled by "://".                                                     *)
AssignText(c) ==
    /\ Len(text) < Len(UrlOffer) /\ c \in UrlOffer[Len(text) + 1]
    /\ ~(c = "/" /\ Len(text) > 1 /\ text[Len(text)] = "/" /\ text[Len(text) - 1] = ":")
    /\ text' = Append(text, c)
    /\ url' = UrlParse(text')

(* clear() *)
ClearUrl == text' = <<>> /\ url' = EmptyUrl

(* The setters assign one field and look at nothing. *)
SetUrl(u) == text' = <<>> /\ url' = u

set_protocol(p) == SetUrl([url EXCEPT !.protocol_ = p])
set_domain(s) == SetUrl([url EXCEPT !.domain_ = s])
set_port(n) == SetUrl([url EXCEPT !.port_ = n])
set_path(s) == SetUrl([url EXCEPT !.path_ = s])
set_data(s) == SetUrl([url EXCEPT !.data_ = s])

UrlNext ==
    \/ \E c \in PathSymbol \cup {"?"} : AssignText(c)
    \/ ClearUrl
    \/ \E p \in {"http", "tcp", "unkown"} : set_protocol(p)
    \/ set_domain(<<"a">>)
    \/ \E n \in {0, 1} : set_port(n)
    \/ \E s \in {<<"/">>, <<"/", "a">>} : set_path(s)
    \/ \E s \in {<<>>, <<":", "/">>} : set_data(s)

UNext ==
    /\ \/ object = "head" /\ HNext /\ UNCHANGED uvars
       \/ object = "url" /\ UrlNext /\ UNCHANGED hvars
    /\ UNCHANGED object

USpec == UInit /\ [][UNext]_allvars

-----------------------------------------------------------------------------
(* Properties. *)

(* A url whose protocol is not http that to_string writes as another: a path  *)
(* "/" is left out ("tcp://a/"), and of a query without a path and without a  *)
(* port before it the domain takes what it can ("tcp://a:0?x").               *)
Misread(u) ==
    /\ ~IsHttp(u.protocol_)
    /\ \/ u.path_ = <<"/">>
       \/ u.port_ = 0 /\ \E d \in 1..Span(u.path_, HostSymbol) : UrlRest(Behind(u.path_, d)).match

(* The urls that can be written.  An http url needs a domain, and a path that *)
(* has no query in it; in the others the query is part of the path.           *)
Writable(u) ==
    /\ UrlOk(u) /\ u.domain_ # <<>> /\ ~Misread(u)
    /\ IF IsHttp(u.protocol_) THEN StartsWith(u.path_, "/") /\ "?" \notin Range(u.path_)
                              ELSE u.data_ = <<>>

(* Whatever text a url was read from, with a "?" or a ":" in any place and a  *)
(* port that is zero or does not fit, and whatever was set since, to_string   *)
(* writes a text that is read as the same url exactly when the url is         *)
(* Writable; and the urls that were read are, all but the two kinds of        *)
(* Misread, which no http url is.                                             *)
UrlRoundTrip ==
    UrlOk(url) =>
        /\ UrlParse(UrlToString(url)) = url <=> Writable(url)
        /\ text # <<>> => (Writable(url) <=> ~Misread(url))

(* An endpoint that from_string reads, from a text with "://" in any place,   *)
(* is written by to_string as a text from_string reads as the same endpoint.  *)
EndpointRoundTrip ==
    LET e == from_string(text)
    IN  ~e.ec => from_string(EndpointToString(e)) = e

\* What endpoint::from_string reads, and what url::parse reads but for the two
\* exceptions above, to_string writes as a text that they read as the same.
AddressRoundTrip == UrlRoundTrip /\ EndpointRoundTrip
=============================================================================
