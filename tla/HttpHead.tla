------------------------------ MODULE HttpHead ------------------------------
(* http_head: the streaming parser of a request or response head and the      *)
(* inverse conversion to_string.  The parser is a graph of nodes built once   *)
(* by __init_parse_root; consume(char) follows one link, saves the character  *)
(* in one of two buffers when the link says so, and on reaching a node with a *)
(* result moves the buffers into the head and empties them.  An object is     *)
(* reused: clear() resets it between two heads, in whatever state it is.      *)
(*                                                                            *)
(* A symbol is one character, except that the words the graph spells letter   *)
(* by letter (a method, STATUS, HTTP/) and the field name Content-Length are  *)
(* one symbol each.  A prefix of a word is a node of its own in the code;     *)
(* a wrong letter in it leads to the error node like any other wrong symbol.  *)
EXTENDS Integers, Sequences, SequencesExt

CONSTANTS
    Digit,      \* the digits that occur, "1" (the default version) among them
    Letter,     \* other printable characters: members of {"a", "A"}
    Offer,      \* Offer[n]: the symbols fed at node n
    MaxBuf,     \* bound: length of a path, a key, a value or a number
    MaxFields,  \* bound: fields of one head
    IntMod,     \* bound: the number of values of an int, 2^32 in the code
    LongMax,    \* bound: the greatest long, 2^63 - 1 in the code
    Host,       \* the texts given to set_host
    Length      \* the numbers below 100 given to set_content_length

ASSUME HttpHeadAssumption ==
    /\ IntMod \in 2..200 /\ IntMod % 2 = 0
    /\ LongMax \in Nat /\ (LongMax + 1) % IntMod = 0

VARIABLES
    http,       \* the object under use
    fresh       \* an object constructed at the last clear() and fed the same

hvars == <<http, fresh>>

-----------------------------------------------------------------------------
(* Symbols. *)

(* The spellings of the methods the graph knows, two of them enough to tell   *)
(* one from another, one also in lower case.                                  *)
Method == {"GET", "get", "POST"}

ContentLength == <<"Content-Length">>

Blank == {" "}

(* The characters 33..126. *)
Graphic == Digit \cup Letter \cup {".", ":", "Content-Length"}

Upper(c) == CASE c = "a" -> "A" [] c = "get" -> "GET" [] OTHER -> c

Numeral == <<"0", "1", "2", "3", "4", "5", "6", "7", "8", "9">>

DigitValue(c) == CHOOSE d \in 0..9 : Numeral[d + 1] = c

(* The place of an upper-case character in the character set. *)
Code(c) == CASE c \in Digit -> 48 + DigitValue(c)
             [] c = "." -> 46 [] c = ":" -> 58 [] c = "A" -> 65 [] OTHER -> 67

Size(s) == FoldLeft(LAMBDA n, c : n + (IF c = "Content-Length" THEN 14 ELSE 1), 0, s)

(* n cut to an int. *)
ToInt(n) == ((n + (IntMod \div 2)) % IntMod) - (IntMod \div 2)

(* atoi of digits: strtol, which stops at the greatest long, cut to an int.   *)
atoi(s) ==
    LET n == FoldLeft(LAMBDA m, c : 10 * m + DigitValue(c), 0, s)
    IN  ToInt(IF n > LongMax THEN LongMax ELSE n)

(* std::to_string of a number between -99 and 99. *)
Decimal(n) ==
    LET m == IF n < 0 THEN -n ELSE n
    IN  (IF n < 0 THEN <<"-">> ELSE <<>>)
        \o (IF m < 10 THEN <<>> ELSE <<Numeral[(m \div 10) + 1]>>) \o <<Numeral[(m % 10) + 1]>>

-----------------------------------------------------------------------------
(* The graph of __init_parse_root: from, symbols, to, buffer saved into       *)
(* (0 none, 1 parse_buf_, 2 parse_buf2_).  Whatever is not linked leads to    *)
(* err, which leads to itself.                                                *)

Edges ==
    { <<"root", Method, "method_end", 1>>,
      <<"root", {"STATUS"}, "status_end", 0>>,
      <<"method_end", Blank, "method", 0>>,
      <<"method", Blank, "method", 0>>,
      <<"method", Graphic, "path_info", 1>>,
      <<"path_info", Graphic, "path_info", 1>>,
      <<"path_info", Blank, "path", 0>>,
      <<"path", Blank, "path", 0>>,
      <<"path", {"HTTP/"}, "version_major_info", 0>>,
      <<"status_end", Blank, "status", 0>>,
      <<"status", Blank, "status", 0>>,
      <<"status", Digit, "status_code_info", 1>>,
      <<"status_code_info", Digit, "status_code_info", 1>>,
      <<"status_code_info", Blank, "status_code", 0>>,
      <<"status_code", Blank, "status_code", 0>>,
      <<"status_code", {"HTTP/"}, "version_major_info", 0>>,
      <<"version_major_info", Digit, "version_major_info", 1>>,
      <<"version_major_info", {"."}, "version_major", 0>>,
      <<"version_major", Digit, "version_minor_info", 1>>,
      <<"version_minor_info", Digit, "version_minor_info", 1>>,
      <<"version_minor_info", {"\r"}, "version_minor", 0>>,
      <<"version_minor", {"\n"}, "sn", 0>>,
      <<"sn", {"\r"}, "end_sr", 0>>,
      <<"end_sr", {"\n"}, "end_sn", 0>>,
      <<"sn", Graphic, "key_info", 1>>,
      <<"key_info", Graphic \ {":"}, "key_info", 1>>,
      <<"key_info", {":"}, "kv_split", 0>>,
      <<"key_info", Blank, "kv_space1", 0>>,
      <<"kv_space1", Blank, "kv_space1", 0>>,
      <<"kv_space1", {":"}, "kv_split", 0>>,
      <<"kv_split", Blank, "kv_space2", 0>>,
      <<"kv_space2", Blank, "kv_space2", 0>>,
      <<"kv_split", Graphic, "value_info", 2>>,
      <<"kv_space2", Graphic, "value_info", 2>>,
      <<"value_info", Graphic, "value_info", 2>>,
      <<"value_info", {"\r"}, "sr", 0>>,
      <<"sr", {"\n"}, "sn", 0>> }

Node == {edge[1] : edge \in Edges} \cup {"end_sn", "err"}

(* parse_engine_node::next: the link a symbol selects and the buffer it saves *)
(* into.  The graph is indexed by the upper-case character.                   *)
Link(n, c) ==
    LET links == {edge \in Edges : edge[1] = n /\ c \in edge[2]}
    IN  IF links = {} THEN [to |-> "err", save |-> 0]
        ELSE LET edge == CHOOSE edge \in links : TRUE
             IN  [to |-> edge[3], save |-> edge[4]]

-----------------------------------------------------------------------------
(* The fields: a multimap ordered by size, then by upper-case characters.     *)

is_strless(l, r) ==
    IF Size(l) # Size(r) THEN Size(l) < Size(r)
    ELSE \E i \in 1..Len(l) :
            /\ Code(Upper(l[i])) < Code(Upper(r[i]))
            /\ \A j \in 1..(i - 1) : Upper(l[j]) = Upper(r[j])

SameKey(l, r) == ~is_strless(l, r) /\ ~is_strless(r, l)

(* multimap::insert puts an element behind those with an equivalent key. *)
Insert(fields, key, value) ==
    LET n == Len(SelectSeq(fields, LAMBDA kv : ~is_strless(key, kv[1])))
    IN  SubSeq(fields, 1, n) \o <<<<key, value>>>> \o SubSeq(fields, n + 1, Len(fields))

(* fields_.find, then insert or assignment: set_content_length and set_host.  *)
Assign(fields, key, value) ==
    LET found == {i \in DOMAIN fields : SameKey(fields[i][1], key)}
    IN  IF found = {} THEN Insert(fields, key, value)
        ELSE [fields EXCEPT ![CHOOSE i \in found : \A j \in found : i <= j] = <<@[1], value>>]

-----------------------------------------------------------------------------
(* The object. *)

EmptyHead == [type |-> "indeterminate", method |-> "Unkown", path |-> <<>>, status |-> 0,
              major |-> 1, minor |-> 1, fields |-> <<>>]

Constructed == [node |-> "root", buf |-> <<>>, buf2 |-> <<>>, head |-> EmptyHead]

(* clear().  The first swap moves parse_buf_ into the local empty_s and the   *)
(* last statement swaps parse_buf2_ with that same local: what parse_buf_     *)
(* held is left in parse_buf2_.                                               *)
Cleared(h) == [Constructed EXCEPT !.buf2 = h.buf]

(* set_method_s and method_s. *)
MethodOf(s) == CASE Upper(s[1]) = "GET" -> "Get" [] Upper(s[1]) = "POST" -> "Post" [] OTHER -> "Unkown"

method_s(m) == CASE m = "Get" -> "GET" [] m = "Post" -> "POST" [] OTHER -> "UNKOWN"

(* What a node with a result does with the buffers. *)
Result(n, head, buf, buf2) ==
    CASE n = "method" -> [head EXCEPT !.method = MethodOf(buf), !.type = "request"]
      [] n = "path" -> [head EXCEPT !.path = buf]
      [] n = "status_code" -> [head EXCEPT !.status = atoi(buf), !.type = "response"]
      [] n = "version_major" -> [head EXCEPT !.major = atoi(buf)]
      [] n = "version_minor" -> [head EXCEPT !.minor = atoi(buf)]
      [] n = "sr" -> [head EXCEPT !.fields = Insert(head.fields, buf, buf2)]

ResultNode == {"method", "path", "status_code", "version_major", "version_minor", "sr"}

(* Mutant: only the first buffer is emptied. *)
ConsumeKeepsBuf2(h, c) ==
    LET l    == Link(h.node, c)
        buf  == IF l.save = 1 THEN Append(h.buf, c) ELSE h.buf
        buf2 == IF l.save = 2 THEN Append(h.buf2, c) ELSE h.buf2
    IN  IF l.to \in ResultNode /\ buf # <<>>
        THEN [node |-> l.to, buf |-> <<>>, buf2 |-> IF l.to = "sr" THEN <<>> ELSE buf2,
              head |-> Result(l.to, h.head, buf, buf2)]
        ELSE [h EXCEPT !.node = l.to, !.buf = buf, !.buf2 = buf2]

(* consume(char): one link; a node with a result takes the buffers when       *)
(* parse_buf_ holds something, and then empties both.                         *)
Consume(h, c) ==
    LET l    == Link(h.node, c)
        buf  == IF l.save = 1 THEN Append(h.buf, c) ELSE h.buf
        buf2 == IF l.save = 2 THEN Append(h.buf2, c) ELSE h.buf2
    IN  IF l.to \in ResultNode /\ buf # <<>>
        THEN [node |-> l.to, buf |-> <<>>, buf2 |-> <<>>, head |-> Result(l.to, h.head, buf, buf2)]
        ELSE [h EXCEPT !.node = l.to, !.buf = buf, !.buf2 = buf2]

(* consume(data, len): character by character until done or error. *)
ConsumeAll(h, text) ==
    FoldLeft(LAMBDA a, c : IF a.obj.node \in {"end_sn", "err"} /\ a.n > 0 THEN a
                           ELSE [obj |-> Consume(a.obj, c), n |-> a.n + 1],
             [obj |-> h, n |-> 0], text)

(* parse(s): clear, consume, and clear again unless the head is complete.     *)
Parse(h, text) ==
    LET a == ConsumeAll(Cleared(h), text)
    IN  IF a.obj.node = "end_sn" THEN a ELSE [obj |-> Cleared(a.obj), n |-> -1]

(* Mutant: the blank behind the colon is written behind the value. *)
FieldLineBlankLast(kv) == kv[1] \o <<":">> \o kv[2] \o <<" ", "\r", "\n">>

FieldLine(kv) == kv[1] \o <<":", " ">> \o kv[2] \o <<"\r", "\n">>

to_string(head) ==
    (IF head.type = "request" THEN <<method_s(head.method), " ">> \o head.path
                              ELSE <<"STATUS", " ">> \o Decimal(head.status))
    \o <<" ", "HTTP/">> \o Decimal(head.major) \o <<".">> \o Decimal(head.minor) \o <<"\r", "\n">>
    \o FoldLeft(LAMBDA s, kv : s \o FieldLine(kv), <<>>, head.fields) \o <<"\r", "\n">>

-----------------------------------------------------------------------------
(* The life of one object. *)

HInit == http = Constructed /\ fresh = Constructed

(* One character of a chunk given to consume; within the bounds. *)
Feed(c) ==
    /\ http' = Consume(http, c)
    /\ fresh' = Consume(fresh, c)
    /\ Len(fresh'.buf) <= MaxBuf /\ Len(fresh'.buf2) <= MaxBuf
    /\ Len(http'.head.fields) <= MaxFields

(* clear() in any state, a half-read head included. *)
Clear ==
    /\ http' = Cleared(http)
    /\ fresh' = Constructed

(* A setter applied to a complete head. *)
SetField(key, value) ==
    /\ http.node = "end_sn"
    /\ http' = [http EXCEPT !.head.fields = Assign(@, key, value)]
    /\ fresh' = [fresh EXCEPT !.head.fields = Assign(@, key, value)]
    /\ Len(http'.head.fields) <= MaxFields

set_content_length(len) == SetField(ContentLength, Decimal(len))

(* set_host looks for, and writes, the field Content-Length. *)
set_host(text) == SetField(ContentLength, text)

HNext ==
    \/ \E c \in Offer[http.node] : Feed(c)
    \/ Clear
    \/ \E len \in Length : set_content_length(len)
    \/ \E text \in Host : set_host(text)

HSpec == HInit /\ [][HNext]_hvars

-----------------------------------------------------------------------------
(* Properties. *)

(* A reused parser reads what a new one reads: after clear() in any state,    *)
(* half-way through a head or after an error included, the same characters    *)
(* lead to the same node and the same head, although clear() leaves the old   *)
(* parse_buf_ in parse_buf2_: some result empties it before the first field.  *)
ReusedIsFresh == http.node = fresh.node /\ http.head = fresh.head

(* What a text can carry: numbers that are not negative, and values of at     *)
(* least one character that are all printable.                                *)
Carried(head) ==
    /\ head.status >= 0 /\ head.major >= 0 /\ head.minor >= 0
    /\ \A i \in DOMAIN head.fields :
          head.fields[i][2] # <<>> /\ Range(head.fields[i][2]) \subseteq Graphic

(* A head the parser accepts, whatever blanks, case, leading zeros and order  *)
(* of fields it was written with, and however set_content_length or set_host  *)
(* changed it since, is written by to_string as a text that parse reads to    *)
(* its last character as that same head; and exactly these exceptions: a      *)
(* number too large for an int, which atoi made negative, and an empty value  *)
(* or one with a blank, which only a setter gives.                            *)
RoundTrip ==
    http.node = "end_sn" =>
        LET text == to_string(http.head)
            a    == Parse(http, text)
        IN  a.n = Len(text) /\ a.obj.head = http.head <=> Carried(http.head)
=============================================================================
