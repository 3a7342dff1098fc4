------------------------------- MODULE Cookies -------------------------------
(***************************************************************************)
(* cookie_list: an iterator over the pairs of a Cookie header that copies  *)
(* nothing, as user_id_from_cookie() uses it to find the session, and      *)
(* set_cookie_builder, which made that cookie at the log-in.  The header   *)
(* is whatever the client sends.                                           *)
(*                                                                         *)
(* Characters are those of Base64Ops; the tables of cookie.cpp know others *)
(* as well, which are like one of these.  A string_view is a pair of       *)
(* positions: that of its first character and the one behind its last.     *)
(***************************************************************************)
EXTENDS Base64Ops

CONSTANTS
  Headers,              \* what clients send
  Jars,                 \* cookies of well behaved clients: sequences of pairs
  SessionIds,           \* the bytes of session ids
  session_cookie_name

Slash == 63     \* the one character of base64 that is none of a token
Semicolon == 65
Space == 66
Tab == 67
Quote == 68

\* The characters for which is_token_char() and is_cookie_value_char() are true,
\* and those that skip_ows() skips.
token_chars == Digit \ {Slash}
ows_chars == {Space, Tab}

\* Mutant: '=' is only the sign between a name and its value.
cookie_value_chars_but_equals == Digit

cookie_value_chars == Digit \cup {Pad}

is_valid_token(t) == t # << >> /\ \A d \in DOMAIN t : t[d] \in token_chars
is_valid_cookie_value(t) ==
  t # << >> /\ \A d \in DOMAIN t : t[d] \in cookie_value_chars

\* The cookies that a client may keep, as RFC 6265 describes them.
cookie_octets == Digit \cup {Pad}

is_sent_value(v) ==
  \/ \A d \in DOMAIN v : v[d] \in cookie_octets
  \/ /\ Len(v) >= 2 /\ v[1] = Quote /\ v[Len(v)] = Quote
     /\ \A d \in 2..(Len(v) - 1) : v[d] \in cookie_octets

IsJar(j) ==
  /\ j \in Seq([name : Seq(Nat), value : Seq(Nat)])
  /\ \A k \in DOMAIN j : is_valid_token(j[k].name) /\ is_sent_value(j[k].value)

ASSUME CookiesAssumption ==
  /\ Headers \subseteq Seq(Nat)
  /\ \A j \in Jars : IsJar(j)
  /\ SessionIds \subseteq Seq(Byte) \ {<< >>}
  /\ session_cookie_name \in Seq(Nat)
  /\ is_valid_token(session_cookie_name)

VARIABLES
  jar,     \* the cookies that the client sends, if it is well behaved
  header,  \* the header that it sends
  next,    \* the iterator: where the next pair is looked for, 0 at the end()
  val,     \* the iterator: the pair it points to
  pairs,   \* the pairs it has pointed to
  lookup   \* "begin", "searching", "found" or "requires_auth"

cookieVars == <<jar, header, next, val, pairs, lookup>>
-----------------------------------------------------------------------------
\* set_cookie_builder throws unless it is given what it can write.
set_cookie_builder(name, value) ==
  [ok |-> is_valid_token(name) /\ is_valid_cookie_value(value),
   name |-> name, value |-> value]

\* The cookie of a session; the attributes that follow it stay in the client.
session_cookie(id) ==
  set_cookie_builder(session_cookie_name, base64_encode(id, TRUE))

\* A client sends its cookies back in one header.
Render(j) ==
  LET rendered[k \in 0..Len(j)] ==
        IF k = 0 THEN << >>
        ELSE rendered[k - 1] \o (IF k = 1 THEN << >> ELSE <<Semicolon, Space>>)
               \o j[k].name \o <<Pad>> \o j[k].value
  IN  rendered[Len(j)]

CookieInit ==
  /\ \/ /\ jar = << >>
        /\ header \in Headers
     \/ /\ jar \in Jars
        /\ \E before \in {<< >>, <<Space>>, <<Tab>>}, behind \in {<< >>, <<Space>>} :
             header = before \o Render(jar) \o behind
  /\ next = 0
  /\ val = [name |-> <<0, 0>>, value |-> <<0, 0>>]
  /\ pairs = << >>
  /\ lookup = "begin"
-----------------------------------------------------------------------------
NoChar == -1
At(i) == IF i \in DOMAIN header THEN header[i] ELSE NoChar
End == Len(header) + 1

\* skip_ows(), skip_token(), skip_cookie_value(): the first position from i on
\* whose character is of another kind.
Skip(i, kind) ==
  CHOOSE j \in i..End : /\ \A d \in i..(j - 1) : At(d) \in kind
                        /\ j = End \/ At(j) \notin kind

View(i, j) == <<i, j>>
TextOf(view) == SubSeq(header, view[1], view[2] - 1)

reset ==
  /\ next' = 0
  /\ val' = [name |-> View(0, 0), value |-> View(0, 0)]
  /\ lookup' = "requires_auth"
  /\ UNCHANGED pairs

\* Mutant: the end of the header closes a quoted value as well.
increment_from_unquoted(i) ==
  LET name_last == Skip(i, token_chars)
      value_first == name_last + 1
      is_quoted == At(value_first) = Quote
      octets_last == Skip(IF is_quoted THEN value_first + 1 ELSE value_first,
                          cookie_value_chars)
      value_last == IF At(octets_last) = Quote THEN octets_last + 1 ELSE octets_last
      pair == [name |-> View(i, name_last),
               value |-> View(value_first, value_last)]
  IN  IF /\ i < name_last
         /\ At(name_last) = Pad
         /\ is_quoted => At(octets_last) = Quote \/ octets_last = End
      THEN /\ val' = pair
           /\ next' = value_last
           /\ pairs' = Append(pairs, pair)
           /\ lookup' = IF TextOf(pair.name) = session_cookie_name
                        THEN "found" ELSE "searching"
      ELSE reset

\* The pair that begins at i, if there is one.  A quoted value has its quotes.
increment_from(i) ==
  LET name_last == Skip(i, token_chars)
      value_first == name_last + 1
      is_quoted == At(value_first) = Quote
      octets_last == Skip(IF is_quoted THEN value_first + 1 ELSE value_first,
                          cookie_value_chars)
      value_last == IF is_quoted THEN octets_last + 1 ELSE octets_last
      pair == [name |-> View(i, name_last),
               value |-> View(value_first, value_last)]
  IN  IF /\ i < name_last
         /\ At(name_last) = Pad
         /\ is_quoted => At(octets_last) = Quote
      THEN /\ val' = pair
           /\ next' = value_last
           /\ pairs' = Append(pairs, pair)
           /\ lookup' = IF TextOf(pair.name) = session_cookie_name
                        THEN "found" ELSE "searching"
      ELSE reset

\* begin(): behind the white space at the front.
Begin ==
  /\ lookup = "begin"
  /\ LET first == Skip(1, ows_chars)
     IN  IF first = End THEN reset ELSE increment_from(first)
  /\ UNCHANGED <<jar, header>>

\* operator++, until find_if() has found the session cookie.
Increment ==
  /\ lookup = "searching"
  /\ IF At(next) = Semicolon /\ At(next + 1) = Space
     THEN increment_from(next + 2) ELSE reset
  /\ UNCHANGED <<jar, header>>

CookieStep == Begin \/ Increment

CookieSpec == CookieInit /\ [][CookieStep]_cookieVars
-----------------------------------------------------------------------------
\* The grammar in the comment above increment(): a pair that begins at i.
IsPair(pair, i) ==
  LET name == pair.name
      value == pair.value
  IN  /\ name[1] = i /\ i < name[2]
      /\ \A d \in i..(name[2] - 1) : At(d) \in token_chars
      /\ At(name[2]) = Pad
      /\ value[1] = name[2] + 1
      /\ \/ /\ At(value[1]) # Quote
            /\ value[1] <= value[2]
            /\ \A d \in value[1]..(value[2] - 1) : At(d) \in cookie_value_chars
            /\ At(value[2]) \notin cookie_value_chars
         \/ /\ At(value[1]) = Quote
            /\ value[1] + 2 <= value[2]
            /\ \A d \in (value[1] + 1)..(value[2] - 2) : At(d) \in cookie_value_chars
            /\ At(value[2] - 1) = Quote

\* A first pair may begin at i: only white space is before it.
Leads(i) == (\A d \in 1..(i - 1) : At(d) \in ows_chars) /\ At(i) \notin ows_chars

\* Another pair may begin at i, behind one that ends at j.
Continues(i, j) == i = j + 2 /\ At(j) = Semicolon /\ At(j + 1) = Space

\* The list is made of pairs of the grammar, one behind the other, from the
\* first character that is no white space; and it ends only where none goes
\* on, so that a character that is illegal ends it but takes nothing away.
ListIsGrammar ==
  /\ \A k \in DOMAIN pairs :
       \E i \in 1..Len(header) :
         /\ IsPair(pairs[k], i)
         /\ IF k = 1 THEN Leads(i) ELSE Continues(i, pairs[k - 1].value[2])
  /\ lookup = "requires_auth" =>
       ~ \E i, n, v \in 1..(Len(header) + 1) :
           /\ IF pairs = << >> THEN Leads(i)
              ELSE Continues(i, pairs[Len(pairs)].value[2])
           /\ IsPair([name |-> View(i, n), value |-> View(n + 1, v)], i)

\* The log-in never fails for want of a legal cookie, and the cookie it made
\* brings the very id back: base64 ids are values of cookies.
SessionIdReturns ==
  \A id \in SessionIds :
    LET cookie == session_cookie(id)
    IN  /\ cookie.ok
        /\ \A k \in DOMAIN jar :
             /\ jar[k] = [name |-> cookie.name, value |-> cookie.value]
             /\ \A l \in 1..(k - 1) : jar[l].name # session_cookie_name
             /\ lookup \in {"found", "requires_auth"}
             => /\ lookup = "found"
                /\ TextOf(val.value) = base64_encode(id, TRUE)
=============================================================================
