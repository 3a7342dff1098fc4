------------------------------ MODULE MCFormats ------------------------------
(***************************************************************************)
(* The three readers of texts, each on its own: a behaviour is one call of *)
(* one of them, and the others have returned.                              *)
(***************************************************************************)
EXTENDS Base64, Cookies, PasswordHash, SequencesExt

\* 0 and 1 put bits at both ends of a digit, 62 at all but one; 65 is in no
\* table; 128 and 129 are looked up beyond it, and taken for a digit and for
\* something that is none.  Five characters are a full group and the beginning
\* of another.
ShortTexts == BoundedSeq({0, 1, 62, Pad, 65, 128, 129}, 5)
SomeMemory == [c \in Wide |-> CASE c = 128 -> 5 [] c = 129 -> -77 [] OTHER -> -1]
ShortMessages == BoundedSeq({0, 90, 255}, 6)

\* A character of every kind that the parser tells apart.
ShortHeaders == BoundedSeq({0, 62, Slash, Pad, Semicolon, Space, Quote}, 5)
Sid == <<0>>
Ids == {<<0>>, <<255, 255>>, <<1, 2, 3>>}
ClientCookies ==
  LET values == {<< >>, <<1>>, <<Pad, Slash>>, <<Quote, 1, Quote>>, <<Quote, Quote>>}
  IN  [name : {Sid, <<1, 1>>},
       value : values \cup {base64_encode(id, TRUE) : id \in Ids}]
ClientJars == BoundedSeq(ClientCookies, 3) \ {<< >>}

DefaultAndWeaker == {default_params, [default_params EXCEPT !.r = 1]}
StoredValues == {NoEquals, NoNumber, 0, 1, 8, 14, 16, 21}

DecodeIdle ==
  /\ source = << >> /\ text = << >> /\ padded = FALSE
  /\ src = 0 /\ c4 = <<0, 0, 0, 0>> /\ i = 0 /\ out = << >> /\ decoded = "ok"

CookieIdle ==
  /\ jar = << >> /\ header = << >> /\ pairs = << >>
  /\ next = 0 /\ val = [name |-> View(0, 0), value |-> View(0, 0)]
  /\ lookup = "requires_auth"

PasswordIdle ==
  \E password \in Passwords, salt \in Salts :
    /\ attempt = password
    /\ stored = [hash_password(password, salt) EXCEPT !.algorithm = "argon2id"]
    /\ rest = << >> /\ params = default_params /\ verified = "malformed"

Init ==
  \/ DecodeInit /\ CookieIdle /\ PasswordIdle
  \/ DecodeIdle /\ CookieInit /\ PasswordIdle
  \/ DecodeIdle /\ CookieIdle /\ PasswordInit

Next ==
  \/ DecodeStep /\ UNCHANGED <<cookieVars, passwordVars>>
  \/ CookieStep /\ UNCHANGED <<decodeVars, passwordVars>>
  \/ PasswordStep /\ UNCHANGED <<decodeVars, cookieVars>>

Spec == Init /\ [][Next]_<<decodeVars, cookieVars, passwordVars>>
=============================================================================
