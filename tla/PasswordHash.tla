----------------------------- MODULE PasswordHash -----------------------------
(***************************************************************************)
(* hash_password(), and verify_password() with the parser of stored        *)
(* hashes: a PHC string, five fields between '$' of which the third lists  *)
(* the parameters.  The string comes from the database and may be          *)
(* anything.                                                               *)
(*                                                                         *)
(* Abstracted: base64, which Base64 shows to bring back what was encoded,  *)
(* and the algorithm, of which only this is used: other inputs give other  *)
(* hashes, and it refuses what needs more memory than it is allowed.       *)
(***************************************************************************)
EXTENDS Integers, Sequences

CONSTANTS
  Passwords,
  Salts,
  Values,        \* the numbers that parameters have in stored strings
  ParamNames,    \* the names that parameters have there
  HashParams,    \* what the hashes there were computed with
  MaxParams      \* bound: parameters in a string

\* "illegal" is a field that is no base64 text.
ASSUME PasswordAssumption ==
  /\ "illegal" \notin Salts
  /\ Values \subseteq Int
  /\ HashParams \subseteq [ln : Int, r : Int, p : Int]
  /\ MaxParams \in Nat

VARIABLES
  attempt,   \* the password that somebody logs in with
  stored,    \* the PHC string of the account
  rest,      \* the parameters that have not been parsed
  params,    \* the parameters so far
  verified   \* "begin", "params", or how verify_password() ended

passwordVars == <<attempt, stored, rest, params, verified>>
-----------------------------------------------------------------------------
default_params == [ln |-> 14, r |-> 8, p |-> 1]
hash_size == 32
max_ln == 20
max_r == 20

\* A value that has no '=' before it, and one that is not a number.
NoEquals == -2
NoNumber == -1

\* The first bytes, len of them, of what scrypt makes of a password.
Hash(password, salt, ps, len) ==
  [password |-> password, salt |-> salt, ln |-> ps.ln, r |-> ps.r, len |-> len]
IllegalHash == Hash("", "illegal", default_params, 0)

\* N is a power of two that r limits, and the tables take 128 * r * (N + 3)
\* bytes, of which 32 MiB are allowed.
Computable(ps) ==
  /\ ps.r = 1 => ps.ln < 16
  /\ ps.r * (2 ^ ps.ln + 2 + ps.p) <= (32 * 2 ^ 20) \div 128

\* A string by its fields: dollars is the number of '$' behind the first one,
\* and a field is not there unless there is a '$' behind the one before it.
Text(first, dollars, algorithm, ps, salt, hash) ==
  [first |-> first, dollars |-> dollars, algorithm |-> algorithm,
   params |-> ps, salt |-> salt, hash |-> hash]

\* Mutant: N is written, where its logarithm belongs.
scrypt_phc_serialize_N(ps, salt, hash) ==
  Text("$", 3, "scrypt",
       <<[name |-> "ln", value |-> 2 ^ ps.ln], [name |-> "r", value |-> ps.r],
         [name |-> "p", value |-> ps.p]>>, salt, hash)

scrypt_phc_serialize(ps, salt, hash) ==
  Text("$", 3, "scrypt",
       <<[name |-> "ln", value |-> ps.ln], [name |-> "r", value |-> ps.r],
         [name |-> "p", value |-> ps.p]>>, salt, hash)

hash_password(password, salt) ==
  scrypt_phc_serialize(default_params, salt,
                       Hash(password, salt, default_params, hash_size))
-----------------------------------------------------------------------------
Params == [name : ParamNames, value : Values]
ParamLists == UNION {[1..n -> Params] : n \in 1..MaxParams}

\* What the database may hold: what hash_password() made, strings that differ
\* from that in one respect, and strings with other parameters, whose hash was
\* computed with these or was not.
PasswordInit ==
  /\ attempt \in Passwords
  /\ \E password \in Passwords, salt \in Salts :
       LET own == hash_password(password, salt)
       IN  \/ stored = own
           \/ \E c \in {"", "x"} : stored = [own EXCEPT !.first = c]
           \/ \E n \in 0..4 : stored = [own EXCEPT !.dollars = n]
           \/ stored = [own EXCEPT !.algorithm = "argon2id"]
           \/ stored = [own EXCEPT !.salt = "illegal"]
           \/ stored = [own EXCEPT !.hash = IllegalHash]
           \/ \E len \in {0, hash_size - 1, hash_size + 1} :
                stored = [own EXCEPT !.hash.len = len]
           \/ \E ps \in ParamLists, made \in HashParams :
                stored = [own EXCEPT !.params = ps,
                                     !.hash = Hash(password, salt, made, hash_size)]
  /\ rest = << >>
  /\ params = default_params
  /\ verified = "begin"
-----------------------------------------------------------------------------
Malformed ==
  /\ verified' = "malformed"
  /\ UNCHANGED <<attempt, stored, rest, params>>

\* The fields up to the parameters.
ParseHead ==
  /\ verified = "begin"
  /\ IF /\ stored.first = "$"
        /\ stored.dollars >= 2
        /\ stored.algorithm = "scrypt"
     THEN /\ verified' = "params"
          /\ rest' = stored.params
          /\ UNCHANGED <<attempt, stored, params>>
     ELSE Malformed

\* A parameter that is not known is not looked at.
Acceptable(param) ==
  /\ param.value # NoEquals
  /\ param.name = "ln" => param.value \in 2..max_ln
  /\ param.name = "r" => param.value \in 1..max_r
  /\ param.name = "p" => param.value = 1

\* One round of the loop over the parameters.
ParseParam ==
  /\ verified = "params"
  /\ rest # << >>
  /\ IF Acceptable(Head(rest))
     THEN /\ params' = [params EXCEPT
                          !.ln = IF Head(rest).name = "ln" THEN Head(rest).value ELSE @,
                          !.r = IF Head(rest).name = "r" THEN Head(rest).value ELSE @]
          /\ rest' = Tail(rest)
          /\ UNCHANGED <<attempt, stored, verified>>
     ELSE Malformed

\* Mutant: the sizes are not compared, so that an empty hash equals any.
time_safe_equals_prefix(h1, h2) ==
  \/ h1.len = 0 \/ h2.len = 0
  \/ [h1 EXCEPT !.len = 0] = [h2 EXCEPT !.len = 0]

\* As many bytes as both have are compared, and then the sizes.
time_safe_equals(h1, h2) ==
  /\ \/ h1.len = 0 \/ h2.len = 0
     \/ [h1 EXCEPT !.len = 0] = [h2 EXCEPT !.len = 0]
  /\ h1.len = h2.len

\* The salt and the hash; then the password is hashed like the stored one was.
Verify ==
  /\ verified = "params"
  /\ rest = << >>
  /\ IF /\ stored.dollars = 3
        /\ stored.salt # "illegal"
        /\ stored.hash # IllegalHash
     THEN /\ verified' =
               IF ~Computable(params) THEN "throws"
               ELSE IF time_safe_equals(stored.hash,
                         Hash(attempt, stored.salt, params, hash_size))
                    THEN "match" ELSE "differs"
          /\ UNCHANGED <<attempt, stored, rest, params>>
     ELSE Malformed

PasswordStep == ParseHead \/ ParseParam \/ Verify

PasswordSpec == PasswordInit /\ [][PasswordStep]_passwordVars
-----------------------------------------------------------------------------
\* What hash_password() writes is read back with the parameters that it was
\* made with: an account is opened by its own password and by no other.
OwnHashVerifies ==
  \A password \in Passwords, salt \in Salts :
    stored = hash_password(password, salt) /\ verified \notin {"begin", "params"} =>
      verified = IF attempt = password THEN "match" ELSE "differs"

\* The value that a string gives a parameter: that of its last occurrence.
Stated(name, default) ==
  LET places == {k \in DOMAIN stored.params : stored.params[k].name = name}
  IN  IF places = {} THEN default
      ELSE stored.params[CHOOSE k \in places : \A l \in places : l <= k].value

\* A password is accepted only if the whole hash in the string is the one that
\* the string's own parameters and salt give for it: never by a hash that is
\* empty or cut short, by parameters that were half read, or by ones that were
\* refused.
MatchMeansHashed ==
  verified = "match" =>
    LET ln == Stated("ln", default_params.ln)
        r == Stated("r", default_params.r)
    IN  /\ stored.hash = Hash(attempt, stored.salt, [ln |-> ln, r |-> r], hash_size)
        /\ ln \in 2..max_ln /\ r \in 1..max_r /\ Stated("p", 1) = 1

-----------------------------------------------------------------------------
\* The fields of a PHC string.
ParamType == [name : ParamNames \cup {"ln", "r", "p"}, value : Int]
HashType ==
  [password : Passwords \cup {""}, salt : Salts \cup {"illegal"},
   ln : Int, r : Int, len : Int]
StoredType ==
  [first : {"", "x", "$"}, dollars : Int, algorithm : {"scrypt", "argon2id"},
   params : Seq(ParamType), salt : Salts \cup {"illegal"}, hash : HashType]

\* v is what the first n parameters of ps give to name.
Gives(ps, n, name, default, v) ==
  \/ v = default /\ \A k \in 1..n : ps[k].name # name
  \/ \E k \in 1..n :
       /\ ps[k].name = name /\ ps[k].value = v
       /\ \A l \in (k + 1)..n : ps[l].name # name

\* How many parameters have been parsed.
Parsed == Len(stored.params) - Len(rest)

\* The rest is what follows the parameters that have been parsed; they are
\* acceptable, and params is what they give.
ParsedInv ==
  /\ Parsed \in 0..Len(stored.params)
  /\ rest = SubSeq(stored.params, Parsed + 1, Len(stored.params))
  /\ \A k \in 1..Parsed : Acceptable(stored.params[k])
  /\ params \in [ln : 2..max_ln, r : 1..max_r, p : {1}]
  /\ Gives(stored.params, Parsed, "ln", default_params.ln, params.ln)
  /\ Gives(stored.params, Parsed, "r", default_params.r, params.r)
  /\ Gives(stored.params, Parsed, "p", default_params.p, params.p)

\* The inductive invariant.
PasswordIInv ==
  /\ attempt \in Passwords
  /\ stored \in StoredType
  /\ verified \in {"begin", "params", "malformed", "throws", "match", "differs"}
  /\ verified = "begin" => rest = << >> /\ params = default_params
  /\ verified = "params" => ParsedInv
  /\ OwnHashVerifies
  /\ MatchMeansHashed
=============================================================================
