----------------------------- MODULE MCAccounts -----------------------------
(* A bounded instance of Accounts: two people who want the same e-mail or   *)
(* the same name, and two session ids that collide.                         *)
EXTENDS Accounts

Form(kind, name, email, password, cookie) ==
  [kind |-> kind, valid |-> TRUE, name |-> name, email |-> email,
   password |-> password, cookie |-> cookie]

Create(name, email, password) == Form("create", name, email, password, NoCookie)
Login(email, password) == Form("login", "ann", email, password, NoCookie)
Connect(cookie) == Form("auth", "ann", "ann@x", "secret", cookie)

SmallInputs ==
  {Create("ann", "ann@x", "secret"), Create("bob", "ann@x", "guess"),
   Create("bob", "bob@x", "guess"),
   Login("ann@x", "secret"), Login("ann@x", "guess"),
   Connect("sid1"), Connect(NoCookie),
   [Create("ann", "ann@x", "secret") EXCEPT !.valid = FALSE]}
=============================================================================
