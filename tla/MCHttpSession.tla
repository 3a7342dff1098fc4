---------------------------- MODULE MCHttpSession ----------------------------
(* A bounded instance of HttpSession: clients that pipeline two requests,   *)
(* one of every kind and one of a simple kind.                              *)
EXTENDS HttpSession

Form(target, method) ==
  [ok |-> TRUE, upgrade |-> FALSE, keep_alive |-> TRUE,
   target |-> target, method |-> method]

SmallInputs ==
  [c \in Conns |->
     IF c = 1
     THEN {Form("endpoint", "POST"),
           [Form("no_file", "GET") EXCEPT !.keep_alive = FALSE],
           [Form("file", "GET") EXCEPT !.upgrade = TRUE],
           [Form("invalid", "GET") EXCEPT !.ok = FALSE]}
     ELSE {Form("unknown", "GET")}]
=============================================================================
