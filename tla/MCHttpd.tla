------------------------------ MODULE MCHttpd ------------------------------
(***************************************************************************)
(* Instance of Httpd: a selection of the daemon's routes (api/groups.c,    *)
(* api/system.c, main/main.c) and requests that reach every branch.        *)
(***************************************************************************)
EXTENDS Httpd, TLC

CONSTANTS c1, c2

MCRoutes ==
    <<[method |-> "GET", pattern |-> <<"api", "v1", "auth">>],
      [method |-> "GET", pattern |-> <<"api", "v1", "groups">>],
      [method |-> "GET", pattern |-> <<"api", "v1", "groups", Param>>]>>

Req(method, path, token, head, body, ok, v10, connection) ==
    [method |-> method, path |-> path, token |-> token, head |-> head, body |-> body,
     ok |-> ok, v10 |-> v10, connection |-> connection]

Get(path, token) == Req("GET", path, token, 1, 0, TRUE, FALSE, "none")

\* One client asks for anything, the other competes for the place.
MCRequests ==
    c1 :> {Get(<<"api", "v1", "x", "..", "groups", ".", "g">>, "good"),
     Req("GET", <<"x", "..", "..", "api", "v1", "auth">>, "none", 1, 0, TRUE, TRUE, "keep-alive"),
     Req("PUT", <<"api", "v1", "groups">>, "good", 2, 1, TRUE, FALSE, "none"),
     Req("GET", <<"", "index.html">>, "none", 1, 0, TRUE, FALSE, "close"),
     Req("GET", <<>>, "none", 1, 0, FALSE, FALSE, "none"),
     Req("PUT", <<"api", "v1", "groups">>, "good", 1, 2, TRUE, FALSE, "none"),
     Req("GET", <<>>, "none", 3, 0, TRUE, FALSE, "none")}
    @@ c2 :> {Get(<<"api", "v1", "groups">>, "none")}
=============================================================================
