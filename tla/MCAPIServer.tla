---------------------------- MODULE MCAPIServer ----------------------------
EXTENDS APIServer

WorkersInOrder == <<"tokens", "limiter">>

URL(o, b, s) == [origin |-> o, bearer |-> b, signed |-> s]

(* Links to the upstream itself, to a configured origin, to others with the
   bearer in the query or the path, and without TLS. *)
UpstreamLinks == {URL("api", "query", FALSE), URL("media", "no", TRUE), URL("cdn", "query", TRUE),
                  URL("cdn", "path", FALSE), URL("plain", "no", FALSE)}

(* No institute named, one named for one of two lectures, and two of them. *)
InstituteLists == {<<0>>, <<1, 0>>, <<1, 2>>}
=============================================================================
