---------------------------- MODULE MCFileServer ----------------------------
(* Five sets of clients: a GET and another PUT beside a PUT that takes two     *)
(* events; DELETE and LIST beside a PUT; a PUT with too much data and a bad    *)
(* request; a PUT with too little data and one that cannot open its file.      *)
EXTENDS FileServer, TLC

CONSTANTS a, b, c, doc, bad

Request(verb, name, size, units) == [verb |-> verb, name |-> name, size |-> size, units |-> units]
Put(size, units) == Request("PUT", doc, size, units)
Plain(verb) == Request(verb, doc, 0, 0)
Of(x, y, z) == (a :> x) @@ (b :> y) @@ (c :> z)

MCWorkloads == {
    Of(Put(3, 3), Plain("GET"), NoRequest),
    Of(Put(3, 3), Put(2, 2), NoRequest),
    Of(Put(1, 1), Plain("DELETE"), Plain("LIST")),
    Of(Put(1, 2), Plain("OTHER"), NoRequest),
    Of(Put(2, 1), Request("PUT", bad, 1, 1), NoRequest)}
=============================================================================
