--------------------------- MODULE MCConnectionLoop ---------------------------
(* The renderer is asked for by nothing (any will do), by its URL, by its    *)
(* name or by the UUID of its first start.  "a" is part of the other's name. *)
EXTENDS ConnectionLoop

MCFilters  == {"", "a", "b", "uuid"}
MCInName   == {<<"a", "a">>, <<"b", "b">>, <<"a", "b">>}
MCInUuid   == {<<"uuid", 1>>}
MCRequests == {[url |-> FALSE, filter |-> ""],
               [url |-> TRUE, filter |-> ""],
               [url |-> FALSE, filter |-> "b"],
               [url |-> FALSE, filter |-> "uuid"]}

\* Asked for by its URL.
ByUrl == {[url |-> TRUE, filter |-> ""]}
=============================================================================
