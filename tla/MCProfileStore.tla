---------------------------- MODULE MCProfileStore ----------------------------
(* A small instance of ProfileStore for TLC. *)
EXTENDS ProfileStore

Node(base, source, link, out, name) ==
  [id |-> <<base, 0>>, source |-> source, link |-> link, out |-> out,
   name |-> name, stale |-> FALSE]
Link(base, link, out) == Node(base, "manual", link, out, "n")

MCFeeds == [p |-> {<<>>, <<Link("a", "l1", "o1")>>, <<Link("a", "l1", "lan")>>,
                   <<Link("b", "l2", "o2"), Link("a", "l1", "o2")>>},
            q |-> {<<Link("a", "l1", "o1")>>}]
\* A client imports a node of a subscription that is gone as one of its own.
MCImports == {<<[Node("a", "p", NoLink, "o1", "m") EXCEPT !.stale = TRUE]>>}
MCUpserts == {Node("a", "manual", NoLink, "o1", "m"), Node("c", "manual", NoLink, "bad", "m")}
Gone == [Link("a", "l1", "o1") EXCEPT !.source = "p", !.stale = TRUE]
MCDocuments ==
  {[EmptyDocument("s1") EXCEPT !.nodes = <<Gone>>, !.active = Gone.id,
      !.subs = "p" :> [name |-> NoName, live |-> 1, gone |-> 0]],
   EmptyDocument("allowLan")}
=============================================================================
