---------------------------- MODULE ProfileDocument ----------------------------
(***************************************************************************)
(* The profile document as values: what is refused, what normalising does, *)
(* and the merges of imported and of subscribed nodes.  FromConfig decodes *)
(* the document anew for every request, but within a request a document    *)
(* and the one derived from it share their array of nodes until an append  *)
(* moves it.  Operators that write to that array therefore also say what   *)
(* the caller's document holds afterwards.                                 *)
(***************************************************************************)
EXTENDS Integers, Sequences, FiniteSets, SequencesExt, Selection

CONSTANTS
  Providers,   \* providerKey of subscriptions
  BadOuts,     \* what a node points to, refused: port, outbound, owner package
  LocalOuts,   \* a local, private or reserved server
  BadSettings  \* routing, DNS, inbounds, ... refused by Normalize or Validate

(***************************************************************************)
(* A node is [id, source, link, out, name, stale].  source is "manual" or  *)
(* a provider; out stands for protocol, server, port, outbound and owner;  *)
(* name for what only the user interface shows.  An id is <<base, n>>, the *)
(* n-th way to spell base (base, base-suffix, base-suffix-2, ...).         *)
(***************************************************************************)
IsNode(n) ==
  n = [id |-> n.id, source |-> n.source, link |-> n.link, out |-> n.out, name |-> n.name, stale |-> n.stale]

NoId == <<>>
NoLink == "no link"
NoName == ""

\* profile.Node compared by sameNodeRuntimeProjection
SameProjection(a, b) ==
  /\ a.id = b.id /\ a.out = b.out
  /\ a.link = b.link /\ a.stale = b.stale

\* Mutant: the provider is not part of the key.
KeyWithoutScope(n) ==
  CASE n.source # "manual" /\ n.link # NoLink -> <<"any", "link", n.link>>
    [] n.id # NoId -> <<"any", "id", n.id>>
    [] OTHER -> <<"any", "endpoint", n.out>>

NodeMatchKey(n) ==
  CASE n.source # "manual" /\ n.link # NoLink -> <<n.source, "link", n.link>>
    [] n.id # NoId -> <<n.source, "id", n.id>>
    [] OTHER -> <<n.source, "endpoint", n.out>>

Keys(nodes) == {NodeMatchKey(nodes[i]) : i \in DOMAIN nodes}
Ids(nodes) == {nodes[i].id : i \in DOMAIN nodes}

\* The last position in nodes that satisfies Test, or 0.
LastWhere(nodes, Test(_)) ==
  LET at == {i \in DOMAIN nodes : Test(nodes[i])}
  IN IF at = {} THEN 0 ELSE CHOOSE i \in at : \A j \in at : j <= i

Live(nodes, id) == \E i \in DOMAIN nodes : nodes[i].id = id /\ ~nodes[i].stale

IsFirstLive(nodes, i) ==
  ~nodes[i].stale /\ \A j \in DOMAIN nodes : j < i => nodes[j].stale

FirstLive(nodes) ==
  IF \E i \in DOMAIN nodes : IsFirstLive(nodes, i)
    THEN nodes[CHOOSE i \in DOMAIN nodes : IsFirstLive(nodes, i)].id ELSE NoId

RepairActive(nodes, id) == IF Live(nodes, id) THEN id ELSE FirstLive(nodes)

\* Mutant: an imported node keeps its id whatever is there.
AnyId(id, used) == id

UniqueImportedNodeId(id, used) ==
  LET base == IF id = NoId THEN "node" ELSE id[1]
      free == {n \in 0..Cardinality(used) : <<base, n>> \notin used}
  IN <<base, CHOOSE n \in free : \A k \in free : n <= k>>

-----------------------------------------------------------------------------
(* Merging                                                                 *)

\* One incoming node.  m.first is the first live node that was imported,
\* m.moved that an append has parted m.nodes from m.caller.
MergeNode(stored, m, node) ==
  LET key == NodeMatchKey(node)
      at  == LastWhere(stored, LAMBDA n : NodeMatchKey(n) = key)
      old == m.nodes[at]
      new == IF at # 0
               THEN [node EXCEPT !.id = old.id,
                                 !.name = IF old.name = NoName THEN @ ELSE old.name]
               ELSE [node EXCEPT !.id = UniqueImportedNodeId(@, Ids(m.nodes))]
  IN IF key \in m.seen THEN m ELSE
     [nodes  |-> IF at # 0 THEN [m.nodes EXCEPT ![at] = new] ELSE Append(m.nodes, new),
      caller |-> IF at # 0 /\ ~m.moved THEN [m.nodes EXCEPT ![at] = new] ELSE m.caller,
      moved  |-> m.moved \/ at = 0,
      seen   |-> m.seen \cup {key},
      first  |-> IF m.first = NoId /\ ~new.stale THEN new.id ELSE m.first]

\* MergeNodes: the document, and what the caller's nodes have become.
MergeNodes(doc, incoming) ==
  LET start == [nodes |-> doc.nodes, caller |-> doc.nodes, moved |-> FALSE,
                seen |-> {}, first |-> NoId]
      m == FoldLeft(LAMBDA acc, n : MergeNode(doc.nodes, acc, n), start, incoming)
  IN [doc    |-> [doc EXCEPT !.nodes = m.nodes,
                             !.active = IF m.first # NoId THEN m.first
                                        ELSE RepairActive(m.nodes, @)],
      caller |-> m.caller,
      moved  |-> m.moved]

ProviderNodes(nodes, p) == Those(nodes, {i \in DOMAIN nodes : nodes[i].source = p})
Others(nodes, p) == Those(nodes, {i \in DOMAIN nodes : nodes[i].source # p})

\* reorderProviderNodes, replaceProviderNodes: the provider's nodes in the order
\* of the feed, then those that are gone from it, where its first node was.
ReorderProviderNodes(nodes, p, order) ==
  LET own   == ProviderNodes(nodes, p)
      NodeOf(key) == own[LastWhere(own, LAMBDA n : NodeMatchKey(n) = key)]
      known == Those(order, {i \in DOMAIN order : order[i] \in Keys(own)})
      moved == [i \in DOMAIN known |-> NodeOf(known[i])]
                 \o Those(own, {i \in DOMAIN own : NodeMatchKey(own[i]) \notin ToSet(order)})
      at    == SelectInSeq(nodes, LAMBDA n : n.source = p)
  IN IF own = <<>> THEN nodes
     ELSE SubSeq(nodes, 1, at - 1) \o moved
            \o Others(SubSeq(nodes, at + 1, Len(nodes)), p)

\* MergeSubscriptionNodes: a node of the provider that is not in the feed is
\* stale.  (The merge is bound as the element of a set, to be worked out once.)
MergeSubscriptionNodes(doc, p, incoming) ==
  LET scoped == [i \in DOMAIN incoming |-> [incoming[i] EXCEPT !.source = p]]
      keys   == [i \in DOMAIN scoped |-> NodeMatchKey(scoped[i])]
      order  == Those(keys, {i \in DOMAIN keys : \A j \in 1..(i - 1) : keys[j] # keys[i]})
      Mark(n) == IF n.source = p /\ NodeMatchKey(n) \notin Keys(scoped)
                   THEN [n EXCEPT !.stale = TRUE] ELSE n
      Merged(m) ==
        LET marked == [i \in DOMAIN m.doc.nodes |-> Mark(m.doc.nodes[i])]
            nodes  == ReorderProviderNodes(marked, p, order)
        IN [doc    |-> [m.doc EXCEPT !.nodes = nodes, !.active = RepairActive(nodes, @)],
            caller |-> IF m.moved THEN m.caller ELSE marked]
  IN CHOOSE outcome \in {Merged(m) : m \in {MergeNodes(doc, scoped)}} : TRUE

\* ApplyPreview: the merge, and the subscription with the name it had.
ApplyPreview(doc, p, incoming) ==
  LET m == MergeSubscriptionNodes(doc, p, incoming)
      sub == [name |-> IF p \in DOMAIN doc.subs THEN doc.subs[p].name ELSE NoName,
              live |-> Len(incoming), gone |-> 0]
  IN [m EXCEPT !.doc.subs = (p :> sub) @@ @]

-----------------------------------------------------------------------------
(* The operations on one node                                              *)

SetActiveNode(doc, id) == [doc EXCEPT !.active = id]

\* UpsertNode.  A node that is there is replaced in the shared array.
UpsertNode(doc, node) ==
  LET at == SelectInSeq(doc.nodes, LAMBDA n : n.id = node.id)
      nodes == IF at = 0 THEN Append(doc.nodes, node)
                         ELSE [doc.nodes EXCEPT ![at] = node]
  IN [doc    |-> [doc EXCEPT !.nodes = nodes,
                             !.active = IF @ = NoId /\ ~node.stale THEN node.id ELSE @],
      caller |-> IF at = 0 THEN doc.nodes ELSE nodes]

StripNode(nodes, id) ==
  [i \in DOMAIN nodes |-> IF nodes[i].id = id THEN [nodes[i] EXCEPT !.name = NoName]
                                              ELSE nodes[i]]

\* nodeUpsertOnlyNonRuntimeMetadataChanged: its verdict, and next as it leaves
\* it.  The comparable copies share their arrays with the documents.
CompareUpsert(current, next, id) ==
  LET a == SelectInSeq(current.nodes, LAMBDA n : n.id = id)
      b == SelectInSeq(next.nodes, LAMBDA n : n.id = id)
  IN IF a = 0 \/ b = 0 \/ ~SameProjection(current.nodes[a], next.nodes[b])
       THEN [only |-> FALSE, next |-> next]
       ELSE LET stripped == [next EXCEPT !.nodes = StripNode(@, id)]
            IN [only |-> [current EXCEPT !.nodes = StripNode(@, id)] = stripped,
                next |-> stripped]

RemoveNode(doc, id) ==
  LET nodes == Those(doc.nodes, {i \in DOMAIN doc.nodes : doc.nodes[i].id # id})
  IN [doc EXCEPT !.nodes = nodes,
                 !.active = IF @ = id THEN FirstLive(nodes) ELSE @]

-----------------------------------------------------------------------------
(* What may be stored                                                      *)

\* IsDisallowedSubscriptionEndpoint, for a node of a subscription
Disallowed(n) == n.source # "manual" /\ n.out \in LocalOuts

\* Normalize: what makes one node invalid
NodeRefused(n) ==
  \/ n.out \in BadOuts
  \/ n.source = "manual" /\ n.stale
  \/ Disallowed(n)

\* Two nodes with one id.
Clash(nodes) == \E i, j \in DOMAIN nodes : i # j /\ nodes[i].id = nodes[j].id

\* validateProfileProjectionConfig: the subscription of a node is there.
Orphan(n, subs) == n.source # "manual" /\ n.source \notin DOMAIN subs

\* Normalize, and Validate of the configuration that is made of the document
Refused(doc) ==
  \/ doc.settings \in BadSettings
  \/ Clash(doc.nodes)
  \/ \E i \in DOMAIN doc.nodes :
       NodeRefused(doc.nodes[i]) \/ Orphan(doc.nodes[i], doc.subs)

Count(nodes, p, stale) ==
  Cardinality({i \in DOMAIN nodes : nodes[i].source = p /\ nodes[i].stale = stale})

NormalizeSubscriptions(subs, nodes) ==
  [p \in DOMAIN subs |-> [name |-> subs[p].name,
                          live |-> Count(nodes, p, FALSE),
                          gone |-> Count(nodes, p, TRUE)]]

\* A node without a name is called after its server.
NormalizeNode(n) ==
  [id |-> n.id, source |-> n.source, link |-> n.link, out |-> n.out,
   stale |-> n.stale, name |-> IF n.name = NoName THEN "server" ELSE n.name]

NormalizeNodes(nodes) == [i \in DOMAIN nodes |-> NormalizeNode(nodes[i])]

\* Mutant: a stale active node is left as it is.
NormalizeWithoutRepair(doc) ==
  [nodes    |-> NormalizeNodes(doc.nodes),
   active   |-> doc.active,
   subs     |-> NormalizeSubscriptions(doc.subs, doc.nodes),
   settings |-> doc.settings]

Normalize(doc) ==
  [nodes    |-> NormalizeNodes(doc.nodes),
   active   |-> IF doc.active = NoId THEN NoId ELSE RepairActive(doc.nodes, doc.active),
   subs     |-> NormalizeSubscriptions(doc.subs, doc.nodes),
   settings |-> doc.settings]

EmptyDocument(settings) ==
  [nodes |-> <<>>, active |-> NoId, subs |-> <<>>, settings |-> settings]
=============================================================================
