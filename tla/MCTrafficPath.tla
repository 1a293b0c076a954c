--------------------------- MODULE MCTrafficPath ----------------------------
(* Instances of TrafficPath for TLC: three families of configurations.     *)
EXTENDS TrafficPath

CONSTANTS
  chat, bank, sys, new,                 \* packages
  gA, gB, gC,                           \* groups
  e1, e2, lo, lan1, ad1, ru1, cn1, x1, y1  \* destinations

\* The ids "a" and "A" leave the same, and "c" leaves nothing.
McSlugOf == ("a" :> <<"a">>) @@ ("A" :> <<"a">>) @@ ("b" :> <<"b">>) @@ ("c" :> <<>>)

McBaseOf == (gA :> <<"eu">>) @@ (gB :> <<"eu">>) @@ (gC :> <<>>)

\* The server e2 has a name that is on the list of advertisers.
McClass == [loopback |-> {lo}, lan |-> {lan1}, ads |-> {ad1, e2}, russia |-> {ru1}, china |-> {cn1}]

Node(id, group, kind, addr) == [id |-> id, group |-> group, kind |-> kind, addr |-> addr]

Plain ==
  [nodes |-> <<Node("a", gA, "plain", e1), Node("b", gB, "plain", e2)>>, active |-> "a", own |-> NoAddress, ownKind |-> "plain",
   mode |-> "rules", apps |-> "all", packages |-> {}, direct |-> {}, excluded |-> {}, system |-> FALSE,
   groupOf |-> [p \in Packages |-> CASE p = chat -> gA [] p = new -> gB [] p = sys -> gC [] p = bank -> NoGroup],
   lan |-> TRUE, ads |-> TRUE, russia |-> TRUE, china |-> TRUE, customDirect |-> {}, customProxy |-> {},
   customBlock |-> {}, fakeip |-> FALSE, ipv6 |-> "on", api |-> "off"]

Some(id, addr, groups) == {Node(id, g, k, addr) : g \in groups, k \in {"plain", "xhttp", "bad", "stale"}}
NodeLists ==
  {<<>>} \cup {<<x>> : x \in Some("a", e1, {NoGroup, gA, gC})}
  \cup {<<x, y>> : x \in Some("a", e1, {NoGroup, gA, gC}), y \in Some("b", e2, {gA, gB, gC})}
  \cup {<<x, y, z>> : x \in Some("a", e1, {gA, gB}), y \in Some("b", e2, {NoGroup, gA}), z \in Some("c", e1, {gA, gB, gC})}
  \cup {<<x, y>> : x \in Some("a", e1, {gA}), y \in Some("A", e2, {NoGroup, gA, gB})}
ByNodes ==
  {[Plain EXCEPT !.nodes = n, !.active = a, !.own = IF a = "" THEN e1 ELSE NoAddress] :
     n \in NodeLists, a \in {"", "a", "b"}}
  \cup {[Plain EXCEPT !.nodes = <<>>, !.own = e2, !.ownKind = k] : k \in {"plain", "xhttp", "bad"}}
  \cup {[Plain EXCEPT !.api = a] : a \in {"secret", "no secret"}}

Customs == {<<d, p, b>> : d, p, b \in {{}, {x1}}} \cup {<<{ru1}, {}, {x1}>>, <<{}, {ru1}, {y1}>>, <<{e2}, {y1}, {cn1}>>}
ByRules ==
  {[Plain EXCEPT !.mode = m, !.apps = a,
                 !.packages = (IF r[1] THEN {chat} ELSE {}) \cup (IF n = "picked" THEN {new} ELSE {}),
                 !.direct = (IF r[2] THEN {chat} ELSE {}) \cup (IF n = "direct" THEN {new} ELSE {}),
                 !.groupOf = [p \in Packages |-> IF p = chat /\ r[3] THEN gA ELSE NoGroup],
                 !.lan = f, !.ads = f, !.russia = f, !.china = f,
                 !.customDirect = c[1], !.customProxy = c[2], !.customBlock = c[3],
                 !.fakeip = (v = "fakeip"), !.ipv6 = IF v = "v4" THEN "off" ELSE "on"] :
     m \in {"rules", "direct"}, a \in {"all", "whitelist"}, r \in BOOLEAN \X BOOLEAN \X BOOLEAN,
     n \in {"picked", "direct", "none"}, f \in BOOLEAN, c \in Customs, v \in {"plain", "fakeip", "v4"}}
  \cup {[Plain EXCEPT !.nodes[1].kind = "xhttp", !.packages = p, !.direct = {chat}, !.customProxy = {ru1}, !.customDirect = {x1}] :
          p \in {{}, {new}}}

McNodeConfigs == ByNodes \cup ByRules

McAppConfigs ==
  {[Plain EXCEPT !.mode = m[1], !.apps = m[2], !.packages = p, !.direct = d, !.excluded = x[1], !.system = x[2],
                 !.customProxy = {x1}, !.groupOf = [q \in Packages |-> NoGroup]] :
     m \in {<<"rules", "all">>, <<"rules", "whitelist">>, <<"all", "blacklist">>, <<"all", "off">>, <<"direct", "whitelist">>},
     p \in {{}, {chat, new}, {new, sys}}, d \in {{}, {new}, {chat, new}},
     x \in {<<{}, FALSE>>, <<{}, TRUE>>, <<{bank, new, sys}, TRUE>>}}

=============================================================================
