------------------------------ MODULE Renderer ------------------------------
(***************************************************************************)
(* What a configuration becomes for sing-box (config/renderer.go): the     *)
(* outbounds with their selectors and groups, the rules that pick an       *)
(* outbound for a connection, and the rules that pick a server for a name. *)
(*                                                                         *)
(* A node is [id, group, kind, addr].  Its kind is what the rest of it     *)
(* amounts to: "plain"; "xhttp", which needs the Xray sidecar; "bad", for  *)
(* which no outbound can be built; "stale", or without server or port.     *)
(* The configuration also has a node of its own, cfg.own and cfg.ownKind.  *)
(* A tag is the sequence of the words that the hyphens of its text join;   *)
(* what a tag leaves of an id or of a name is given: it is lower-cased,    *)
(* and what is no letter, digit, hyphen or underscore becomes a hyphen.    *)
(***************************************************************************)
EXTENDS Naturals, FiniteSets, SequencesExt, Selection

CONSTANTS
  SlugOf,       \* SlugOf[id]: the words that are left of the id of a node
  NoGroup,      \* the group of a node, or of an app, that has none
  BaseOf,       \* BaseOf[group]: the words that are left of its name
  NoAddress,    \* the configuration names no node of its own
  Names,        \* the destinations that are host names
  Class         \* Class[kind]: the destinations of a built-in list

Proxy == <<"proxy">>
Direct == <<"direct">>
AutoGroup == <<"auto">>
Reject == <<"reject">>

-----------------------------------------------------------------------------
(* Nodes                                                                   *)

UsableNodes(cfg) == Those(cfg.nodes, {i \in DOMAIN cfg.nodes : cfg.nodes[i].kind # "stale"})

\* The selected node, or the first usable one.
ResolveActive(cfg) ==
  LET usable == UsableNodes(cfg)
      i == SelectInSeq(usable, LAMBDA node : node.id = cfg.active)
  IN  usable[IF i = 0 THEN 1 ELSE i]

\* ResolveProfile: that node, or the configuration's own when none is usable.
NeedsXray(cfg) == (IF UsableNodes(cfg) = <<>> THEN cfg.ownKind ELSE ResolveActive(cfg).kind) = "xhttp"

\* A node that needs Xray is rendered only while it is the active one.
\* Mutant: every node that needs Xray is rendered.
RenderableWithEveryXray(cfg) ==
  LET usable == UsableNodes(cfg)
  IN  Those(usable, {i \in DOMAIN usable : usable[i].kind # "bad"})

RenderableNodes(cfg) ==
  LET usable == UsableNodes(cfg)
  IN  Those(usable, {i \in DOMAIN usable :
        /\ usable[i].kind # "bad"
        /\ usable[i].kind = "xhttp" => usable[i].id = ResolveActive(cfg).id})

ActiveIsInvalid(cfg) ==
  \E i \in DOMAIN UsableNodes(cfg) : UsableNodes(cfg)[i].kind = "bad" /\ UsableNodes(cfg)[i].id = cfg.active

\* The address of the configuration itself counts only when no node is usable.
RenderFails(cfg) ==
  \/ cfg.api = "no secret"
  \/ ActiveIsInvalid(cfg)
  \/ UsableNodes(cfg) # <<>> /\ RenderableNodes(cfg) = <<>>
  \/ UsableNodes(cfg) = <<>> /\ (cfg.own = NoAddress \/ cfg.ownKind = "bad")

\* The tag of a node: what is left of its id, or its place among the nodes when nothing
\* is.  Two ids may leave the same.
NodeTag(cfg, id) ==
  <<"node">> \o (IF SlugOf[id] # <<>> THEN SlugOf[id]
                 ELSE <<"node", ToString(SelectInSeq(cfg.nodes, LAMBDA node : node.id = id))>>)

\* The nodes that get an outbound, each with its tag.  One alone is the proxy itself.
Profiles(cfg) ==
  LET nodes == IF UsableNodes(cfg) = <<>>
               THEN <<[id |-> "", group |-> NoGroup, kind |-> cfg.ownKind, addr |-> cfg.own]>>
               ELSE RenderableNodes(cfg)
  IN  [i \in DOMAIN nodes |->
         [id |-> nodes[i].id, group |-> nodes[i].group,
          tag |-> IF Len(nodes) = 1 THEN Proxy ELSE NodeTag(cfg, nodes[i].id)]]

-----------------------------------------------------------------------------
(* Groups                                                                  *)

\* What is left of the name of a group, for its tags.
Base(group) == IF BaseOf[group] = <<>> THEN <<"default">> ELSE BaseOf[group]

\* A plan for each group, in the order in which the nodes name them.  A base that
\* is taken gets a number.
\* Mutant: the bases of two groups may be the same.
AddToPlansUnnumbered(plans, profile) ==
  LET i == SelectInSeq(plans, LAMBDA plan : plan.name = profile.group)
  IN  IF profile.group = NoGroup THEN plans
      ELSE IF i # 0 THEN [plans EXCEPT ![i].tags = Append(@, profile.tag)]
      ELSE Append(plans, [name |-> profile.group, base |-> Base(profile.group), tags |-> <<profile.tag>>])

AddToPlans(plans, profile) ==
  LET i == SelectInSeq(plans, LAMBDA plan : plan.name = profile.group)
      base == Base(profile.group)
      count == Cardinality({k \in DOMAIN plans : plans[k].base = base})
  IN  IF profile.group = NoGroup THEN plans
      ELSE IF i # 0 THEN [plans EXCEPT ![i].tags = Append(@, profile.tag)]
      ELSE Append(plans, [name |-> profile.group,
                          base |-> IF count > 0 THEN Append(base, ToString(count + 1)) ELSE base,
                          tags |-> <<profile.tag>>])

GroupPlans(profiles) == FoldLeft(AddToPlans, <<>>, profiles)

GroupTag(plan) == <<"group">> \o plan.base

-----------------------------------------------------------------------------
(* Outbounds                                                               *)

Outbound(tag, members, default) == [tag |-> tag, members |-> members, default |-> default]
Single(tag) == Outbound(tag, <<>>, <<>>)

\* A group of several nodes has a choice by latency, and a selector that starts with it.
GroupOutbounds(plan) ==
  LET auto == Append(GroupTag(plan), "auto")
  IN  IF Len(plan.tags) > 1
      THEN <<Outbound(auto, plan.tags, <<>>), Outbound(GroupTag(plan), <<auto>> \o plan.tags, auto)>>
      ELSE <<Outbound(GroupTag(plan), plan.tags, plan.tags[1])>>

\* What the selector of all nodes starts with.
\* Mutant: the active node is looked up among all nodes, rendered or not.
SelectorDefaultOfAny(cfg, profiles) == IF cfg.active = "" THEN AutoGroup ELSE NodeTag(cfg, cfg.active)

SelectorDefault(cfg, profiles) ==
  LET i == SelectInSeq(profiles, LAMBDA profile : profile.id = cfg.active)
  IN  IF cfg.active = "" \/ i = 0 THEN AutoGroup ELSE profiles[i].tag

Outbounds(cfg) ==
  LET profiles == Profiles(cfg)
      tags == [i \in DOMAIN profiles |-> profiles[i].tag]
      plans == GroupPlans(profiles)
      groups == [i \in DOMAIN plans |-> GroupTag(plans[i])]
  IN  [i \in DOMAIN tags |-> Single(tags[i])]
      \o (IF Len(tags) > 1
          THEN <<Outbound(AutoGroup, tags, <<>>),
                 Outbound(Proxy, <<AutoGroup>> \o tags \o groups, SelectorDefault(cfg, profiles))>>
          ELSE <<>>)
      \o FlattenSeq([i \in DOMAIN plans |-> GroupOutbounds(plans[i])])
      \o <<Single(Direct)>>

-----------------------------------------------------------------------------
(* Routes                                                                  *)

\* The destinations that are the servers of usable nodes, or of the configuration.
Endpoints(cfg) ==
  LET usable == UsableNodes(cfg)
  IN  IF usable = <<>> THEN {cfg.own} \ {NoAddress} ELSE {usable[i].addr : i \in DOMAIN usable}

Everybody == {"everybody"}
Anywhere == {"anywhere"}

\* A rule that is left out when it names nobody or nothing.
Rule(who, to, out) ==
  IF who # {} /\ to # {} THEN <<[who |-> who, to |-> to, out |-> out]>> ELSE <<>>

\* The destinations of a built-in list that the configuration turns on.
Listed(cfg, kind) == IF cfg[kind] THEN Class[kind] ELSE {}

Grouped(cfg) == {p \in DOMAIN cfg.groupOf : cfg.groupOf[p] # NoGroup}

\* In rules mode the apps that are picked use the proxy whatever the lists say.
\* Mutant: also those that are always direct.
ForcedRuleForAll(cfg) ==
  Rule(IF cfg.mode = "rules" /\ cfg.apps = "all" THEN cfg.packages \ Grouped(cfg) ELSE {},
       Anywhere, Proxy)

ForcedRule(cfg) ==
  Rule(IF cfg.mode = "rules" /\ cfg.apps = "all"
       THEN cfg.packages \ (cfg.direct \cup Grouped(cfg)) ELSE {},
       Anywhere, Proxy)

\* The apps of a group use its selector.  The plans are those of the usable nodes.
GroupRules(cfg) ==
  LET plans == GroupPlans([i \in DOMAIN UsableNodes(cfg) |->
                             [id |-> UsableNodes(cfg)[i].id, group |-> UsableNodes(cfg)[i].group,
                              tag |-> NodeTag(cfg, UsableNodes(cfg)[i].id)]])
      apps(i) == {p \in Grouped(cfg) \ cfg.direct : cfg.groupOf[p] = plans[i].name}
  IN  FlattenSeq([i \in DOMAIN plans |-> Rule(apps(i), Anywhere, GroupTag(plans[i]))])

\* What the lists of the configuration say, in the order of the rules.
ListRules(cfg) ==
     Rule(Everybody, Listed(cfg, "lan"), Direct)
  \o Rule(Everybody, Listed(cfg, "ads"), Reject)
  \o Rule(Everybody, Listed(cfg, "russia"), Direct)
  \o Rule(Everybody, Listed(cfg, "china"), Direct)
  \o Rule(Everybody, cfg.customDirect, Direct)
  \o Rule(Everybody, cfg.customProxy, Proxy)
  \o Rule(Everybody, cfg.customBlock, Reject)

\* Mutant: the rule for the nodes' own servers comes after those for apps.
RouteEndpointsLate(cfg) ==
     Rule(Everybody, Class["loopback"], Reject)
  \o ForcedRule(cfg) \o GroupRules(cfg)
  \o Rule(Everybody, Endpoints(cfg), Direct)
  \o ListRules(cfg) \o Rule(cfg.direct, Anywhere, Direct)

\* Mutant: the lists come before the rules for apps.
RouteListsFirst(cfg) ==
     Rule(Everybody, Class["loopback"], Reject)
  \o Rule(Everybody, Endpoints(cfg), Direct)
  \o ListRules(cfg) \o ForcedRule(cfg) \o GroupRules(cfg)
  \o Rule(cfg.direct, Anywhere, Direct)

\* The rules for connections, the first that fits counts.
Route(cfg) ==
     Rule(Everybody, Class["loopback"], Reject)
  \o Rule(Everybody, Endpoints(cfg), Direct)
  \o ForcedRule(cfg) \o GroupRules(cfg)
  \o ListRules(cfg) \o Rule(cfg.direct, Anywhere, Direct)

Final(cfg) == IF cfg.mode = "direct" THEN Direct ELSE Proxy

\* The lists that are downloaded, directly.
RuleSets(cfg) ==
  (IF cfg.china THEN {"geoip-cn", "geosite-cn"} ELSE {}) \cup (IF cfg.ads THEN {"geosite-category-ads-all"} ELSE {})

-----------------------------------------------------------------------------
(* Names                                                                   *)

\* A rule for the questions (A or AAAA) about names; Empty is an answer without address.
Empty == "empty"
NameRule(questions, to, answer) ==
  IF to # {} THEN <<[questions |-> questions, to |-> to, answer |-> answer]>> ELSE <<>>

Questions == {"A", "AAAA"}

\* Mutant: blocked before direct.
DNSRulesBlockFirst(cfg) ==
     NameRule({"AAAA"}, IF cfg.ipv6 = "off" THEN Names ELSE {}, Empty)
  \o NameRule(Questions, Endpoints(cfg) \cap Names, "direct-dns")
  \o NameRule(Questions, Listed(cfg, "ads") \cap Names, Empty)
  \o NameRule(Questions, cfg.customBlock \cap Names, Empty)
  \o NameRule(Questions, Listed(cfg, "russia") \cap Names, "direct-dns")
  \o NameRule(Questions, Listed(cfg, "china") \cap Names, "direct-dns")
  \o NameRule(Questions, cfg.customDirect \cap Names, "direct-dns")
  \o NameRule(Questions, IF cfg.fakeip THEN Names ELSE {}, "fakeip")

\* Custom lists come in DNS as direct and block only, and in that order.
DNSRules(cfg) ==
     NameRule({"AAAA"}, IF cfg.ipv6 = "off" THEN Names ELSE {}, Empty)
  \o NameRule(Questions, Endpoints(cfg) \cap Names, "direct-dns")
  \o NameRule(Questions, Listed(cfg, "ads") \cap Names, Empty)
  \o NameRule(Questions, Listed(cfg, "russia") \cap Names, "direct-dns")
  \o NameRule(Questions, Listed(cfg, "china") \cap Names, "direct-dns")
  \o NameRule(Questions, cfg.customDirect \cap Names, "direct-dns")
  \o NameRule(Questions, cfg.customBlock \cap Names, Empty)
  \o NameRule(Questions, IF cfg.fakeip THEN Names ELSE {}, "fakeip")

\* The servers, each with the outbound it is asked through.
\* Mutant: the questions for the proxy go through it with an Xray sidecar, too.
DNSServersThroughProxy(cfg) ==
  {<<"remote-dns", Proxy>>, <<"direct-dns", Direct>>, <<"bootstrap-dns", Direct>>}
  \cup (IF cfg.fakeip THEN {<<"fakeip", Direct>>} ELSE {})

DNSServers(cfg) ==
  {<<"remote-dns", IF NeedsXray(cfg) THEN Direct ELSE Proxy>>,
   <<"direct-dns", Direct>>, <<"bootstrap-dns", Direct>>}
  \cup (IF cfg.fakeip THEN {<<"fakeip", Direct>>} ELSE {})

-----------------------------------------------------------------------------
Render(cfg) ==
  [outbounds |-> Outbounds(cfg), rules |-> Route(cfg), final |-> Final(cfg),
   ruleSets |-> RuleSets(cfg), names |-> DNSRules(cfg), servers |-> DNSServers(cfg)]

\* The outbound of a connection of the package to the destination.
Routed(box, package, dest) ==
  LET i == SelectInSeq(box.rules, LAMBDA rule :
             (rule.who = Everybody \/ package \in rule.who) /\ (rule.to = Anywhere \/ dest \in rule.to))
  IN  IF i = 0 THEN box.final ELSE box.rules[i].out

\* The server that answers the question for a name, or Empty.
Answered(box, question, name) ==
  LET i == SelectInSeq(box.names, LAMBDA rule : question \in rule.questions /\ name \in rule.to)
  IN  IF i = 0 THEN "remote-dns" ELSE box.names[i].answer

=============================================================================
