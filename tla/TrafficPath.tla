---------------------------- MODULE TrafficPath -----------------------------
(***************************************************************************)
(* The path of a connection: the rules of the kernel (AppRouting) and the  *)
(* configuration of sing-box (Renderer), which a start builds from one     *)
(* configuration, while apps are installed and a network change builds the *)
(* kernel's rules anew.                                                    *)
(***************************************************************************)
EXTENDS AppRouting, Renderer

CONSTANTS
  NodeConfigs,    \* configurations of a device whose sources of packages work
  AppConfigs      \* configurations of a device whose sources may fail or lag

Configs == NodeConfigs \cup AppConfigs

\* No two nodes have one id (profile.Normalize); what an id or the name of a group leaves
\* is words, or nothing.
\* What a rule says of everybody and of anywhere is no package and no destination; the
\* lists of private and of loopback addresses hold no names (buildRoute gives them as
\* ip_cidr, and DNS has none of them).
ASSUME TrafficPathAssumption ==
  /\ IsFiniteSet(Packages) /\ Packages \cap Everybody = {}
  /\ Names \cap (Class["loopback"] \cup Class["lan"]) = {}
  /\ Anywhere \cap UNION {Class[k] : k \in DOMAIN Class} = {}
  /\ {"loopback", "lan", "ads", "russia", "china"} \subseteq DOMAIN Class
  /\ \A c \in Configs :
       /\ c.nodes \in Seq(ToSet(c.nodes))
       /\ \A i, j \in DOMAIN c.nodes : c.nodes[i].id = c.nodes[j].id => i = j
       /\ \A n \in ToSet(c.nodes) : SlugOf[n.id] \in Seq(ToSet(SlugOf[n.id]))
       /\ \A n \in ToSet(c.nodes) : n.group # NoGroup => BaseOf[n.group] \in Seq(ToSet(BaseOf[n.group]))
       /\ c.apps \in {"all", "whitelist", "blacklist", "off"}
       /\ c.direct \cup c.packages \cup DOMAIN c.groupOf \subseteq Packages
       /\ Anywhere \cap (c.customDirect \cup c.customProxy \cup c.customBlock \cup Endpoints(c)) = {}

VARIABLES
  cfg,            \* the configuration
  faulty,         \* the sources of packages may fail or lag
  installed,      \* the packages that are installed
  box,            \* the configuration sing-box runs with, or NotRendered
  env,            \* the environment the scripts ran with
  read            \* history: what the sources said when env was built

setup == <<cfg, faulty>>
pathVars == <<setup, installed, box, env, read>>

NotRendered == [outbounds |-> <<>>, rules |-> <<>>, final |-> <<>>, ruleSets |-> {}, names |-> <<>>, servers |-> {}]
NothingRead == [system |-> {}, always |-> <<>>, selected |-> <<>>]

PathInit ==
  /\ \/ cfg \in NodeConfigs /\ faulty = FALSE
     \/ cfg \in AppConfigs /\ faulty = TRUE
  /\ installed = Packages \ Late
  /\ box = NotRendered /\ env = NoRules /\ read = NothingRead

\* BuildScriptEnv, and the scripts with what it gives.
ApplyRules ==
  \E system \in SystemReadings(cfg, installed, faulty), always, selected \in Readings(installed, faulty) :
    /\ read' = [system |-> system, always |-> always, selected |-> selected]
    /\ env' = BuildEnv(cfg, system, always, selected)

Start ==
  /\ box = NotRendered /\ ~RenderFails(cfg)
  /\ box' = Render(cfg)
  /\ ApplyRules
  /\ UNCHANGED <<setup, installed>>

\* A start that is refused leaves the kernel as it is.
StartFails ==
  /\ box = NotRendered /\ RenderFails(cfg)
  /\ UNCHANGED pathVars

\* The network changed: the rules are built again, sing-box is left alone.
Reapply ==
  /\ box # NotRendered
  /\ ApplyRules
  /\ UNCHANGED <<setup, installed, box>>

Stop ==
  /\ box # NotRendered
  /\ box' = NotRendered /\ env' = NoRules /\ read' = NothingRead
  /\ UNCHANGED <<setup, installed>>

Install(p) ==
  /\ p \in Late \ installed
  /\ installed' = installed \cup {p}
  /\ UNCHANGED <<setup, box, env, read>>

PathNext == Start \/ StartFails \/ Reapply \/ Stop \/ \E p \in Packages : Install(p)

PathSpec == PathInit /\ [][PathNext]_pathVars

-----------------------------------------------------------------------------
(* What comes out                                                          *)

Dests == UNION {Class[k] : k \in DOMAIN Class} \cup Names \cup cfg.customDirect
           \cup cfg.customProxy \cup cfg.customBlock \cup Endpoints(cfg)

Running == box # NotRendered

\* Where a connection of the package to the destination leaves the device.
Path(p, dest) == IF Running /\ Marked(env, p, dest) THEN Routed(box, p, dest) ELSE Direct

Tags == {box.outbounds[i].tag : i \in DOMAIN box.outbounds}

\* The nodes that an outbound may use, in the end: at most a group inside the proxy,
\* and the nodes of either through its choice by latency.
Members(tags) ==
  tags \cup UNION {ToSet(box.outbounds[i].members) : i \in {k \in DOMAIN box.outbounds : box.outbounds[k].tag \in tags}}
Leaves(tag) ==
  {t \in Members(Members(Members({tag}))) :
     \E i \in DOMAIN box.outbounds : box.outbounds[i].tag = t /\ box.outbounds[i].members = <<>>}

\* The ids of the nodes that are rendered differ in more than what the tags leave of
\* them: 'Node A' and 'node-a' do not, and nothing numbers the second.
NodesDiffer ==
  \A i, j \in DOMAIN RenderableNodes(cfg) :
    NodeTag(cfg, RenderableNodes(cfg)[i].id) = NodeTag(cfg, RenderableNodes(cfg)[j].id) => i = j

\* The names of groups differ in more than what the tags leave of them, and none is
\* called like the choice by latency of another.
GroupOf(i) == UsableNodes(cfg)[i].group
GroupsDiffer ==
  \A i, j \in DOMAIN UsableNodes(cfg) :
    GroupOf(i) # NoGroup /\ GroupOf(j) # NoGroup =>
      /\ Base(GroupOf(i)) = Base(GroupOf(j)) => GroupOf(i) = GroupOf(j)
      /\ Base(GroupOf(i)) # Append(Base(GroupOf(j)), "auto")

\* Every group that an app uses has a node that is rendered, or none that is usable.
Rendered(group) == \E i \in DOMAIN RenderableNodes(cfg) : RenderableNodes(cfg)[i].group = group
GroupsAreRendered ==
  \A p \in Grouped(cfg) : Rendered(cfg.groupOf[p]) \/ \A i \in DOMAIN UsableNodes(cfg) : GroupOf(i) # cfg.groupOf[p]

-----------------------------------------------------------------------------
(* Properties                                                              *)

\* sing-box takes what it is given: the members and the start of every selector, the
\* outbound of every rule and of every name server, and every list exist, although three
\* functions of the renderer name tags independently (buildOutbounds, buildRoute,
\* buildDNS).  No two outbounds have one tag when the nodes differ, although two groups may
\* leave the same base (buildGroupOutboundPlans numbers the second; of three the last two
\* would collide).
SingBoxAccepts ==
  Running =>
    /\ NodesDiffer => Cardinality(Tags) = Len(box.outbounds)
    /\ GroupsDiffer /\ GroupsAreRendered =>
         /\ \A i \in DOMAIN box.outbounds :
              LET o == box.outbounds[i]
              IN  /\ ToSet(o.members) \subseteq Tags
                  /\ o.default # <<>> => o.default \in ToSet(o.members)
         /\ \A i \in DOMAIN box.rules : box.rules[i].out \in Tags \cup {Reject}
         /\ box.final \in Tags
         /\ \A server \in box.servers : server[2] \in Tags
         /\ \A i \in DOMAIN box.names : box.names[i].answer \in {server[1] : server \in box.servers} \cup {Empty}

\* A start uses the active node, whatever else is listed: directly, or as what the
\* selector of all nodes starts with.  Without one, or with one that is not usable, it
\* chooses by latency.  The Xray sidecar carries one node, behind one port: that node
\* has an outbound, and no other node that needs Xray has one.
StartUsesActiveNode ==
  Running =>
    LET profiles == Profiles(cfg)
        proxy == box.outbounds[SelectInSeq(box.outbounds, LAMBDA o : o.tag = Proxy)]
        active == {i \in DOMAIN profiles : profiles[i].id = cfg.active /\ cfg.active # ""}
    IN  /\ Len(profiles) > 1 =>
             proxy.default \in {profiles[i].tag : i \in active} \cup (IF active = {} THEN {AutoGroup} ELSE {})
        /\ NeedsXray(cfg) /\ UsableNodes(cfg) # <<>> => \E i \in DOMAIN profiles : profiles[i].id = ResolveActive(cfg).id
        /\ \A n \in ToSet(cfg.nodes), i \in DOMAIN profiles :
             n.kind = "xhttp" /\ profiles[i].id = n.id => n.id = ResolveActive(cfg).id

\* No connection to a server of a node goes through a node, whoever makes it, and
\* the names of the servers are not asked for through one, either: it would take the
\* proxy to reach the proxy.
NoProxyLoop ==
  Running =>
    \A server \in Endpoints(cfg) :
      /\ \A p \in Packages : Path(p, server) \in {Direct, Reject}
      /\ server \in Names => \A q \in Questions : Answered(box, q, server) \in {"direct-dns"} \cup (IF cfg.ipv6 = "off" /\ q = "AAAA" THEN {Empty} ELSE {})

\* An app that must not be proxied is not, and its names are not asked for through
\* sing-box: one the user or the daemon keeps direct, one that a whitelist does not
\* name or a blacklist names, and every app when routing is direct.  The kernel lets it
\* pass when a source knew every package asked for, or all that answered knew this one;
\* an app of the system, moreover, when the list of those could be read.  When not (it was
\* installed later, or the sources failed), the rules of sing-box keep the apps the user
\* named out of the nodes, except for the destinations the user sends there.
KnownWhenBuilt(p, requested, readings) ==
  \/ p \in requested /\ \E i \in DOMAIN readings : requested \subseteq readings[i]
  \/ /\ \E i \in DOMAIN readings : p \in readings[i]
     /\ \A i \in DOMAIN readings : readings[i] = {} \/ p \in readings[i]

KeptDirect(p) ==
  \/ /\ p \in cfg.direct \/ (p \in BuiltIn \cup read.system /\ p \notin cfg.excluded)
     /\ KnownWhenBuilt(p, cfg.direct \cup read.system, read.always)
  \/ cfg.mode = "direct" \/ cfg.apps = "off"
  \/ cfg.apps = "whitelist" /\ p \notin cfg.packages
  \/ cfg.apps = "blacklist" /\ p \in cfg.packages /\ KnownWhenBuilt(p, cfg.packages, read.selected)

DirectAppsGoDirect ==
  Running =>
    \A p \in installed :
      /\ KeptDirect(p) => ~Redirected(env, p) /\ \A dest \in Dests : Path(p, dest) = Direct
      /\ p \in cfg.direct => \A dest \in Dests \ cfg.customProxy : Path(p, dest) \in {Direct, Reject}

\* An app with a group uses the nodes of that group and no others, and an app that is
\* picked in rules mode uses the nodes, whatever the lists say of its destination.
AppUsesItsNodes ==
  Running /\ NodesDiffer /\ GroupsDiffer /\ GroupsAreRendered =>
    \A p \in installed \ cfg.direct, dest \in Dests \ (Endpoints(cfg) \cup Class["loopback"]) :
      LET nodes == {i \in DOMAIN Profiles(cfg) : Profiles(cfg)[i].group = cfg.groupOf[p]}
      IN  Marked(env, p, dest) =>
            /\ p \in Grouped(cfg) /\ nodes # {} => Leaves(Path(p, dest)) = {Profiles(cfg)[i].tag : i \in nodes}
            /\ p \in cfg.packages \ Grouped(cfg) /\ cfg.mode = "rules" /\ cfg.apps = "all" => Path(p, dest) = Proxy

\* Where the question for the address of a name goes: to a node, directly, or nowhere.
Asked(name) ==
  LET answer == Answered(box, "A", name)
  IN  IF answer = Empty THEN Reject ELSE (CHOOSE server \in box.servers : server[1] = answer)[2]

\* A rule for apps is about the package.
HasOwnRule(p) == \E i \in DOMAIN box.rules : box.rules[i].who # Everybody /\ p \in box.rules[i].who

\* The names that a list sends another way than to the nodes, whoever asks.
ListedNames ==
  (UNION {Listed(cfg, kind) : kind \in {"ads", "russia", "china"}})
    \cup cfg.customDirect \cup cfg.customBlock

\* The DNS of an app is redirected exactly when its connections are marked: two scripts
\* decide it from different variables of one environment.  And the rules for names, in a
\* second function, repeat those for connections:
\*  - for an app that no rule for apps is about, the question goes where the connection
\*    goes: through the proxy, directly, or nowhere;
\*  - for every other app whose connection goes through the nodes, the question goes
\*    through the proxy as well, but for the names that a list sends another way: a
\*    question says nothing of who asks.
\* Whatever the app, with an Xray sidecar the questions that would go through the proxy go
\* directly.  A name that is to be proxied and to be blocked is the exception: its
\* connections are proxied, its questions answered empty.
DnsAgreesWithRoute ==
  Running =>
    /\ \A uid \in Uids, dest \in Dests \ Reserved : Redirected(env, uid) <=> Marked(env, uid, dest)
    /\ cfg.mode # "direct" /\ ~cfg.fakeip =>
         \A p \in Packages, name \in Names \ (cfg.customProxy \cap cfg.customBlock) :
           LET out == Routed(box, p, name)
               proxy == IF NeedsXray(cfg) THEN Direct ELSE Proxy
           IN  /\ ~HasOwnRule(p) => Asked(name) = IF out = Proxy THEN proxy ELSE out
               /\ out \notin {Direct, Reject} => Asked(name) = proxy \/ (HasOwnRule(p) /\ name \in ListedNames)
=============================================================================
