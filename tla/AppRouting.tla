----------------------------- MODULE AppRouting -----------------------------
(***************************************************************************)
(* Which apps the kernel hands to sing-box: the packages of the            *)
(* configuration become UIDs (core/scripts.go), the UIDs become the        *)
(* environment of the scripts (runtime/root/reload.go), and the scripts    *)
(* become rules: a mark on the connections of an app (iptables.sh) and a   *)
(* redirection of its DNS (dns.sh).                                        *)
(*                                                                         *)
(* A UID is the package it belongs to: no two packages share one, and the  *)
(* users of the device have the same packages.                             *)
(***************************************************************************)
EXTENDS FiniteSets, SequencesExt

CONSTANTS
  Packages,       \* the packages an app may have
  System,         \* those that came with the system
  BuiltIn,        \* those the daemon keeps out of the proxy by itself
  Late,           \* those that are installed while the daemon runs
  NetworkStack,   \* the UID of Android's own network stack
  Reserved        \* the destinations that are never marked: private and special ranges

ASSUME AppRoutingAssumption ==
  /\ System \cup BuiltIn \cup Late \subseteq Packages
  /\ NetworkStack \notin Packages

Uids == Packages \cup {NetworkStack}

-----------------------------------------------------------------------------
(* Packages to UIDs                                                        *)

\* A reading is what one source says is installed; {} is a source that failed,
\* and a source that lists nothing counts as failed.  packages.list may lag
\* behind an installation; the two ways to ask the package manager do not.
Readings(installed, faulty) ==
  LET asked == IF faulty THEN {installed, {}} ELSE {installed}
      listed == IF faulty THEN asked \cup {installed \ Late} ELSE asked
  IN  {<<l, c, s>> : l \in listed, c \in asked, s \in asked}

\* loadSystemPackageSet asks the package manager for the packages of the system, in two
\* ways; when both fail it knows of none.
SystemReadings(cfg, installed, faulty) ==
  IF ~cfg.system THEN {{}}
  ELSE {System \cap installed} \cup (IF faulty THEN {{}} ELSE {})

\* The sources are tried in turn until one knows every requested package; of those
\* tried, the one that misses fewest is taken, and all UIDs come from that one.
\* Mutant: the first source that answers is taken.
BestFirst(readings, requested) ==
  FoldLeft(LAMBDA best, reading : IF reading = {} \/ best # {} THEN best ELSE reading, {}, readings)

Best(readings, requested) ==
  FoldLeft(LAMBDA best, reading :
             IF \/ reading = {}
                \/ best # {} /\ Cardinality(requested \ best) <= Cardinality(requested \ reading)
             THEN best ELSE reading,
           {}, readings)

\* The packages that must not be proxied.  An exclusion takes back what the daemon
\* adds by itself, never what the user named.
\* Mutant: an exclusion takes back the user's choice, too.
AlwaysDirectUnlessExcluded(cfg, system) == (cfg.direct \cup system \cup BuiltIn) \ cfg.excluded

AlwaysDirect(cfg, system) == cfg.direct \cup ((system \cup BuiltIn) \ cfg.excluded)

ResolveAlwaysDirect(cfg, system, readings) ==
  Best(readings, cfg.direct \cup system) \cap AlwaysDirect(cfg, system)

ResolvePackages(cfg, readings) == Best(readings, cfg.packages) \cap cfg.packages

-----------------------------------------------------------------------------
(* UIDs to the environment of the scripts                                  *)

Environment(app, proxy, direct, bypass, scope) ==
  [app |-> app, proxy |-> proxy, direct |-> direct, bypass |-> bypass, scope |-> scope]

\* No scripts have run: nothing is marked and nothing redirected.
NoRules == Environment("off", {}, {}, {}, "off")

\* The environment for an app mode.
EnvOf(app, uids, bypass) ==
  CASE app = "whitelist" -> Environment("whitelist", uids, {}, bypass, "uids")
    [] app = "blacklist" -> Environment("blacklist", {}, uids, bypass, "all_except_uids")
    [] app = "off"       -> Environment("off", {}, {}, bypass, "off")
    [] app = "all"       -> Environment("all", {}, {}, bypass, "all")

\* always and selected are the readings of the two resolutions: each asks anew.
\* Mutant: the split-tunnel mode applies whatever the routing mode is.
BuildEnvOfAppMode(cfg, system, always, selected) ==
  EnvOf(cfg.apps, ResolvePackages(cfg, selected),
        {NetworkStack} \cup ResolveAlwaysDirect(cfg, system, always))

BuildEnv(cfg, system, always, selected) ==
  EnvOf(IF cfg.mode = "direct" THEN "off" ELSE cfg.apps,
        ResolvePackages(cfg, selected),
        {NetworkStack} \cup ResolveAlwaysDirect(cfg, system, always))

-----------------------------------------------------------------------------
(* The environment to rules                                                *)

\* The mangle table marks a connection of the UID to the destination, so that it
\* reaches sing-box.
Marked(env, uid, dest) ==
  /\ uid \notin env.bypass
  /\ dest \notin Reserved
  /\ \/ env.app = "all"
     \/ env.app = "whitelist" /\ uid \in env.proxy
     \/ env.app = "blacklist" /\ uid \notin env.direct

\* The nat table redirects the DNS of the UID to sing-box.
\* Mutant: the apps that are always direct have their DNS redirected.
RedirectedWithBypass(env, uid) ==
  \/ env.scope = "all"
  \/ env.scope = "uids" /\ uid \in env.proxy
  \/ env.scope = "all_except_uids" /\ uid \notin env.direct

Redirected(env, uid) ==
  /\ uid \notin env.bypass
  /\ \/ env.scope = "all"
     \/ env.scope = "uids" /\ uid \in env.proxy
     \/ env.scope = "all_except_uids" /\ uid \notin env.direct

=============================================================================
