------------------------------- MODULE Startup -------------------------------
(***************************************************************************)
(* The start of an agent: main's run() under systemd (Restart=always), the   *)
(* configuration it accepts (internal/config), and the list of targets that   *)
(* it probes from then on (internal/probe).                                  *)
(*                                                                         *)
(* A start either reaches the probes or ends the process, which is started   *)
(* again: nothing of it is kept but what is in Postgres and in the spool.     *)
(* An address is a model value; those in Ip are written as literals.          *)
(***************************************************************************)
EXTENDS Integers, Sequences, SequencesExt

CONSTANTS
  Address,    \* what the settings and the routing table may name
  Ip,         \* the addresses that are IP literals
  Unspecified,\* the address 0.0.0.0
  Missing,    \* no address: an empty setting, or nothing detected
  AutoDetect, \* the setting "auto"
  Configs,    \* the configuration files of a run
  RouteTables,\* [default |-> BOOLEAN, gateway |-> address] in sequences: /proc/net/route
  MaxKills    \* bound: how often the process is killed

Setting == Address \cup {Missing, AutoDetect}

\* targets is a function from the names in the file to their addresses; mode is any word
\* and interval any number, "" and 0 where the file has none.
ASSUME StartupAssumption ==
  /\ Ip \subseteq Address /\ Unspecified \in Ip
  /\ {Missing, AutoDetect} \cap Address = {}
  /\ \A c \in Configs :
       /\ {"mode", "interval"} \subseteq DOMAIN c
       /\ c.source \in BOOLEAN /\ c.url \in BOOLEAN
       /\ c.mode \in STRING /\ c.interval \in Int
       /\ \A n \in DOMAIN c.targets : c.targets[n] \in Address \cup {Missing}
       /\ {c.gateway, c.firstHop} \subseteq Setting
  /\ MaxKills \in Nat

VARIABLES
  config,    \* the file, which nobody edits
  phase,     \* how far run() has come; "down" while there is no process
  targets,   \* the probe list: a set of records of a name and an address
  postgres, disk,   \* can the database be reached, and the spool be opened?
  kills      \* how often the process has been killed

startup == <<config, phase, targets, postgres, disk, kills>>

-----------------------------------------------------------------------------
(* Load.                                                                   *)

WithDefaults(c) ==
  [c EXCEPT !.mode = IF @ = "" THEN "auto" ELSE @, !.interval = IF @ = 0 THEN 5 ELSE @]

\* A negative period is accepted, and so is a mode of any name.
Accepted(c) ==
  /\ c.source
  /\ DOMAIN c.targets # {}
  /\ \A n \in DOMAIN c.targets : c.targets[n] # Missing

-----------------------------------------------------------------------------
(* Targets.                                                                *)

\* The gateway of the first default route.
DefaultGateway(routes) ==
  LET defaults == SelectSeq(routes, LAMBDA r : r.default)
  IN IF defaults = <<>> THEN Missing ELSE defaults[1].gateway

\* The router that reported the packet whose TTL ran out, if any did.
FirstHopBeyondGateway(offender) == IF offender = Unspecified THEN Missing ELSE offender

\* Variant: what is detected goes before what is configured.
ResolvedDetectedFirst(setting, detected) ==
  IF setting = Missing \/ detected = Missing THEN setting ELSE detected

Resolved(setting, detected) == IF setting = AutoDetect THEN detected ELSE setting

UserTargets(c) == {[name |-> n, address |-> c.targets[n]] : n \in DOMAIN c.targets}

\* Variant: only what the user has configured counts as seen.
WithNetworkTargetAnyway(list, name, address) ==
  IF address = Missing \/ \E t \in UserTargets(config) : t.name = name \/ t.address = address
  THEN list
  ELSE list \cup {[name |-> name, address |-> address]}

\* A name or an address that is in the list already is not added.
WithNetworkTarget(list, name, address) ==
  IF address = Missing \/ \E t \in list : t.name = name \/ t.address = address
  THEN list
  ELSE list \cup {[name |-> name, address |-> address]}

Targets(c, gateway, hop) ==
  WithNetworkTarget(
    WithNetworkTarget(UserTargets(c), "local_gateway", Resolved(c.gateway, gateway)),
    "isp_first_hop", Resolved(c.firstHop, hop))

-----------------------------------------------------------------------------
(* run.  Each step that fails returns an error, and main ends the process.  *)

Then(next, works) ==
  /\ phase' = IF works THEN next ELSE "down"
  /\ UNCHANGED <<config, postgres, disk, kills>>

\* A file that is refused leaves nothing behind.
Load == phase = "down" /\ Accepted(config) /\ config.url /\ Then("loaded", TRUE)
                       /\ UNCHANGED targets

OpenDB == phase = "loaded" /\ Then("connected", postgres) /\ UNCHANGED targets

OpenSpool == phase = "connected" /\ Then("spooled", disk) /\ UNCHANGED targets

\* Variant: a gateway that cannot be detected is an error.
DetectOrFail ==
  /\ phase = "spooled"
  /\ \E routes \in RouteTables : \E offender \in Ip \cup {Missing} :
       /\ targets' = Targets(config, DefaultGateway(routes), FirstHopBeyondGateway(offender))
       /\ Then("running", config.gateway = AutoDetect => DefaultGateway(routes) # Missing)

\* What cannot be detected is left out.
Detect ==
  /\ phase = "spooled"
  /\ \E routes \in RouteTables : \E offender \in Ip \cup {Missing} :
       /\ targets' = Targets(config, DefaultGateway(routes), FirstHopBeyondGateway(offender))
       /\ Then("running", TRUE)

\* A ticker does not take a period that is negative.
Panic == phase = "running" /\ WithDefaults(config).interval < 0 /\ Then("down", FALSE)
                           /\ UNCHANGED targets

Kill ==
  /\ phase # "down" /\ kills < MaxKills
  /\ phase' = "down"
  /\ kills' = kills + 1
  /\ UNCHANGED <<config, targets, postgres, disk>>

\* A start asks once for each: they need not change in the middle of one.
Unreachable ==
  /\ phase = "down"
  /\ \/ postgres' = ~ postgres /\ UNCHANGED disk
     \/ disk' = ~ disk /\ UNCHANGED postgres
  /\ UNCHANGED <<config, phase, targets, kills>>

InitStartup ==
  /\ config \in Configs
  /\ phase = "down"
  /\ targets = {}
  /\ postgres \in BOOLEAN /\ disk \in BOOLEAN
  /\ kills = 0

Run == Load \/ OpenDB \/ OpenSpool \/ Detect \/ Panic

\* systemd starts a process that has ended anew (Restart=always): Load is always next.
NextStartup == Run \/ Kill \/ Unreachable

SpecStartup == InitStartup /\ [][NextStartup]_startup

-----------------------------------------------------------------------------
(* Properties.                                                             *)

\* Nothing is probed twice unless the user's own targets say so, whatever is detected
\* ("the auto-inject is skipped - no double-probing").
NoDoubleProbe ==
  phase = "running" =>
    \A t, u \in targets :
      t # u /\ (t.name = u.name \/ t.address = u.address)
      => {t, u} \subseteq UserTargets(config) /\ t.name # u.name

\* What Observe takes for the gateway.
IsGateway(t) ==
  /\ config.gateway # Missing
  /\ t.name = "local_gateway" \/ t.address = config.gateway

\* With a gateway configured as an IP the tracker sees the gateway among the targets,
\* whatever the user has listed and named himself: skipping the injection does not cost
\* the tracker its local_gateway_issue.
GatewayWatched ==
  /\ phase = "running"
  /\ config.gateway \in Ip
  => \E t \in targets : IsGateway(t)

\* Whatever failed before, once the database and the disk stay reachable a configuration
\* that is accepted, with periods that are not negative, leads to an agent that probes
\* and goes on probing.
EventuallyRunning ==
  /\ Accepted(config) /\ config.url /\ config.interval >= 0
  /\ <>[](postgres /\ disk)
  => <>[](phase = "running")

=============================================================================
