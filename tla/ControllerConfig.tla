-------------------------- MODULE ControllerConfig --------------------------
(***************************************************************************)
(* The configuration of the controller (loadConfig, server.mjs), and what  *)
(* others take from it: the plugin its address (validate_controller_url),  *)
(* a start the project and the profile, and the extension the environment  *)
(* it finds (parseRuntimeConfig, core.ts).                                 *)
(*                                                                         *)
(* A file of the configuration is a record of what its fields hold; None   *)
(* is a field that is absent.  An address is written as its octets, some   *)
(* of them with zeros before them, of three digits at most.  Octets have   *)
(* OctetBits bits, where the code has 8, and a word has four octets;       *)
(* numbers wrap as those of JavaScript do.  The display is taken to be     *)
(* set.                                                                    *)
(***************************************************************************)
EXTENDS Integers, Sequences, FiniteSets, Bitwise

CONSTANTS
  OctetBits,
  Tailnet,         \* 100.64.0.0/10, as an address and a number of bits
  AllowedNetworks, \* those a plugin may call: Tailnet, private ones, loopback
  ValidNames,      \* of projects and profiles
  Inherited,       \* the names that every object of JavaScript has
  None

ConfigConstants ==
  OctetBits \in Nat \ {0} /\ Inherited \subseteq ValidNames /\ Tailnet \in AllowedNetworks

WordBits == 4 * OctetBits
Octets == 0..(2^OctetBits - 1)
Word(n) == n % 2^WordBits

\* An address that is written without leading zeros, as those of sockets are.
Plain(octets) == [octets |-> octets, padded |-> {}]

\* Leading zeros are read over; ipaddress, of Python, does not take any.
ParseIpv4(value) == value.octets \in [1..4 -> Octets]
PythonParses(value) == ParseIpv4(value) /\ value.padded = {}

\* << counts modulo the size of a word
ShiftLeft(n, by) == Word(n * 2^(by % WordBits))

Ipv4Number(address) ==
  Word(ShiftLeft(address[1], 3 * OctetBits) + ShiftLeft(address[2], 2 * OctetBits)
         + ShiftLeft(address[3], OctetBits) + address[4])

\* Mutation of Mask: no bits need no special case.
MaskShifted(prefix) == ShiftLeft(2^WordBits - 1, WordBits - prefix)

Mask(prefix) == IF prefix = 0 THEN 0 ELSE ShiftLeft(2^WordBits - 1, WordBits - prefix)

InCidr(address, cidr) ==
  /\ ParseIpv4(address) /\ cidr.prefix \in 0..WordBits
  /\ (Ipv4Number(address.octets) & Mask(cidr.prefix)) = (Ipv4Number(cidr.network) & Mask(cidr.prefix))

MaxPort == 65535
ValidPort(port) == port \in 1..MaxPort

\* value ?? fallback
Given(value, fallback) == IF value = None THEN fallback ELSE value

\* name in object
In(name, object) == name \in DOMAIN object \cup Inherited

MiB == 1024 * 1024

\* The fallback of a limit and its maximum, None if it has none.
Limits ==
  [maxSessions |-> <<3, 10>>, maxJobsPerAlias |-> <<20, 100>>, jobTtlMs |-> <<1800000, None>>,
   maxTextChars |-> <<100000, 500000>>, maxImageCount |-> <<3, 10>>,
   maxImageBytesPerImage |-> <<5 * MiB, 20 * MiB>>, maxImageBytesTotal |-> <<8 * MiB, 40 * MiB>>,
   maxBodyBytes |-> <<12 * MiB, 50 * MiB>>,
   resultPollMs |-> <<25000, 25000>>, internalPollMs |-> <<25000, 25000>>,
   leaseAckMs |-> <<30000, 120000>>, stopGraceMs |-> <<15000, 60000>>,
   signalGraceMs |-> <<3000, 30000>>, heartbeatTimeoutMs |-> <<60000, None>>,
   watchdogIntervalMs |-> <<15000, None>>]

Limit(raw, name) == Given(raw.limits[name], Limits[name][1])

\* positiveInteger
PositiveInteger(value, maximum) == value > 0 /\ (maximum # None => value <= maximum)

\* A path is its kind: "file", "directory", "missing", or "relative".
RegularFile == {"file"}
Directory   == {"directory"}

\* Of a profile only the file of its persona.
ProfilePersona == {None} \cup RegularFile

\* The first of Object.keys, or the one that is named.
Default(named, object) == Given(named, CHOOSE name \in DOMAIN object : TRUE)

\* Mutation of PortsFit: the two may be the same.
PortsMeet(raw) == ValidPort(Given(raw.port, 8787)) /\ ValidPort(Given(raw.internalPort, 8788))

PortsFit(raw) ==
  /\ ValidPort(Given(raw.port, 8787)) /\ ValidPort(Given(raw.internalPort, 8788))
  /\ Given(raw.port, 8787) # Given(raw.internalPort, 8788)

NamedFit(named, fitting) ==
  /\ DOMAIN named \subseteq ValidNames /\ DOMAIN named # {}
  /\ \A name \in DOMAIN named : named[name] \in fitting

\* loadConfig does not refuse the file: every refusal has the same code and
\* ends the controller.
Loads(raw) ==
  /\ InCidr(raw.host, Tailnet) /\ PortsFit(raw)
  /\ raw.sources # {} /\ \A s \in raw.sources : InCidr(s, Tailnet)
  /\ raw.bearer = "hash" /\ raw.statePath \notin {"relative", "root"}
  /\ \A f \in DOMAIN raw.terminal : raw.terminal[f] \in RegularFile
  /\ NamedFit(raw.projects, Directory) /\ NamedFit(raw.profiles, ProfilePersona)
  /\ In(Default(raw.project, raw.projects), raw.projects)
  /\ In(Default(raw.profile, raw.profiles), raw.profiles)
  /\ \A name \in DOMAIN Limits : PositiveInteger(Limit(raw, name), Limits[name][2])

Config(raw) ==
  [host |-> raw.host, port |-> Given(raw.port, 8787), internalPort |-> Given(raw.internalPort, 8788),
   sources |-> raw.sources, projects |-> raw.projects, profiles |-> raw.profiles,
   project |-> Default(raw.project, raw.projects), profile |-> Default(raw.profile, raw.profiles),
   limits |-> [name \in DOMAIN Limits |-> Limit(raw, name)]]

\* resolveProject and resolveProfile of a start that names none or one.
Resolves(config, project, profile) ==
  /\ In(Given(project, config.project), config.projects)
  /\ In(Given(profile, config.profile), config.profiles)

\* authenticateExternal, as far as the address goes: the texts are compared.  An
\* IPv4 address may come as one of IPv6, which is the same.
Admits(config, remote) == Plain(remote) \in config.sources

\* validate_controller_url
AcceptsUrl(host, port) ==
  ValidPort(port) /\ PythonParses(host) /\ \E n \in AllowedNetworks : InCidr(host, n)

\* parseRuntimeConfig, of the environment that a start passes on.
Environment(config, alias) ==
  [port |-> config.internalPort, alias |-> alias, session |-> "uuid", token |-> 43]
ParsesRuntime(env) ==
  /\ ValidPort(env.port) /\ env.alias \in ValidNames
  /\ env.session = "uuid" /\ env.token \in 16..256

\* How long the extension and the plugin wait for an answer.
ExtensionPollMs == 32000
PluginCallMs == 35000

=============================================================================
