------------------------------ MODULE ClientConfig ------------------------------
(***************************************************************************)
(* What the client is told at its start: settings from the command line    *)
(* (or the environment, which clap reads when a flag is absent), from the  *)
(* configuration file, and compiled in. Only the three that decide whether *)
(* there is a network are told apart; the others are the file's value or   *)
(* the default, and are constants of the modules that use them. (A flag    *)
(* for the timestamp format is parsed and never used.)                     *)
(***************************************************************************)
CONSTANTS
  Values    \* values of a setting, the empty string among them

Settings == {"relay_url", "peer_id", "remote_peer"}

\* Some settings with their values: a source need not give them all.
Given == UNION {[names -> Values] : names \in SUBSET Settings}

CliArgs == Given

\* It cannot be loaded if it is not readable or not TOML, or was named by --config
\* and is not there. A missing file at the default path is like an empty one.
ConfigFile == [loads : BOOLEAN, given : Given]

\* ClientConfig::default has none of the three.
Default == << >>

\* Option::or_else, for every setting.
OrElse(f, g) == [s \in DOMAIN f \cup DOMAIN g |-> IF s \in DOMAIN f THEN f[s] ELSE g[s]]

\* ClientConfig::resolve: the first source that gives a setting decides.
Resolve(cli, file) == OrElse(cli, OrElse(file.given, Default))

\* main: when loading fails, the defaults are used, and what the command line says
\* is forgotten with the file.
Load(cli, file) == IF file.loads THEN Resolve(cli, file) ELSE Default

\* to_net_config returns Some. (Only the remote peer is required not to be empty.)
HasNetConfig(config) == DOMAIN config = Settings /\ config["remote_peer"] # ""
=============================================================================
