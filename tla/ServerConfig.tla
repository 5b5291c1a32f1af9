----------------------------- MODULE ServerConfig -----------------------------
(***************************************************************************)
(* The server's settings: what Load makes of defaults, a file and the      *)
(* environment.  A value is the empty text, or a text that is good or bad  *)
(* where its use can tell (a log level), or the default.                   *)
(***************************************************************************)
CONSTANTS
  Settings,  \* the keys looked at, some of those below
  Unset      \* not there, or null in the file

Defaults == {"listen_addr", "artifact_path", "log_level", "db.host", "db.port", "db.user",
             "db.password", "db.ssl_mode"}

(* The keys of the explicit BindEnv calls.                                 *)
Bound == {"db.host", "db.port", "db.user", "db.password", "db.name", "db.ssl_mode", "kubeconfig"}

Texts == {"", "good", "bad"}

ASSUME SettingsAssumption ==
  /\ {"db.name", "log_level"} \subseteq Settings
  /\ Settings \subseteq Defaults \cup Bound
  /\ Unset \notin Texts \cup {"default"}

(* What Load is given: whether -config was used, the file, and for each    *)
(* key the variable SHIPINATOR_<KEY>.                                      *)
Givens == [explicit : BOOLEAN, state : {"missing", "broken", "read"},
           file : [Settings -> Texts \cup {Unset}], env : [Settings -> Texts \cup {Unset}]]

InFile(given, k) == given.state = "read" /\ given.file[k] # Unset

\* Slip: no BindEnv; a key without a default is not known to Unmarshal.
KnownByDefault(given, k) == k \in Defaults \/ InFile(given, k)

(* AutomaticEnv alone does not make Unmarshal ask for a key: it has to     *)
(* have a default, be in the file or be bound.                             *)
Known(given, k) == k \in Defaults \cup Bound \/ InFile(given, k)

(* viper: an empty variable counts as unset, an empty text in the file     *)
(* does not.                                                               *)
Setting(given, k) ==
  IF Known(given, k) /\ given.env[k] \notin {Unset, ""} THEN given.env[k]
  ELSE IF InFile(given, k) THEN given.file[k]
  ELSE IF k \in Defaults THEN "default"
  ELSE ""

Unmarshal(given) == [k \in Settings |-> Setting(given, k)]

(* No file at all is fine when it was searched for; viper may or may not   *)
(* excuse one that was named and is missing.                               *)
ReadFails(given) ==
  IF given.state = "missing" THEN IF given.explicit THEN BOOLEAN ELSE {FALSE}
  ELSE {given.state = "broken"}

Failed == [k \in Settings |-> Unset]

(* The configurations Load can return, or Failed.                          *)
Load(given) ==
  LET cfg == Unmarshal(given)
  IN {IF fails \/ cfg["db.name"] = "" THEN Failed ELSE cfg : fails \in ReadFails(given)}

(* level.UnmarshalText knows the levels, in any case, and nothing else.    *)
LevelOK(cfg) == cfg["log_level"] \notin {"", "bad"}
=============================================================================
