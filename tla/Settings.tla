------------------------------ MODULE Settings ------------------------------
(***************************************************************************)
(* The configuration from the environment to the clients: it is loaded     *)
(* and validated at the start, never changed while the index runs, and     *)
(* served whole to administrators, in part to everybody.  Every run finds  *)
(* another environment and other files.                                    *)
(***************************************************************************)
EXTENDS Naturals

CONSTANTS
  NotSet,       \* a variable or a file that is not there
  Documents,    \* texts of configurations: records, and Garbage
  Garbage,      \* a text that is no configuration
  Overrides,    \* values of the variables for the token and the secret key
  Paths,        \* the paths of configuration files
  DefaultPath,  \* DEFAULT_PATH_CONFIG
  UserIds,
  MaxRuns       \* how often the index is started, a bound

\* What must not be told: the values of the variables for the token and the key,
\* and the secrets of every text that could have been loaded.
Secrets ==
  Overrides \union
    UNION {{d.token, d.connect_url, d.password, d.secret_key} : d \in Documents \ {Garbage}}

PublicFields == {"website_name", "tracker_scheme", "mode", "email_on_signup"}
SecretFields == {"token", "connect_url", "password", "secret_key"}

\* No secret is a text that is public anyway.
ASSUME SettingsAssumption ==
  /\ DefaultPath \in Paths
  /\ NotSet \notin Documents
  /\ {"***", "Unauthorized"} \intersect Secrets = {}
  /\ \A d \in Documents \ {Garbage} :
       /\ DOMAIN d = PublicFields \union SecretFields
       /\ \A field \in PublicFields : d[field] \notin Secrets

VARIABLES
  settings,  \* Configuration::settings, NotSet while nothing runs
  runs,      \* how often the index was started
  admins,    \* the users whose row says administrator
  served     \* the last answer: what, and to whom it went

settingsVars == <<settings, runs, admins, served>>

\* The variables that bootstrap/config.rs names, set and unset.
Environments ==
  [config : Documents \union {NotSet}, path : Paths \union {NotSet},
   token : Overrides \union {NotSet}, secret_key : Overrides \union {NotSet}]

\* What is at the paths.
Disks == [Paths -> Documents \union {NotSet}]

-----------------------------------------------------------------------------
(* config.rs                                                               *)

IsOpen(mode) == mode \in {"Public", "Whitelisted"}

\* Info::new: the text in the environment comes before any file, the path in the
\* environment before the default path.
IndexToml(env, disk) ==
  IF env.config # NotSet THEN env.config
  ELSE IF env.path # NotSet THEN disk[env.path]
  ELSE disk[DefaultPath]

\* Configuration::load: the token and the secret key of the environment come
\* before those of the text.
Loaded(document, env) ==
  [document EXCEPT
     !.token = IF env.token # NotSet THEN env.token ELSE @,
     !.secret_key = IF env.secret_key # NotSet THEN env.secret_key ELSE @]

\* Configuration::validate: the URL is one, and a tracker that is closed is
\* reached by HTTP.
Valid(config) ==
  /\ config.tracker_scheme # "none"
  /\ IsOpen(config.mode) \/ config.tracker_scheme \in {"http", "https"}

\* Mutant: the secret key, which has a variable of its own, is left out.
WithoutSecrets_Key(config) ==
  [config EXCEPT !.token = "***", !.connect_url = "***", !.password = "***"]

\* TorrustIndex::remove_secrets
WithoutSecrets(config) ==
  [config EXCEPT !.token = "***", !.connect_url = "***", !.password = "***",
                 !.secret_key = "***"]

\* Configuration::get_public
Public(config) ==
  [website_name    |-> config.website_name,
   tracker_scheme  |-> config.tracker_scheme,
   mode            |-> config.mode,
   email_on_signup |-> config.email_on_signup]

-----------------------------------------------------------------------------

SettingsInit ==
  /\ settings = NotSet
  /\ runs = 0
  /\ admins = {}
  /\ served = NotSet

\* initialize_configuration; its errors panic.
InitialConfiguration(env, disk) ==
  IF IndexToml(env, disk) \in {NotSet, Garbage} THEN NotSet ELSE Loaded(IndexToml(env, disk), env)

\* app::run, which panics when the configuration is not valid.
Run(env, disk) ==
  LET config == InitialConfiguration(env, disk)
  IN /\ settings = NotSet
     /\ runs < MaxRuns
     /\ runs' = runs + 1
     /\ settings' = IF config = NotSet THEN NotSet ELSE IF Valid(config) THEN config ELSE NotSet
     /\ UNCHANGED <<admins, served>>

\* The operator stops the index, to start it again with what is there then.
Stop ==
  /\ settings # NotSet
  /\ settings' = NotSet
  /\ UNCHANGED <<runs, admins, served>>

\* grant_admin_role
Grant(user) ==
  /\ settings # NotSet
  /\ admins' = admins \union {user}
  /\ UNCHANGED <<settings, runs, served>>

-----------------------------------------------------------------------------
(* services/settings.rs and contexts/settings/handlers.rs                  *)

\* get_all_masking_secrets, for administrators.
AllMaskingSecrets(user) ==
  IF user \in admins THEN [to |-> user, all |-> TRUE, data |-> WithoutSecrets(settings)]
  ELSE [to |-> user, all |-> FALSE, data |-> [error |-> "Unauthorized"]]

GetAll(user) ==
  /\ settings # NotSet
  /\ served' = AllMaskingSecrets(user)
  /\ UNCHANGED <<settings, runs, admins>>

GetPublic(user) ==
  /\ settings # NotSet
  /\ served' = [to |-> user, all |-> FALSE, data |-> Public(settings)]
  /\ UNCHANGED <<settings, runs, admins>>

GetSiteName(user) ==
  /\ settings # NotSet
  /\ served' = [to |-> user, all |-> FALSE, data |-> [website_name |-> settings.website_name]]
  /\ UNCHANGED <<settings, runs, admins>>

SettingsNext ==
  \/ \E env \in Environments, disk \in Disks : Run(env, disk)
  \/ Stop
  \/ \E user \in UserIds : Grant(user) \/ GetAll(user) \/ GetPublic(user) \/ GetSiteName(user)

SettingsSpec == SettingsInit /\ [][SettingsNext]_settingsVars

-----------------------------------------------------------------------------

\* No answer tells a secret, of this run or of an earlier one, whichever way it
\* came in, and only administrators are told more than the public settings
\* (remove_secrets, get_all_handler, get_public_handler).
SecretsStayHidden ==
  served # NotSet =>
    /\ \A key \in DOMAIN served.data : served.data[key] \notin Secrets
    /\ \/ DOMAIN served.data \subseteq PublicFields \union {"error"}
       \/ served.all /\ served.to \in admins

=============================================================================
