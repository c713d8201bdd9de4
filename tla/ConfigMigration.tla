--------------------------- MODULE ConfigMigration ---------------------------
(***************************************************************************)
(* The start of a server up to its configuration: migrateConfig            *)
(* (cmd/config-migrate.go) rewrites config.json version by version, each   *)
(* time through quick.Config.Save and safe.File, and initConfig            *)
(* (cmd/config-v13.go) loads or creates it.  The process may die at every  *)
(* point and is started again.                                             *)
(*                                                                         *)
(* A field of the configuration is "mine" when the user gave it a value,   *)
(* "default" when the program did, and "none" when it is empty or missing. *)
(***************************************************************************)
EXTENDS Integers, FiniteSets

CONSTANT MaxDie       \* bound: deaths and failing writes

VARIABLES
  configFile,   \* config.json: a configuration, Missing or Torn
  configOld,    \* config.json.old
  fsUsers,      \* fsUsers.json of version 1 exists
  origin,       \* what config.json was when the server was first started
  step,         \* the version that is migrated next
  phase,        \* where Save is, or "down", "purge", "load", "init", "up"
  srvConfig,    \* the configuration to be saved
  serverConfig, \* the configuration in memory
  dies

cfgVars == <<configFile, configOld, fsUsers, origin, step, phase, srvConfig, serverConfig, dies>>

Target == {"amqp", "elasticsearch", "redis", "nats", "postgresql", "kafka", "webhook"}
Logger == {"console", "file", "syslog"}
Field == {"credential", "region", "mongo", "backend", "address"} \cup Logger \cup Target
Newest == 13
Missing == [version |-> 0, f |-> [x \in Field |-> "none"]]
Torn == [version |-> -1, f |-> [x \in Field |-> "none"]]

(* The fields of the struct that each version is loaded into.              *)
notifierV1 == {"amqp", "nats", "elasticsearch", "redis", "postgresql", "kafka"}
notifierV2 == notifierV1
loggerV6 == {"console", "file", "syslog"}
configV2 == {"credential", "region", "mongo", "syslog", "file"}
configV3 == {"backend", "address", "credential", "region"} \cup Logger
configV4 == {"credential", "region"} \cup Logger
configV5 == {"credential", "region"} \cup Logger \cup {"amqp", "elasticsearch", "redis"}
configV6 == {"credential", "region"} \cup loggerV6 \cup notifierV1
serverConfigV7 == {"credential", "region"} \cup loggerV6 \cup notifierV1
serverConfigV8 == {"credential", "region"} \cup loggerV6 \cup notifierV1
serverConfigV9 == {"credential", "region"} \cup loggerV6 \cup notifierV1
serverConfigV10 == {"credential", "region", "console", "file"} \cup notifierV1
serverConfigV11 == {"credential", "region", "console", "file"} \cup notifierV1
serverConfigV12 == {"credential", "region", "console", "file"} \cup notifierV2
serverConfigV13 == {"credential", "region", "console", "file"} \cup Target
fieldsOf == <<{}, configV2, configV3, configV4, configV5, configV6, serverConfigV7, serverConfigV8, serverConfigV9,
              serverConfigV10, serverConfigV11, serverConfigV12, serverConfigV13>>

(* quick.Config.Load: json.Unmarshal into the struct of version v, which   *)
(* takes the file's version over; "Version mismatch" compares the field    *)
(* with itself.                                                            *)
Load(file, v) == [version |-> file.version,
                  f |-> [x \in Field |-> IF x \in fieldsOf[v] THEN file.f[x] ELSE "none"]]

orDefault(v) == IF v = "none" THEN "default" ELSE v
Filled(f, X) == [x \in Field |-> IF x \in X THEN orDefault(f[x]) ELSE f[x]]
only(f, X) == [x \in Field |-> IF x \in X THEN f[x] ELSE "none"]

(* What each migration makes of the loaded fields.                         *)
migrateV2ToV3(f) == [Filled(only(f, {"credential", "region", "file", "syslog"}), {"region", "file", "syslog"})
                       EXCEPT !["console"] = "default", !["address"] = "default"]
migrateV3ToV4(f) == Filled(only(f, {"credential", "region"} \cup Logger), {"region"})
migrateV4ToV5(f) == Filled(only(f, {"credential", "region"} \cup Logger), {"region"})
migrateV5ToV6(f) == Filled(f, {"region", "amqp", "elasticsearch", "redis"})
migrateV6ToV7(f) == Filled(only(f, {"credential", "region", "amqp", "elasticsearch", "redis"} \cup Logger),
                           {"region", "amqp", "elasticsearch", "redis"})
migrateV7ToV8(f) == Filled(only(f, {"credential", "region", "amqp", "nats", "elasticsearch", "redis"} \cup Logger),
                           {"region", "amqp", "nats", "elasticsearch", "redis"})
migrateV8ToV9(f) == [Filled(only(f, {"credential", "region", "amqp", "nats", "elasticsearch", "redis", "postgresql"} \cup Logger),
                            {"region", "amqp", "nats", "elasticsearch", "redis", "postgresql"})
                       EXCEPT !["console"] = "default"]
migrateV9ToV10(f) == Filled(only(f, {"credential", "region", "console", "file", "amqp", "nats", "elasticsearch", "redis", "postgresql"}),
                            {"region", "amqp", "nats", "elasticsearch", "redis", "postgresql"})
migrateV10ToV11(f) == [Filled(f, {"region", "amqp", "nats", "elasticsearch", "redis", "postgresql"})
                         EXCEPT !["kafka"] = "default"]
migrateV11ToV12(f) == Filled(f, {"region", "amqp", "nats", "elasticsearch", "redis", "postgresql", "kafka"})
migrateV12ToV13(f) == [Filled(f, {"region", "amqp", "nats", "elasticsearch", "redis", "postgresql", "kafka"})
                         EXCEPT !["webhook"] = "default"]
migrated(v, f) ==
  CASE v = 2 -> migrateV2ToV3(f) [] v = 3 -> migrateV3ToV4(f) [] v = 4 -> migrateV4ToV5(f)
    [] v = 5 -> migrateV5ToV6(f) [] v = 6 -> migrateV6ToV7(f) [] v = 7 -> migrateV7ToV8(f)
    [] v = 8 -> migrateV8ToV9(f) [] v = 9 -> migrateV9ToV10(f) [] v = 10 -> migrateV10ToV11(f)
    [] v = 11 -> migrateV11ToV12(f) [] v = 12 -> migrateV12ToV13(f)

-----------------------------------------------------------------------------
(* What a user of version v could configure: a notification target from    *)
(* the version on that introduced it.                                      *)
configurable(v) ==
  {x \in fieldsOf[v] : x \in Target => v >= CASE x = "nats" -> 8 [] x = "postgresql" -> 9 [] x = "kafka" -> 11
                                              [] x = "webhook" -> 13 [] OTHER -> 5}
(* Files with all fields, with one of them empty, or with one only.        *)
someFields(v) == {configurable(v)} \cup {configurable(v) \ {x} : x \in configurable(v) \ {"credential"}}
                   \cup {{"credential", x} : x \in configurable(v)}
Files == {Missing} \cup UNION {{[version |-> v, f |-> [x \in Field |-> IF x \in S THEN "mine" ELSE "none"]]
                                  : S \in someFields(v)} : v \in 2..Newest}

CfgInit ==
  /\ configFile \in Files /\ origin = configFile
  /\ configOld = Missing /\ fsUsers \in {b \in BOOLEAN : b => configFile.version \in {0, 2}}
  /\ step = 2 /\ phase = "down" /\ srvConfig = Missing /\ serverConfig = Missing /\ dies = 0

Start ==
  /\ phase = "down" /\ phase' = "purge" /\ step' = 2
  /\ UNCHANGED <<configFile, configOld, fsUsers, origin, srvConfig, serverConfig, dies>>

purgeV1 ==
  /\ phase = "purge" /\ fsUsers' = FALSE /\ phase' = "load"
  /\ UNCHANGED <<configFile, configOld, origin, step, srvConfig, serverConfig, dies>>

(* migrateV<step>: nothing to do without a file or for another version.    *)
migrateConfig ==
  /\ phase = "load"
  /\ IF step = Newest THEN phase' = "init" /\ UNCHANGED <<step, srvConfig>>
     ELSE IF Load(configFile, step).version # step THEN step' = step + 1 /\ UNCHANGED <<phase, srvConfig>>
     ELSE /\ srvConfig' = [version |-> step + 1, f |-> migrated(step, Load(configFile, step).f)]
          /\ phase' = "save" /\ UNCHANGED step
  /\ UNCHANGED <<configFile, configOld, fsUsers, origin, serverConfig, dies>>

(* Save: the backup first, when there is a file.  writeFile writes a       *)
(* temporary file and Close renames it.                                    *)
Save ==
  /\ phase = "save" /\ phase' = IF configFile = Missing THEN "write" ELSE "backup"
  /\ UNCHANGED <<configFile, configOld, fsUsers, origin, step, srvConfig, serverConfig, dies>>
WriteBackup ==
  /\ phase = "backup" /\ configOld' = configFile /\ phase' = "write"
  /\ UNCHANGED <<configFile, fsUsers, origin, step, srvConfig, serverConfig, dies>>
truncated == configFile' = Torn
temporary == UNCHANGED configFile
CreateFile ==
  /\ phase = "write" /\ temporary /\ phase' = "rename"
  /\ UNCHANGED <<configOld, fsUsers, origin, step, srvConfig, serverConfig, dies>>
CloseFile ==
  /\ phase = "rename" /\ configFile' = srvConfig /\ srvConfig' = Missing
  /\ phase' = IF step = Newest THEN "up" ELSE "load"
  /\ UNCHANGED <<configOld, fsUsers, origin, step, serverConfig, dies>>

(* initConfig: a new configuration is in memory before it is saved.        *)
fresh == [version |-> Newest, f |-> [x \in Field |-> IF x \in {"credential", "region", "console"} \cup Target
                                                       THEN "default" ELSE "none"]]
initConfig ==
  /\ phase = "init"
  /\ IF configFile = Missing
       THEN serverConfig' = fresh /\ srvConfig' = fresh /\ phase' = "save"
       ELSE /\ serverConfig' = [Load(configFile, Newest) EXCEPT !.version = Newest]
            /\ phase' = "up" /\ UNCHANGED srvConfig
  /\ UNCHANGED <<configFile, configOld, fsUsers, origin, step, dies>>

(* The process dies, or a write fails and fatalIf ends it.                 *)
Die ==
  /\ phase # "down" /\ dies < MaxDie /\ dies' = dies + 1
  /\ phase' = "down" /\ srvConfig' = Missing /\ serverConfig' = Missing
  /\ UNCHANGED <<configFile, configOld, fsUsers, origin, step>>

CfgProgress == Start \/ purgeV1 \/ migrateConfig \/ Save \/ WriteBackup \/ CreateFile \/ CloseFile \/ initConfig
CfgNext == CfgProgress \/ Die
CfgSpec == CfgInit /\ [][CfgNext]_cfgVars

-----------------------------------------------------------------------------
(* Properties.                                                             *)

(* At no time, whatever died when, does config.json lack a setting of the  *)
(* user that every later version has: credentials, region, file logger and *)
(* notification targets.  The fields that a migration announces to drop    *)
(* and the console level that version 9 resets are not among them.         *)
SettingsKept ==
  \A x \in {"credential", "region", "file"} \cup Target : origin.f[x] = "mine" => configFile.f[x] = "mine"

(* A server that is up runs on a configuration of the newest version in    *)
(* which every notification target has an entry, wherever migration began, *)
(* and config.json is what it runs on.                                     *)
UpOnNewest ==
  phase = "up" => /\ configFile.version = Newest /\ serverConfig.f = configFile.f
                  /\ origin.version < Newest => \A x \in Target : serverConfig.f[x] # "none"

(* Version 9 adds a notifier and is "otherwise the same": console settings *)
(* are kept from version 8 on.                                             *)
ConsoleKept == phase = "up" /\ origin.version = 8 => (origin.f["console"] = "mine" => serverConfig.f["console"] = "mine")
=============================================================================
