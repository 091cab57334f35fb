-------------------------- MODULE CreateInspection --------------------------
(***************************************************************************)
(* The inspection of a container-create body (check_create_body,           *)
(* security.rs).  A body that is a JSON object is a record of its Image,   *)
(* its fields and those of its HostConfig, as functions from the names     *)
(* that are present, and the names of its Labels.  Values are "null",      *)
(* "false", "[]" and "''", which ask for nothing, and any others.          *)
(***************************************************************************)
GuardedKeys ==
    {"Privileged", "CapAdd", "SecurityOpt", "Devices", "DeviceRequests",
     "PidMode", "IpcMode", "UsernsMode"}

RequiredLabels == {"dagster/run_id", "dagster/job_name"}
DagsterLabels  == RequiredLabels \cup {"dagster/op"}    \* begin with "dagster/"

meaningfully_set(value) == value \notin {"null", "false", "[]", "''"}

LevelPermitted(fields) ==
    /\ \A key \in GuardedKeys \cap DOMAIN fields: ~meaningfully_set(fields[key])
    /\ "NetworkMode" \in DOMAIN fields => fields["NetworkMode"] # "host"

\* Any label of Dagster's requires both that it needs.
LabelsComplete(labels) ==
    labels \cap DagsterLabels # {} => RequiredLabels \subseteq labels

\* Mutant: HostConfig is not looked into.
PermittedAtTop(body) ==
    /\ body.kind = "object"
    /\ body.Image \notin {"absent", "''"}
    /\ LevelPermitted(body.fields)
    /\ LabelsComplete(body.Labels)

\* check_create_body: both levels that the daemon may read a field from.
Permitted(body) ==
    /\ body.kind = "object"
    /\ body.Image \notin {"absent", "''"}
    /\ LevelPermitted(body.fields)
    /\ LevelPermitted(body.HostConfig)
    /\ LabelsComplete(body.Labels)
=============================================================================
