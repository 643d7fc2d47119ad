------------------------------- MODULE Deploy -------------------------------
(***************************************************************************)
(* The Up... services: how monitoring, the four stacks under test and the  *)
(* two load sources are put into the cluster.  Each of them is a sequence  *)
(* of calls that first takes away what an earlier run left and then builds *)
(* anew; an error of any call ends the sequence, and the next run starts   *)
(* it from the top.  Every unit has its own namespace, release and         *)
(* webhooks, so one of them is followed here, over several deployments.    *)
(*                                                                         *)
(* DeleteNamespace is taken at its word: nil means that the namespace is   *)
(* gone (module Namespace).                                                *)
(***************************************************************************)
EXTENDS Naturals, Sequences

CONSTANTS
    Nodes,       \* nodes of the cluster
    NoNode,
    MaxDeploys   \* bound: deployments of the unit

ASSUME DeployAssumption == NoNode \notin Nodes /\ MaxDeploys \in Nat

(***************************************************************************)
(* The sequences.                                                          *)
(***************************************************************************)
Monitoring == <<"uninstall", "dropWebhooks", "deleteNs", "install">>

Prometheus == <<"image", "uninstall", "deleteNs", "install",
                "exporter", "service", "diskMonitor", "selfMonitor">>

VictoriaMetricsTrustsHook ==
    <<"image", "dropWebhooks", "uninstall", "dropRoles", "dropScrapes", "deleteNs",
      "install", "scrape", "exporter", "service", "diskMonitor", "selfMonitor">>

VictoriaMetrics ==
    <<"image", "dropWebhooks", "uninstall", "dropRoles", "dropScrapes", "deleteNs",
      "install", "dropWebhooks",
      "scrape", "exporter", "service", "diskMonitor", "selfMonitor">>

LokiKeepsNs == <<"uninstall", "install", "selfMonitor", "image",
                 "awaitPVC", "exporter", "service", "diskMonitor">>

Loki == <<"uninstall", "deleteNs", "install", "selfMonitor", "image",
          "awaitPVC", "exporter", "service", "diskMonitor">>

OpenSearchNsFirst == <<"deleteNs", "uninstall", "install", "image",
                       "exporter", "service", "diskMonitor">>

OpenSearch == <<"uninstall", "deleteNs", "install", "image",
                "exporter", "service", "diskMonitor">>

\* RecreateNamespace is deleteNs, dropPVs, createNs.
MetricsProvider == <<"image", "deleteNs", "dropPVs", "createNs", "deployment", "service">>

LogProducer == <<"image", "deleteNs", "dropPVs", "createNs", "deployment">>

Plan == [monitoring |-> Monitoring, prometheus |-> Prometheus,
         victoriametrics |-> VictoriaMetrics, loki |-> Loki,
         opensearch |-> OpenSearch, metricsProvider |-> MetricsProvider,
         logProducer |-> LogProducer]

Units     == DOMAIN Plan
Stacks    == {"prometheus", "victoriametrics", "loki", "opensearch"}
WithHooks == {"monitoring", "victoriametrics"}
\* helm waits for the pod of these; vmsingle is started by its operator.
Awaited   == Stacks \ {"victoriametrics"}
Objects   == {"scrape", "exporter", "service", "diskMonitor", "selfMonitor", "deployment"}

VARIABLES
    unit,      \* what is deployed
    deploys,   \* deployments begun; the number of the current one
    status,    \* of the current deployment
    step,      \* position in the unit's plan
    ns,        \* the unit's namespace
    made,      \* deployment that made each object in the namespace, or 0
    rel,       \* the helm release, and which deployment installed it
    relBy,
    roles,     \* its cluster-scoped objects: own, or of a release elsewhere
    hook,      \* its webhook configuration exists
    serving,   \* the server behind the webhook accepts connections
    pod,       \* node of the instrument's Running pod, or NoNode
    pin,       \* node selector of the disk exporter, or NoNode
    bound,     \* the data volume is claimed
    released,  \* a volume of a former claim is left
    data,      \* deployments whose data the volume's directory holds
    faulty,    \* history: a call of the current deployment was disturbed
    moved      \* history: the pod was restarted since the last install

control == <<unit, deploys, status, step, faulty>>
helm    == <<rel, relBy, roles>>
hooks   == <<hook, serving>>
volume  == <<bound, released, data>>
place   == <<pod, pin, moved>>
cluster == <<ns, made, helm, hooks, volume, place>>
vars    == <<control, cluster>>

TypeOK ==
    /\ unit \in Units /\ deploys \in 0..MaxDeploys
    /\ status \in {"idle", "running", "ok", "failed"}
    /\ step \in 1..Len(Plan[unit])
    /\ ns \in {"absent", "active", "terminating"}
    /\ made \in [Objects -> 0..deploys]
    /\ rel \in {"none", "partial", "deployed"} /\ relBy \in 0..deploys
    /\ roles \in {"none", "own", "foreign"}
    /\ hook \in BOOLEAN /\ serving \in BOOLEAN
    /\ pod \in Nodes \cup {NoNode} /\ pin \in Nodes \cup {NoNode}
    /\ bound \in BOOLEAN /\ released \in BOOLEAN
    /\ data \subseteq 1..deploys
    /\ faulty \in BOOLEAN /\ moved \in BOOLEAN

NoObjects == [o \in Objects |-> 0]

\* A fresh cluster, or one where a VictoriaMetrics release of another namespace
\* left its cluster-scoped objects.
Init ==
    /\ unit \in Units /\ deploys = 0 /\ status = "idle" /\ step = 1
    /\ ns = "absent" /\ made = NoObjects
    /\ rel = "none" /\ relBy = 0
    /\ roles \in {"none"} \cup IF unit = "victoriametrics" THEN {"foreign"} ELSE {}
    /\ hook = (roles = "foreign") /\ serving = FALSE
    /\ pod = NoNode /\ pin = NoNode
    /\ bound = FALSE /\ released = FALSE /\ data = {}
    /\ faulty = FALSE /\ moved = FALSE

(***************************************************************************)
(* How a call ends.  It may fail before it does anything, and it may fail, *)
(* or the process may be killed, after it took effect.                     *)
(***************************************************************************)
At(op) == status = "running" /\ Plan[unit][step] = op

DoneEarly ==
    /\ IF step + 1 >= Len(Plan[unit])
       THEN status' = "ok" /\ UNCHANGED step
       ELSE step' = step + 1 /\ UNCHANGED status
    /\ UNCHANGED <<unit, deploys, faulty>>

Done ==
    /\ IF step = Len(Plan[unit])
       THEN status' = "ok" /\ UNCHANGED step
       ELSE step' = step + 1 /\ UNCHANGED status
    /\ UNCHANGED <<unit, deploys, faulty>>

Disturbed == /\ status' = "failed" /\ faulty' = TRUE
             /\ UNCHANGED <<unit, deploys, step>>

Ends == Done \/ Disturbed

\* The call is refused because of what it finds in the cluster.
Refused == /\ status' = "failed"
           /\ UNCHANGED <<unit, deploys, step, faulty, cluster>>

Fails == status = "running" /\ Disturbed /\ UNCHANGED cluster

Begin ==
    /\ status # "running" /\ deploys < MaxDeploys
    /\ deploys' = deploys + 1 /\ status' = "running" /\ step' = 1
    /\ faulty' = FALSE
    /\ UNCHANGED <<unit, cluster>>

(***************************************************************************)
(* Taking away.                                                            *)
(***************************************************************************)
\* TryUninstall: every status of a release is listed.  Helm deletes the objects
\* first and the record last.
Uninstall ==
    /\ At("uninstall") /\ Ends
    /\ IF rel = "none" THEN UNCHANGED <<helm, hooks, place>>
       ELSE /\ rel' = "none" /\ relBy' = 0
            /\ roles' = IF roles = "own" THEN "none" ELSE roles
            /\ hook' = FALSE /\ serving' = FALSE
            /\ pod' = NoNode /\ UNCHANGED <<pin, moved>>
    /\ UNCHANGED <<ns, made, volume>>

UninstallPartly ==
    /\ At("uninstall") /\ rel # "none" /\ Disturbed
    /\ rel' = "partial" /\ roles' \in {roles, IF roles = "own" THEN "none" ELSE roles}
    /\ hook' \in {hook, FALSE} /\ serving' \in {serving, FALSE}
    /\ pod' \in {pod, NoNode}
    /\ UNCHANGED <<relBy, ns, made, volume, pin, moved>>

\* DeleteKubePrometheusStackWebhooks, DeleteVMWebhooks
DropWebhooks ==
    /\ At("dropWebhooks") /\ Ends
    /\ hook' = FALSE
    /\ UNCHANGED <<ns, made, helm, serving, volume, place>>

\* DeleteVMClusterRoles asks for the release's name only, not for its namespace.
DropRoles ==
    /\ At("dropRoles") /\ Ends
    /\ roles' = "none"
    /\ UNCHANGED <<ns, made, rel, relBy, hooks, volume, place>>

\* DeleteVMServiceScrape patches and deletes; a webhook nobody serves refuses.
DropScrapes ==
    /\ At("dropScrapes")
    /\ IF hook /\ ~serving /\ made["scrape"] > 0 THEN Refused
       ELSE /\ Ends /\ made' = [made EXCEPT !["scrape"] = 0]
            /\ UNCHANGED <<ns, helm, hooks, volume, place>>

\* With the namespace go its objects, the release's record and the claim.
NamespaceGone ==
    /\ ns' = "absent" /\ made' = NoObjects
    /\ rel' = "none" /\ relBy' = 0
    /\ pod' = NoNode /\ pin' = NoNode
    /\ bound' = FALSE /\ released' = (released \/ bound)
    /\ UNCHANGED <<roles, hooks, data, moved>>

DeleteNs == At("deleteNs") /\ Ends /\ NamespaceGone

DeleteNsPartly ==
    /\ At("deleteNs") /\ ns # "absent" /\ Disturbed
    /\ ns' = "terminating"
    /\ UNCHANGED <<made, helm, hooks, volume, place>>

\* deleteReleasedPVsForNamespace reports no error; without the volume its
\* provisioner clears the directory.
DropPVs ==
    /\ At("dropPVs") /\ Ends
    /\ \/ /\ released' = FALSE /\ data' = IF bound THEN data ELSE {}
       \/ UNCHANGED <<released, data>>
    /\ UNCHANGED <<ns, made, helm, hooks, bound, place>>

(***************************************************************************)
(* Building.                                                               *)
(***************************************************************************)
Image == At("image") /\ Ends /\ UNCHANGED cluster

CreateNs ==
    /\ At("createNs")
    /\ IF ns # "absent" THEN Refused
       ELSE Ends /\ ns' = "active" /\ UNCHANGED <<made, helm, hooks, volume, place>>

\* A name in use, another release's objects and a dying namespace are refused.
Installable == rel = "none" /\ roles # "foreign" /\ ns # "terminating"

\* What helm puts into the cluster.  The claim gets the directory of its path,
\* with whatever is in it.
Installs ==
    /\ ns' = "active" /\ relBy' = deploys
    /\ roles' = "own" /\ hook' = (unit \in WithHooks) /\ serving' = FALSE
    /\ IF unit \in Stacks
       THEN bound' = TRUE /\ data' = data \cup {deploys}
       ELSE UNCHANGED <<bound, data>>
    /\ UNCHANGED <<made, released, pin>>

Install ==
    /\ At("install")
    /\ IF ~Installable THEN Refused
       ELSE /\ Ends /\ Installs
            /\ rel' = "deployed" /\ moved' = FALSE
            /\ pod' \in IF unit \in Awaited THEN Nodes
                        ELSE IF unit \in Stacks THEN Nodes \cup {NoNode} ELSE {NoNode}

InstallPartly ==
    /\ At("install") /\ Installable /\ Disturbed /\ Installs
    /\ rel' = "partial" /\ UNCHANGED <<pod, moved>>

\* The claim of a ready pod exists.
AwaitPVC == At("awaitPVC") /\ bound /\ Ends /\ UNCHANGED cluster

Create(o) ==
    /\ At(o)
    /\ IF \/ ns # "active" \/ made[o] > 0
          \/ o = "scrape" /\ hook /\ ~serving
       THEN Refused
       ELSE /\ Ends /\ made' = [made EXCEPT ![o] = deploys]
            /\ UNCHANGED <<ns, helm, hooks, volume, place>>

PinNodeUnset == NoNode

\* pvcNodeName: no Running pod, no node selector.
PinNode == pod

CreateExporter ==
    /\ At("exporter")
    /\ IF ns # "active" \/ made["exporter"] > 0 THEN Refused
       ELSE /\ Ends /\ made' = [made EXCEPT !["exporter"] = deploys]
            /\ pin' = PinNode
            /\ UNCHANGED <<ns, helm, hooks, volume, pod, moved>>

\* The list of the pods fails: a warning, and an exporter without a selector.
CreateExporterBlind ==
    /\ At("exporter") /\ ns = "active" /\ made["exporter"] = 0
    /\ faulty' = TRUE /\ step' = step + 1 /\ UNCHANGED <<unit, deploys, status>>
    /\ made' = [made EXCEPT !["exporter"] = deploys] /\ pin' = NoNode
    /\ UNCHANGED <<ns, helm, hooks, volume, pod, moved>>

Call ==
    \/ Uninstall \/ DropWebhooks \/ DropRoles \/ DropScrapes \/ DeleteNs \/ DropPVs
    \/ Image \/ CreateNs \/ Install \/ AwaitPVC
    \/ CreateExporter \/ CreateExporterBlind
    \/ \E o \in Objects \ {"exporter"} : Create(o)

(***************************************************************************)
(* The cluster on its own.                                                 *)
(***************************************************************************)
NsFinalized == ns = "terminating" /\ NamespaceGone /\ UNCHANGED control

HookServes ==
    /\ hook /\ rel = "deployed" /\ ~serving
    /\ serving' = TRUE
    /\ UNCHANGED <<control, ns, made, helm, hook, volume, place>>

PodStarts ==
    /\ rel = "deployed" /\ unit \in Stacks /\ pod = NoNode
    /\ pod' \in Nodes
    /\ UNCHANGED <<control, ns, made, helm, hooks, volume, pin, moved>>

PodStops ==
    /\ rel = "deployed" /\ pod # NoNode
    /\ pod' = NoNode /\ moved' = TRUE
    /\ UNCHANGED <<control, ns, made, helm, hooks, volume, pin>>

\* A reclaim policy of Delete; a policy of Retain never does this.
VolumeReclaimed ==
    /\ released /\ ~bound
    /\ released' = FALSE /\ data' = {}
    /\ UNCHANGED <<control, ns, made, helm, hooks, bound, place>>

Environment == NsFinalized \/ HookServes \/ PodStarts \/ PodStops \/ VolumeReclaimed

Next == Begin \/ Call \/ Fails \/ UninstallPartly \/ DeleteNsPartly \/ InstallPartly
        \/ Environment

Spec == Init /\ [][Next]_vars

(***************************************************************************)
(* Properties.                                                             *)
(***************************************************************************)
\* Nothing that an earlier run left behind, wherever it failed or was killed,
\* and no unready webhook makes a deployment fail: an error has its cause in
\* this very deployment.
ErrorsAreFresh == status = "failed" => faulty

\* In the namespace the objects of two deployments never stand side by side,
\* not even after a failure.
OneGeneration ==
    /\ \A o, p \in Objects : made[o] > 0 /\ made[p] > 0 => made[o] = made[p]
    /\ \A o \in Objects : made[o] > 0 /\ rel # "none" => made[o] = relBy

\* Cluster-scoped objects of a release always have a record through which the
\* next run finds and removes them.
RolesAreRecorded == roles = "own" => rel # "none"

\* A deployment that reports success has all its objects, its release and its
\* namespace, and all of them are its own.
OkIsWhole ==
    status = "ok" =>
        /\ ns = "active"
        /\ \A i \in 1..Len(Plan[unit]) :
              Plan[unit][i] \in Objects => made[Plan[unit][i]] = deploys
        /\ unit \notin {"metricsProvider", "logProducer"} =>
              rel = "deployed" /\ relBy = deploys

\* The disk exporter is sent to the node of the pod whose volume it reads,
\* unless the pod was restarted; it is sent nowhere only where helm does not wait
\* for that pod or a call was disturbed.
ExporterFollowsPod ==
    status = "ok" /\ unit \in Stacks /\ ~moved =>
        /\ pin \in {pod, NoNode}
        /\ unit \in Awaited /\ ~faulty => pin # NoNode

\* "Deployed from scratch": the stack finds no data of an earlier deployment.
FromScratch == status = "ok" => data \subseteq {deploys}

=============================================================================
