----------------------------- MODULE Deploy_proofs -----------------------------
(***************************************************************************)
(* Proofs about the Up... services, for any nodes and any number of        *)
(* deployments of a unit.                                                  *)
(***************************************************************************)
EXTENDS Deploy, TLAPS

Loads == {"metricsProvider", "logProducer"}

Homes == {"install", "createNs"}

\* What the proofs use of the plans: the order of their operations.
Ordered(P) ==
    \A i, j \in 1..Len(P) :
        /\ P[i] = P[j] => i = j \/ P[i] = "dropWebhooks"
        /\ P[i] = "uninstall" /\ P[j] \in {"deleteNs", "dropRoles"} => i < j
        /\ P[i] \in {"deleteNs", "dropRoles"} /\ P[j] \in Homes => i < j
        /\ P[i] = "dropScrapes" /\ P[j] = "deleteNs" => i < j
        /\ P[i] = "deleteNs" /\ P[j] = "dropPVs" => i < j
        /\ P[i] \in Homes /\ P[j] \in Objects => i < j

Has(P, op) == \E i \in 1..Len(P) : P[i] = op

Complete(u) ==
    /\ Len(Plan[u]) \in Nat \ {0}
    /\ Has(Plan[u], "deleteNs")
    /\ u \notin Loads => /\ Has(Plan[u], "uninstall") /\ Has(Plan[u], "install")
                         /\ ~Has(Plan[u], "createNs")
    /\ u \in Loads => /\ ~Has(Plan[u], "uninstall") /\ ~Has(Plan[u], "install")
                      /\ Has(Plan[u], "createNs")
    /\ u \in Stacks => Has(Plan[u], "exporter")
    /\ Plan[u][Len(Plan[u])] # "exporter"
    /\ u = "victoriametrics" => Has(Plan[u], "dropRoles")

\* Where VictoriaMetrics drops its webhooks, and what must come after it.
Hooked(u) ==
    /\ u = "victoriametrics" =>
          \A i \in 1..Len(Plan[u]) :
              /\ Plan[u][i] = "dropWebhooks" => i \in {2, 8}
              /\ Plan[u][i] = "install" => i = 7
              /\ i \in {2, 8} => Plan[u][i] = "dropWebhooks"
              /\ i = 7 => Plan[u][i] = "install"
              /\ Plan[u][i] = "dropScrapes" => i = 5
              /\ Plan[u][i] = "scrape" => i = 9
    /\ Has(Plan[u], "scrape") \/ Has(Plan[u], "dropScrapes") => u = "victoriametrics"

LEMMA PlansAre ==
    /\ Plan["monitoring"] = Monitoring /\ Plan["prometheus"] = Prometheus
    /\ Plan["victoriametrics"] = VictoriaMetrics /\ Plan["loki"] = Loki
    /\ Plan["opensearch"] = OpenSearch
    /\ Plan["metricsProvider"] = MetricsProvider
    /\ Plan["logProducer"] = LogProducer
    /\ Units = {"monitoring", "prometheus", "victoriametrics", "loki",
                "opensearch", "metricsProvider", "logProducer"}
  BY DEF Plan, Units

LEMMA PlanFacts ==
    ASSUME NEW u \in Units
    PROVE  Ordered(Plan[u]) /\ Complete(u) /\ Hooked(u)
<1> USE DEF Ordered, Complete, Hooked, Has, Homes, Objects, Loads, Stacks
<1>1. CASE u = "monitoring"
  BY <1>1, PlansAre DEF Monitoring
<1>2. CASE u = "prometheus"
  BY <1>2, PlansAre DEF Prometheus
<1>3. CASE u = "victoriametrics"
  <2>1. Ordered(Plan[u])
    BY <1>3, PlansAre DEF VictoriaMetrics
  <2>2. Complete(u) /\ Hooked(u)
    BY <1>3, PlansAre DEF VictoriaMetrics
  <2>3. QED
    BY <2>1, <2>2
<1>4. CASE u = "loki"
  BY <1>4, PlansAre DEF Loki
<1>5. CASE u = "opensearch"
  BY <1>5, PlansAre DEF OpenSearch
<1>6. CASE u = "metricsProvider"
  BY <1>6, PlansAre DEF MetricsProvider
<1>7. CASE u = "logProducer"
  BY <1>7, PlansAre DEF LogProducer
<1>8. QED
  BY <1>1, <1>2, <1>3, <1>4, <1>5, <1>6, <1>7, PlansAre


(***************************************************************************)
(* What a deployment that has not failed has behind it.                    *)
(***************************************************************************)
Going == status \in {"running", "ok"}

Behind == {Plan[unit][i] : i \in {j \in 1..Len(Plan[unit]) : status = "ok" \/ j < step}}

LEMMA AtStep ==
    ASSUME TypeOK, NEW op, At(op)
    PROVE  /\ step \in 1..Len(Plan[unit]) /\ Plan[unit][step] = op
           /\ \A x : x \in Behind <=> \E j \in 1..Len(Plan[unit]) : j < step /\ Plan[unit][j] = x
  BY DEF TypeOK, At, Behind

\* Of a call under way: what has been done, and what has not.
LEMMA AtBehind ==
    ASSUME TypeOK, NEW op, At(op)
    PROVE  /\ op # "dropWebhooks" => op \notin Behind
           /\ op = "uninstall" => "deleteNs" \notin Behind /\ "dropRoles" \notin Behind
           /\ op = "dropScrapes" => "deleteNs" \notin Behind
           /\ op = "dropRoles" => "install" \notin Behind
           /\ op = "deleteNs" => /\ Behind \cap Homes = {} /\ Behind \cap Objects = {}
                                 /\ unit \notin Loads => "uninstall" \in Behind
           /\ op \in Homes => "deleteNs" \in Behind /\ Behind \cap Objects = {}
           /\ op = "install" => /\ unit \notin Loads /\ "uninstall" \in Behind
                                /\ unit = "victoriametrics" => "dropRoles" \in Behind
           /\ op = "createNs" => unit \in Loads
           /\ op \in Objects => /\ "deleteNs" \in Behind
                                /\ unit \notin Loads => "install" \in Behind
                                /\ unit \in Loads => "createNs" \in Behind
<1>1. unit \in Units
  BY DEF TypeOK
<1>2. Ordered(Plan[unit]) /\ Complete(unit) /\ Hooked(unit)
  BY <1>1, PlanFacts
<1> DEFINE P == Plan[unit]
<1>3. Len(P) \in Nat /\ step \in 1..Len(P) /\ P[step] = op
  BY <1>2, AtStep DEF Complete
<1>4. \A x : x \in Behind <=> \E j \in 1..Len(P) : j < step /\ P[j] = x
  BY AtStep
<1>5. \A i \in 1..Len(P) : i < step => P[i] \in Behind
  BY <1>4
<1> HIDE DEF P
<1>6. op # "dropWebhooks" => op \notin Behind
  BY <1>2, <1>3, <1>4 DEF Ordered, P
<1>7. op = "uninstall" => "deleteNs" \notin Behind /\ "dropRoles" \notin Behind
  BY <1>2, <1>3, <1>4 DEF Ordered, P
<1>8. /\ op = "dropScrapes" => "deleteNs" \notin Behind
      /\ op = "dropRoles" => "install" \notin Behind
  BY <1>2, <1>3, <1>4 DEF Ordered, P, Homes
<1>9. \A x \in Homes : op = "deleteNs" => x \notin Behind
  BY <1>2, <1>3, <1>4 DEF Ordered, P
<1>10. \A x \in Objects, i \in 1..Len(P) : P[i] = "deleteNs" /\ P[step] = x => i < step
  <2> SUFFICES ASSUME NEW x \in Objects, NEW i \in 1..Len(P), P[i] = "deleteNs", P[step] = x
               PROVE  i < step
    OBVIOUS
  <2>1. PICK j \in 1..Len(P) : P[j] \in Homes
    BY <1>2 DEF Complete, Has, Homes, P
  <2>2. i < j /\ j < step
    BY <1>2, <1>3, <2>1 DEF Ordered, P
  <2>3. QED
    BY <2>2, <1>3
<1>11. \A x \in Objects : op = "deleteNs" => x \notin Behind
  <2> SUFFICES ASSUME NEW x \in Objects, op = "deleteNs", x \in Behind PROVE FALSE
    OBVIOUS
  <2>1. PICK i \in 1..Len(P) : i < step /\ P[i] = x
    BY <1>4
  <2>2. PICK j \in 1..Len(P) : P[j] \in Homes
    BY <1>2 DEF Complete, Has, Homes, P
  <2>3. step < j /\ j < i
    BY <1>2, <1>3, <2>1, <2>2 DEF Ordered, P
  <2>4. QED
    BY <2>1, <2>3, <1>3
<1>12. op = "deleteNs" /\ unit \notin Loads => "uninstall" \in Behind
  BY <1>2, <1>3, <1>5 DEF Ordered, Complete, Has, P
<1>13. op \in Homes => "deleteNs" \in Behind
  BY <1>2, <1>3, <1>5 DEF Ordered, Complete, Has, P
<1>14. op \in Homes => \A x \in Objects : x \notin Behind
  BY <1>2, <1>3, <1>4 DEF Ordered, P
<1>15. op = "install" => unit \notin Loads
  BY <1>2, <1>3 DEF Complete, Has, P
<1>16. op = "createNs" => unit \in Loads
  BY <1>2, <1>3 DEF Complete, Has, P
<1>17. op = "install" => "uninstall" \in Behind
  <2> SUFFICES ASSUME op = "install" PROVE "uninstall" \in Behind
    OBVIOUS
  <2>1. PICK i \in 1..Len(P) : P[i] = "uninstall"
    BY <1>2, <1>15 DEF Complete, Has, P
  <2>2. PICK j \in 1..Len(P) : P[j] = "deleteNs"
    BY <1>2 DEF Complete, Has, P
  <2>3. i < j /\ j < step
    BY <1>2, <1>3, <2>1, <2>2 DEF Ordered, P, Homes
  <2>4. QED
    BY <2>1, <2>3, <1>3, <1>5
<1>18. op = "install" /\ unit = "victoriametrics" => "dropRoles" \in Behind
  BY <1>2, <1>3, <1>5 DEF Ordered, Complete, Has, P, Homes
<1>19. op \in Objects => "deleteNs" \in Behind
  BY <1>2, <1>3, <1>5, <1>10 DEF Complete, Has, P
<1>20. op \in Objects /\ unit \notin Loads => "install" \in Behind
  BY <1>2, <1>3, <1>5 DEF Ordered, Complete, Has, P, Homes
<1>21. op \in Objects /\ unit \in Loads => "createNs" \in Behind
  BY <1>2, <1>3, <1>5 DEF Ordered, Complete, Has, P, Homes
<1>22. QED
  BY <1>6, <1>7, <1>8, <1>9, <1>11, <1>12, <1>13, <1>14, <1>15, <1>16, <1>17, <1>18,
     <1>19, <1>20, <1>21

\* Of a deployment that has succeeded everything is behind.
LEMMA OkBehind ==
    ASSUME TypeOK, status = "ok"
    PROVE  /\ "deleteNs" \in Behind
           /\ unit \notin Loads => "install" \in Behind
           /\ unit \in Loads => "createNs" \in Behind
           /\ unit \in Stacks => "exporter" \in Behind
           /\ \A i \in 1..Len(Plan[unit]) : Plan[unit][i] \in Behind
<1>1. Complete(unit)
  BY PlanFacts DEF TypeOK
<1>2. \A i \in 1..Len(Plan[unit]) : Plan[unit][i] \in Behind
  BY DEF Behind
<1>3. QED
  BY <1>1, <1>2 DEF Complete, Has

\* A call that ends, and one that does not.
LEMMA EndsBehind ==
    ASSUME TypeOK, NEW op, At(op), Ends
    PROVE  /\ UNCHANGED <<unit, deploys>>
           /\ status' \in {"running", "ok", "failed"}
           /\ step' \in 1..Len(Plan[unit])
           /\ status' = "failed" => faulty' = TRUE
           /\ status' # "failed" => faulty' = faulty /\ Behind' = Behind \cup {op}
           /\ status' = "running" => step' = step + 1
           /\ faulty' \in BOOLEAN
<1>1. unit \in Units /\ Len(Plan[unit]) \in Nat \ {0}
  BY PlanFacts DEF TypeOK, Complete
<1>2. step \in 1..Len(Plan[unit]) /\ Plan[unit][step] = op /\ status = "running"
  BY AtStep DEF At
<1>3. CASE Disturbed
  BY <1>2, <1>3 DEF Disturbed
<1>4. CASE Done /\ step = Len(Plan[unit])
  <2>1. status' = "ok" /\ UNCHANGED <<step, unit, deploys, faulty>>
    BY <1>4 DEF Done
  <2>2. Behind' = {Plan[unit][i] : i \in 1..Len(Plan[unit])}
    BY <2>1 DEF Behind
  <2>3. \A i \in 1..Len(Plan[unit]) : i < step \/ i = step
    BY <1>1, <1>4
  <2>4. Behind' = Behind \cup {op}
    BY <1>2, <2>2, <2>3 DEF Behind
  <2>5. QED
    BY <1>2, <2>1, <2>4 DEF TypeOK
<1>5. CASE Done /\ step # Len(Plan[unit])
  <2>1. status' = "running" /\ step' = step + 1 /\ UNCHANGED <<unit, deploys, faulty>>
    BY <1>2, <1>5 DEF Done
  <2>2. step + 1 \in 1..Len(Plan[unit])
    BY <1>1, <1>2, <1>5
  <2>3. \A i \in 1..Len(Plan[unit]) : i < step + 1 <=> i < step \/ i = step
    BY <1>1, <1>2
  <2>4. Behind' = Behind \cup {op}
    BY <1>2, <2>1, <2>3 DEF Behind
  <2>5. QED
    BY <2>1, <2>2, <2>4 DEF TypeOK
<1>6. QED
  BY <1>3, <1>4, <1>5 DEF Ends


(***************************************************************************)
(* Types.                                                                  *)
(***************************************************************************)
ControlType ==
    /\ unit \in Units /\ deploys \in 0..MaxDeploys
    /\ status \in {"idle", "running", "ok", "failed"}
    /\ step \in 1..Len(Plan[unit])
    /\ faulty \in BOOLEAN

ObjectType ==
    /\ ns \in {"absent", "active", "terminating"}
    /\ made \in [Objects -> 0..deploys]

HelmType ==
    /\ rel \in {"none", "partial", "deployed"} /\ relBy \in 0..deploys
    /\ roles \in {"none", "own", "foreign"}

HookType == hook \in BOOLEAN /\ serving \in BOOLEAN

PlaceType ==
    /\ pod \in Nodes \cup {NoNode} /\ pin \in Nodes \cup {NoNode}
    /\ moved \in BOOLEAN

VolumeType ==
    /\ bound \in BOOLEAN /\ released \in BOOLEAN
    /\ data \subseteq 1..deploys

Typed == ControlType /\ ObjectType /\ HelmType /\ HookType /\ PlaceType /\ VolumeType

LEMMA TypedIsTypeOK == (Typed <=> TypeOK) /\ (Typed' <=> TypeOK')
  BY DEF Typed, TypeOK, ControlType, ObjectType, HelmType, HookType, PlaceType, VolumeType

\* A deployment that has begun has a number.
Counted == status # "idle" => deploys > 0

LEMMA ControlStep ==
    ASSUME Typed, [Next]_vars
    PROVE  ControlType' /\ (unit' = unit) /\ (deploys' = deploys \/ Begin)
<1> USE DEF ControlType
<1>1. TypeOK /\ ControlType
  BY TypedIsTypeOK DEF Typed
<1>2. ASSUME NEW op, At(op), Ends PROVE ControlType' /\ unit' = unit /\ deploys' = deploys
  BY <1>1, <1>2, EndsBehind
<1>3. CASE Disturbed
  BY <1>1, <1>3 DEF Disturbed
<1>4. CASE Refused
  BY <1>1, <1>4 DEF Refused
<1>5. CASE Begin
  <2>1. deploys' \in 0..MaxDeploys
    BY <1>1, <1>5, DeployAssumption DEF Begin
  <2>2. 1 \in 1..Len(Plan[unit])
    BY <1>1, PlanFacts DEF Complete
  <2>3. QED
    BY <1>1, <1>5, <2>1, <2>2 DEF Begin
<1>6. CASE CreateExporterBlind
  <2>1. step + 1 \in 1..Len(Plan[unit])
    BY <1>1, <1>6, AtStep, PlanFacts DEF Complete, CreateExporterBlind
  <2>2. QED
    BY <1>1, <1>6, <2>1 DEF CreateExporterBlind
<1>7. CASE Environment \/ UNCHANGED vars
  BY <1>1, <1>7 DEF Environment, NsFinalized, HookServes, PodStarts, PodStops,
                    VolumeReclaimed, control, vars
<1>8. CASE Call
  BY <1>2, <1>4, <1>6, <1>8 DEF Call, Uninstall, DropWebhooks, DropRoles, DropScrapes,
     DeleteNs, DropPVs, Image, CreateNs, Install, AwaitPVC, CreateExporter, Create
<1>9. CASE Fails \/ UninstallPartly \/ DeleteNsPartly \/ InstallPartly
  BY <1>3, <1>9 DEF Fails, UninstallPartly, DeleteNsPartly, InstallPartly
<1>10. QED
  BY <1>5, <1>7, <1>8, <1>9 DEF Next

\* What is not touched keeps its type, also when the number of deployments grows.
LEMMA TypesKept ==
    ASSUME Typed, ControlType', deploys' = deploys \/ Begin
    PROVE  /\ UNCHANGED <<ns, made>> => ObjectType'
           /\ UNCHANGED helm => HelmType'
           /\ UNCHANGED hooks => HookType'
           /\ UNCHANGED place => PlaceType'
           /\ UNCHANGED volume => VolumeType'
<1>1. deploys \in Nat /\ deploys' \in Nat /\ deploys <= deploys'
  BY DEF Typed, ControlType, Begin
<1>2. \A i : (i \in 0..deploys => i \in 0..deploys') /\ (i \in 1..deploys => i \in 1..deploys')
  BY <1>1
<1>3. UNCHANGED <<ns, made>> => ObjectType'
  BY <1>2 DEF Typed, ObjectType
<1>4. UNCHANGED helm => HelmType'
  BY <1>2 DEF Typed, HelmType, helm
<1>5. UNCHANGED volume => VolumeType'
  <2>1. UNCHANGED volume => data' \subseteq 1..deploys'
    BY <1>2 DEF Typed, VolumeType, volume
  <2>2. QED
    BY <2>1 DEF Typed, VolumeType, volume
<1>6. (UNCHANGED hooks => HookType') /\ (UNCHANGED place => PlaceType')
  BY DEF Typed, HookType, PlaceType, hooks, place
<1>7. QED
  BY <1>3, <1>4, <1>5, <1>6

LEMMA ObjectStep ==
    ASSUME Typed, [Next]_vars
    PROVE  ObjectType'
<1>1. /\ ns \in {"absent", "active", "terminating"} /\ made \in [Objects -> 0..deploys]
      /\ deploys \in Nat /\ 0 \in 0..deploys /\ deploys \in 0..deploys
  BY DEF Typed, ObjectType, ControlType
<1>2. /\ UNCHANGED <<ns, made>> => ObjectType'
      /\ deploys' = deploys \/ Begin
  BY ControlStep, TypesKept
<1>3. UNCHANGED cluster => ObjectType'
  BY <1>2 DEF cluster
<1>4. CASE Begin
  BY <1>3, <1>4 DEF Begin
<1>5. CASE ~Begin
  <2> DEFINE Kept == UNCHANGED made
             Gone == made' = NoObjects
             Put  == \E o \in Objects, k \in {0, deploys} : made' = [made EXCEPT ![o] = k]
  <2>1. deploys' = deploys
    BY <1>2, <1>5
  <2>2. Kept \/ Gone \/ Put => made' \in [Objects -> 0..deploys']
    BY <1>1, <2>1 DEF NoObjects
  <2>3. ns' \in {"absent", "active", "terminating"} /\ (Kept \/ Gone \/ Put) => ObjectType'
    BY <2>2 DEF ObjectType
  <2>4. CASE Call
    <3>1. CASE Uninstall \/ DropWebhooks \/ DropRoles \/ DropPVs \/ AwaitPVC \/ Image
      BY <1>2, <3>1 DEF Uninstall, DropWebhooks, DropRoles, DropPVs, AwaitPVC, Image, cluster
    <3>2. CASE DeleteNs
      BY <2>3, <3>2 DEF DeleteNs, NamespaceGone
    <3>3. CASE CreateNs \/ Install
      BY <1>1, <1>3, <2>3, <3>3 DEF CreateNs, Install, Installs, Refused
    <3>4. CASE DropScrapes
      <4>1. "scrape" \in Objects
        BY DEF Objects
      <4>2. QED
        BY <1>1, <1>3, <2>3, <3>4, <4>1 DEF DropScrapes, Refused
    <3>5. CASE CreateExporter \/ CreateExporterBlind
      <4>1. "exporter" \in Objects
        BY DEF Objects
      <4>2. QED
        BY <1>1, <1>3, <2>3, <3>5, <4>1 DEF CreateExporter, CreateExporterBlind, Refused
    <3>6. ASSUME NEW o \in Objects, Create(o) PROVE ObjectType'
      BY <1>1, <1>3, <2>3, <3>6 DEF Create, Refused
    <3>7. QED
      BY <2>4, <3>1, <3>2, <3>3, <3>4, <3>5, <3>6 DEF Call
  <2>5. CASE Fails \/ UninstallPartly \/ DeleteNsPartly \/ InstallPartly
    BY <1>1, <1>3, <2>3, <2>5
       DEF Fails, UninstallPartly, DeleteNsPartly, InstallPartly, Installs
  <2>6. CASE Environment \/ UNCHANGED vars
    BY <1>1, <1>2, <2>3, <2>6 DEF Environment, NsFinalized, NamespaceGone, HookServes,
       PodStarts, PodStops, VolumeReclaimed, vars, cluster
  <2>7. QED
    BY <1>5, <2>4, <2>5, <2>6 DEF Next
<1>6. QED
  BY <1>4, <1>5

LEMMA HelmStep ==
    ASSUME Typed, [Next]_vars
    PROVE  HelmType' /\ HookType'
<1>1. /\ HelmType /\ HookType /\ deploys \in Nat
      /\ 0 \in 0..deploys /\ deploys \in 0..deploys
  BY DEF Typed, ControlType
<1>2. /\ UNCHANGED helm => HelmType'
      /\ UNCHANGED hooks => HookType'
      /\ deploys' = deploys \/ Begin
  BY ControlStep, TypesKept
<1>3. UNCHANGED cluster => HelmType' /\ HookType'
  BY <1>2 DEF cluster
<1>inst. Installs /\ deploys' = deploys /\ rel' \in {"partial", "deployed"}
         => HelmType' /\ HookType'
  <2>1. (unit \in WithHooks) \in BOOLEAN
    OBVIOUS
  <2>2. Installs => hook' \in BOOLEAN /\ serving' \in BOOLEAN
    BY <2>1 DEF Installs
  <2>3. QED
    BY <1>1, <2>2 DEF Installs, HelmType, HookType
<1>4. CASE Begin
  BY <1>3, <1>4 DEF Begin
<1>5. CASE Call /\ deploys' = deploys
  <2> USE DEF HelmType, HookType
  <2>1. CASE DropWebhooks \/ DropPVs \/ AwaitPVC \/ Image \/ CreateNs \/ DropScrapes
    BY <1>1, <1>2, <1>3, <2>1 DEF DropWebhooks, DropPVs, AwaitPVC, Image, CreateNs,
                                  DropScrapes, Refused
  <2>2. CASE Uninstall \/ DropRoles
    BY <1>1, <1>2, <1>5, <2>2 DEF Uninstall, DropRoles
  <2>3. CASE DeleteNs
    BY <1>1, <1>2, <1>5, <2>3 DEF DeleteNs, NamespaceGone
  <2>4. CASE Install
    <3>1. CASE Refused
      BY <1>3, <3>1 DEF Refused
    <3>2. CASE Installs /\ rel' = "deployed"
      BY <1>inst, <1>5, <3>2
    <3>3. QED
      BY <2>4, <3>1, <3>2 DEF Install
  <2>5. CASE CreateExporter \/ CreateExporterBlind
    BY <1>2, <1>3, <2>5 DEF CreateExporter, CreateExporterBlind, Refused
  <2>6. ASSUME NEW o \in Objects, Create(o) PROVE HelmType' /\ HookType'
    BY <1>2, <1>3, <2>6 DEF Create, Refused
  <2>7. QED
    BY <1>5, <2>1, <2>2, <2>3, <2>4, <2>5, <2>6 DEF Call
<1>6. CASE (Fails \/ UninstallPartly \/ DeleteNsPartly \/ InstallPartly) /\ deploys' = deploys
  <2>1. CASE Fails \/ DeleteNsPartly
    BY <1>2, <1>3, <2>1 DEF Fails, DeleteNsPartly
  <2>2. CASE UninstallPartly
    BY <1>1, <1>6, <2>2 DEF UninstallPartly, HelmType, HookType
  <2>3. CASE InstallPartly
    BY <1>inst, <1>6, <2>3 DEF InstallPartly
  <2>4. QED
    BY <1>6, <2>1, <2>2, <2>3
<1>7. CASE (Environment \/ UNCHANGED vars) /\ deploys' = deploys
  BY <1>1, <1>2, <1>3, <1>7
     DEF Environment, NsFinalized, NamespaceGone, HookServes, PodStarts, PodStops,
         VolumeReclaimed, vars, HelmType, HookType
<1>8. QED
  BY <1>2, <1>4, <1>5, <1>6, <1>7 DEF Next

LEMMA PlaceStep ==
    ASSUME Typed, [Next]_vars
    PROVE  PlaceType'
<1>1. PlaceType
  BY DEF Typed
<1>2. UNCHANGED place => PlaceType'
  BY <1>1 DEF PlaceType, place
<1>3. UNCHANGED cluster => PlaceType'
  BY <1>2 DEF cluster
<1>4. CASE Call
  <2>1. CASE DropWebhooks \/ DropRoles \/ DropPVs \/ AwaitPVC \/ Image \/ CreateNs
             \/ DropScrapes
    BY <1>2, <1>3, <2>1 DEF DropWebhooks, DropRoles, DropPVs, AwaitPVC, Image, CreateNs,
                            DropScrapes, Refused
  <2>2. CASE Uninstall \/ DeleteNs
    BY <1>1, <1>2, <2>2 DEF Uninstall, DeleteNs, NamespaceGone, PlaceType
  <2>inst. CASE Install
    <3>1. Install => Refused \/ (pod' \in Nodes \cup {NoNode} /\ pin' = pin /\ moved' = FALSE)
      BY DEF Install, Installs
    <3>2. QED
      BY <1>1, <1>3, <2>inst, <3>1 DEF PlaceType, Refused
  <2>3. CASE CreateExporter \/ CreateExporterBlind
    BY <1>1, <1>3, <2>3 DEF CreateExporter, CreateExporterBlind, PinNode, Refused, PlaceType
  <2>4. ASSUME NEW o \in Objects, Create(o) PROVE PlaceType'
    BY <1>2, <1>3, <2>4 DEF Create, Refused
  <2>5. QED
    BY <1>4, <2>1, <2>2, <2>inst, <2>3, <2>4 DEF Call
<1>5. CASE Begin \/ Fails \/ UninstallPartly \/ DeleteNsPartly \/ InstallPartly
  BY <1>1, <1>2, <1>3, <1>5
     DEF Begin, Fails, UninstallPartly, DeleteNsPartly, InstallPartly, Installs, PlaceType
<1>6. CASE Environment \/ UNCHANGED vars
  BY <1>1, <1>2, <1>3, <1>6
     DEF Environment, NsFinalized, NamespaceGone, HookServes, PodStarts, PodStops,
         VolumeReclaimed, vars, PlaceType
<1>7. QED
  BY <1>4, <1>5, <1>6 DEF Next

LEMMA VolumeStep ==
    ASSUME Typed, Counted, [Next]_vars
    PROVE  VolumeType'
<1>1. VolumeType /\ deploys \in Nat /\ (status = "running" => deploys \in 1..deploys)
  BY DEF Typed, ControlType, Counted
<1>2. (UNCHANGED volume => VolumeType') /\ (deploys' = deploys \/ Begin)
  BY ControlStep, TypesKept
<1>3. UNCHANGED cluster => VolumeType'
  BY <1>2 DEF cluster
<1>4. CASE Begin
  BY <1>3, <1>4 DEF Begin
<1>5. CASE Call /\ deploys' = deploys
  <2>1. CASE DropWebhooks \/ DropRoles \/ Uninstall \/ AwaitPVC \/ Image \/ CreateNs
             \/ DropScrapes
    BY <1>2, <1>3, <2>1 DEF DropWebhooks, DropRoles, Uninstall, AwaitPVC, Image, CreateNs,
                            DropScrapes, Refused
  <2>2. CASE DeleteNs \/ DropPVs
    BY <1>1, <1>5, <2>2 DEF DeleteNs, NamespaceGone, DropPVs, VolumeType
  <2>3. CASE Install
    <3>1. deploys \in 1..deploys
      BY <1>1, <2>3 DEF Install, At
    <3>2. CASE Installs
      BY <1>1, <1>5, <3>1, <3>2 DEF Installs, VolumeType
    <3>3. QED
      BY <1>3, <2>3, <3>2 DEF Install, Refused
  <2>4. CASE CreateExporter \/ CreateExporterBlind
    BY <1>2, <1>3, <2>4 DEF CreateExporter, CreateExporterBlind, Refused
  <2>5. ASSUME NEW o \in Objects, Create(o) PROVE VolumeType'
    BY <1>2, <1>3, <2>5 DEF Create, Refused
  <2>6. QED
    BY <1>5, <2>1, <2>2, <2>3, <2>4, <2>5 DEF Call
<1>6. CASE (Fails \/ UninstallPartly \/ DeleteNsPartly) /\ deploys' = deploys
  BY <1>2, <1>3, <1>6 DEF Fails, UninstallPartly, DeleteNsPartly
<1>7. CASE InstallPartly /\ deploys' = deploys
  <2>1. deploys \in 1..deploys
    BY <1>1, <1>7 DEF InstallPartly, At
  <2>2. QED
    BY <1>1, <1>7, <2>1 DEF InstallPartly, Installs, VolumeType
<1>8. CASE (Environment \/ UNCHANGED vars) /\ deploys' = deploys
  BY <1>1, <1>2, <1>3, <1>8
     DEF Environment, NsFinalized, NamespaceGone, HookServes, PodStarts, PodStops,
         VolumeReclaimed, vars, VolumeType
<1>9. QED
  BY <1>2, <1>4, <1>5, <1>6, <1>7, <1>8 DEF Next

LEMMA CountedStep ==
    ASSUME Typed, Counted, [Next]_vars
    PROVE  Counted'
<1>1. deploys \in Nat
  BY DEF Typed, ControlType
<1>2. CASE Begin
  BY <1>1, <1>2 DEF Begin, Counted
<1>3. CASE deploys' = deploys /\ (status # "idle" \/ status' = status)
  BY <1>3 DEF Counted
<1>4. deploys' = deploys \/ Begin
  BY ControlStep
<1>5. Call \/ Fails \/ UninstallPartly \/ DeleteNsPartly \/ InstallPartly => status = "running"
  BY DEF Call, Uninstall, DropWebhooks, DropRoles, DropScrapes, DeleteNs, DropPVs, Image,
         CreateNs, Install, AwaitPVC, CreateExporter, CreateExporterBlind, Create, At,
         Fails, UninstallPartly, DeleteNsPartly, InstallPartly
<1>6. Environment \/ UNCHANGED vars => status' = status
  BY DEF Environment, NsFinalized, HookServes, PodStarts, PodStops, VolumeReclaimed, vars,
         control
<1>7. QED
  BY <1>2, <1>3, <1>4, <1>5, <1>6 DEF Next

LEMMA TypedInit == Init => Typed /\ Counted
<1> SUFFICES ASSUME Init PROVE Typed /\ Counted
  OBVIOUS
<1>1. ControlType
  <2>1. unit \in Units /\ Len(Plan[unit]) \in Nat \ {0}
    BY PlanFacts DEF Init, Complete
  <2>2. 1 \in 1..Len(Plan[unit]) /\ 0 \in 0..MaxDeploys
    BY <2>1, DeployAssumption
  <2>3. QED
    BY <2>1, <2>2 DEF Init, ControlType
<1>2. ObjectType /\ HelmType /\ HookType
  <2>1. (roles = "foreign") \in BOOLEAN
    OBVIOUS
  <2>2. HookType
    BY <2>1 DEF Init, HookType
  <2>3. ObjectType /\ HelmType
    BY DEF Init, ObjectType, HelmType, NoObjects
  <2>4. QED
    BY <2>2, <2>3
<1>3. PlaceType /\ VolumeType /\ Counted
  BY DEF Init, PlaceType, VolumeType, Counted
<1>4. QED
  BY <1>1, <1>2, <1>3 DEF Typed

LEMMA TypedStep == Typed /\ Counted /\ [Next]_vars => Typed' /\ Counted'
  BY ControlStep, ObjectStep, HelmStep, PlaceStep, VolumeStep, CountedStep DEF Typed

\* Every state of every deployment is well formed, for all nodes and any number
\* of deployments (Up... of every package under src/obs-bench/internal/services).
THEOREM TypeCorrect == Spec => []TypeOK
  BY TypedInit, TypedStep, TypedIsTypeOK, PTL DEF Spec

(***************************************************************************)
(* The inductive invariant.                                                *)
(***************************************************************************)
\* Whatever happened, and wherever a deployment ended.
Lasting ==
    /\ Counted
    /\ ns = "terminating" \/ unit \in Loads => rel = "none"
    /\ roles = "foreign" => unit = "victoriametrics"
    /\ ErrorsAreFresh
    /\ OneGeneration
    /\ RolesAreRecorded

\* What the calls behind a deployment have taken away.
Uninstalled == Going /\ "uninstall" \in Behind /\ "install" \notin Behind => rel = "none"

RolesFree == Going /\ "dropRoles" \in Behind => roles # "foreign"

HookFree ==
    status = "running" /\ unit = "victoriametrics" /\ (step \in 3..7 \/ step > 8) => ~hook

\* From the deletion of the namespace on, what is in it is what was built since.
Clean == Going /\ "deleteNs" \in Behind

Built == Clean =>
    /\ ns = IF Behind \cap Homes = {} THEN "absent" ELSE "active"
    /\ \A o \in Objects : made[o] = IF o \in Behind THEN deploys ELSE 0

Installed == Clean /\ "install" \in Behind => rel = "deployed" /\ relBy = deploys

Placed == Clean /\ "install" \in Behind /\ ~moved =>
    /\ unit \in Awaited => pod # NoNode
    /\ "exporter" \in Behind => /\ pin \in {pod, NoNode}
                                /\ unit \in Awaited /\ ~faulty => pin # NoNode

SoFar == Uninstalled /\ RolesFree /\ HookFree /\ Built /\ Installed /\ Placed

IInv == Lasting /\ SoFar

\* A deployment that has failed, or has not begun, claims nothing about the cluster.
LEMMA NothingClaimed == (~Going => SoFar) /\ (~Going' => SoFar')
  BY DEF Going, Clean, SoFar, Uninstalled, RolesFree, HookFree, Built, Installed, Placed

\* No call is refused: this is where an earlier run's remains would bite.
LEMMA NotRefused ==
    ASSUME TypeOK, IInv
    PROVE  /\ At("dropScrapes") => ~hook
           /\ At("createNs") => ns = "absent"
           /\ At("install") => Installable
           /\ \A o \in Objects : At(o) => /\ ns = "active" /\ made[o] = 0
                                          /\ o = "scrape" => ~hook
<1>1. Hooked(unit)
  BY PlanFacts DEF TypeOK
<1>2. At("dropScrapes") => ~hook
  <2> SUFFICES ASSUME At("dropScrapes") PROVE ~hook
    OBVIOUS
  <2>1. unit = "victoriametrics" /\ step = 5
    BY <1>1, AtStep DEF Hooked, Has
  <2>2. QED
    BY <2>1 DEF At, IInv, SoFar, HookFree
<1>3. At("createNs") => ns = "absent"
  <2> SUFFICES ASSUME At("createNs") PROVE ns = "absent"
    OBVIOUS
  <2>1. "createNs" \notin Behind /\ "deleteNs" \in Behind /\ unit \in Loads /\ Going
    BY AtBehind DEF At, Homes, Going
  <2>2. "install" \notin Behind
    <3>1. Complete(unit)
      BY PlanFacts DEF TypeOK
    <3>2. QED
      BY <2>1, <3>1, AtStep DEF Complete, Has
  <2>3. Behind \cap Homes = {}
    BY <2>1, <2>2 DEF Homes
  <2>4. QED
    BY <2>1, <2>3 DEF IInv, SoFar, Built, Clean
<1>4. At("install") => Installable
  <2> SUFFICES ASSUME At("install") PROVE Installable
    OBVIOUS
  <2>1. "install" \notin Behind /\ "uninstall" \in Behind /\ "deleteNs" \in Behind
        /\ Behind \cap Objects = {} /\ unit \notin Loads
        /\ (unit = "victoriametrics" => "dropRoles" \in Behind) /\ Going
    BY AtBehind DEF At, Homes, Going
  <2>2. "createNs" \notin Behind
    <3>1. Complete(unit)
      BY PlanFacts DEF TypeOK
    <3>2. QED
      BY <2>1, <3>1, AtStep DEF Complete, Has
  <2>3. Behind \cap Homes = {}
    BY <2>1, <2>2 DEF Homes
  <2>4. ns = "absent" /\ rel = "none"
    BY <2>1, <2>3 DEF IInv, SoFar, Built, Clean, Uninstalled
  <2>5. roles # "foreign"
    BY <2>1 DEF IInv, Lasting, SoFar, RolesFree
  <2>6. QED
    BY <2>4, <2>5 DEF Installable
<1>5. ASSUME NEW o \in Objects, At(o)
      PROVE  ns = "active" /\ made[o] = 0 /\ (o = "scrape" => ~hook)
  <2>1. "deleteNs" \in Behind /\ Behind \cap Homes # {} /\ o \notin Behind /\ Going
    BY <1>5, AtBehind DEF At, Homes, Going, Objects
  <2>2. ns = "active" /\ made[o] = 0
    BY <2>1 DEF IInv, SoFar, Built, Clean
  <2>3. ASSUME o = "scrape" PROVE ~hook
    <3>1. unit = "victoriametrics" /\ step = 9
      BY <1>1, <1>5, <2>3, AtStep DEF Hooked, Has
    <3>2. QED
      BY <1>5, <3>1 DEF At, IInv, SoFar, HookFree
  <2>4. QED
    BY <2>2, <2>3
<1>6. QED
  BY <1>2, <1>3, <1>4, <1>5

\* What a call that returns nil adds to what is behind the deployment.
Returns(op) ==
    /\ Going /\ Going' /\ UNCHANGED <<unit, deploys>>
    /\ Behind' = Behind \cup {op}
    /\ status' = "running" => step' = step + 1
    /\ faulty => faulty'

LEMMA EndsOrReturns ==
    ASSUME TypeOK, NEW op, At(op), Ends
    PROVE  /\ UNCHANGED <<unit, deploys>>
           /\ status' \in {"running", "ok", "failed"}
           /\ status' = "failed" => faulty'
           /\ status' # "failed" => Returns(op) /\ Going'
  BY EndsBehind DEF Returns, Going, At

\* Where the webhooks of VictoriaMetrics stand after a call.
LEMMA HookStep ==
    ASSUME TypeOK, IInv, NEW op, At(op), Returns(op), op # "install",
           IF op = "dropWebhooks" THEN ~hook' ELSE hook' => hook
    PROVE  HookFree'
<1> SUFFICES ASSUME status' = "running", unit = "victoriametrics", step' \in 3..7 \/ step' > 8,
                    hook'
             PROVE  FALSE
  BY DEF HookFree, Returns
<1>1. Hooked(unit)
  BY PlanFacts DEF TypeOK
<1>2. step' = step + 1 /\ step \in Nat /\ step \in 1..Len(Plan[unit]) /\ Plan[unit][step] = op
  BY AtStep DEF Returns
<1>3. step \notin {2, 7, 8}
  BY <1>1, <1>2 DEF Hooked
<1>4. step \in 3..7 \/ step > 8
  BY <1>2, <1>3
<1>5. QED
  BY <1>1, <1>2, <1>3, <1>4 DEF IInv, SoFar, HookFree, At, Hooked

(***************************************************************************)
(* One lemma per kind of step.                                             *)
(***************************************************************************)
LEMMA QuietCall ==
    ASSUME TypeOK, IInv, NEW op \in {"image", "awaitPVC", "dropPVs"}, At(op), Ends,
           UNCHANGED <<ns, made, helm, hook, place>>
    PROVE  IInv'
<1>1. Lasting'
  BY EndsOrReturns DEF IInv, Lasting, Counted, ErrorsAreFresh, OneGeneration,
     RolesAreRecorded, helm, At
<1>2. CASE status' # "failed"
  <2>1. Returns(op) /\ op \notin Homes \cup Objects \cup {"uninstall", "dropRoles", "deleteNs"}
    BY <1>2, EndsOrReturns DEF Homes, Objects
  <2>2. HookFree'
    BY <2>1, HookStep
  <2>3. Uninstalled' /\ RolesFree'
    BY <2>1 DEF Returns, IInv, SoFar, Uninstalled, RolesFree, Homes, helm
  <2>4. (Clean' => Clean) /\ Behind' \cap Homes = Behind \cap Homes
        /\ \A o \in Objects \cup Homes : o \in Behind' <=> o \in Behind
    BY <2>1 DEF Returns, Clean
  <2>5. Built'
    BY <2>1, <2>4 DEF Returns, IInv, SoFar, Built
  <2>6. Installed' /\ Placed'
    BY <2>1, <2>4 DEF Returns, IInv, SoFar, Installed, Placed, Homes, Objects, helm, place
  <2>7. QED
    BY <1>1, <2>2, <2>3, <2>5, <2>6 DEF IInv, SoFar
<1>3. CASE status' = "failed"
  BY <1>1, <1>3, NothingClaimed DEF IInv, Going
<1>4. QED
  BY <1>2, <1>3 DEF Going

LEMMA TakingAway ==
    ASSUME TypeOK, IInv, Uninstall \/ DropWebhooks \/ DropRoles
    PROVE  IInv'
<1> DEFINE op == IF Uninstall THEN "uninstall"
                 ELSE IF DropWebhooks THEN "dropWebhooks" ELSE "dropRoles"
<1>1. At(op) /\ Ends /\ op \in {"uninstall", "dropWebhooks", "dropRoles"}
  BY DEF Uninstall, DropWebhooks, DropRoles
<1>2. /\ UNCHANGED <<ns, made, pin, moved>>
      /\ hook' => hook
      /\ IF op = "uninstall" /\ rel # "none"
         THEN rel' = "none" /\ relBy' = 0 /\ roles' = IF roles = "own" THEN "none" ELSE roles
         ELSE UNCHANGED <<rel, relBy, pod>>
      /\ op = "dropRoles" => roles' = "none"
      /\ op = "dropWebhooks" \/ (rel = "none" /\ op = "uninstall") => UNCHANGED roles
      /\ op = "dropWebhooks" => ~hook'
  BY DEF Uninstall, DropWebhooks, DropRoles, helm, hooks, place
<1> HIDE DEF op
<1>3. Lasting'
  BY <1>1, <1>2, EndsOrReturns DEF IInv, Lasting, Counted, ErrorsAreFresh, OneGeneration,
     RolesAreRecorded, At
<1>4. CASE status' # "failed"
  <2>1. Returns(op) /\ op \notin Homes \cup Objects \cup {"deleteNs"}
    BY <1>1, <1>4, EndsOrReturns DEF Homes, Objects
  <2>2. HookFree'
    BY <1>1, <1>2, <2>1, HookStep
  <2>3. Uninstalled' /\ RolesFree'
    BY <1>1, <1>2, <2>1 DEF Returns, IInv, SoFar, Uninstalled, RolesFree, Homes
  <2>4. (Clean' => Clean) /\ \A o \in Objects \cup Homes : o \in Behind' <=> o \in Behind
    BY <2>1 DEF Returns, Clean
  <2>5. Built'
    BY <1>2, <2>1, <2>4 DEF Returns, IInv, SoFar, Built
  <2>6. op = "uninstall" => ~Clean'
    BY <1>1, <2>1, AtBehind DEF Returns, Clean
  <2>7. Installed' /\ Placed'
    BY <1>1, <1>2, <2>1, <2>4, <2>6
       DEF Returns, IInv, SoFar, Installed, Placed, Homes, Objects
  <2>8. QED
    BY <1>3, <2>2, <2>3, <2>5, <2>7 DEF IInv, SoFar
<1>5. CASE status' = "failed"
  BY <1>3, <1>5, NothingClaimed DEF IInv, Going
<1>6. QED
  BY <1>4, <1>5

LEMMA DeletingNs ==
    ASSUME TypeOK, IInv, DeleteNs
    PROVE  IInv'
<1> DEFINE op == "deleteNs"
<1>1. At(op) /\ Ends /\ NamespaceGone
  BY DEF DeleteNs
<1>2. roles # "own"
  <2>1. CASE unit \in Loads
    BY <2>1 DEF IInv, Lasting, RolesAreRecorded
  <2>2. CASE unit \notin Loads
    <3>1. "uninstall" \in Behind /\ "install" \notin Behind /\ Going
      BY <1>1, <2>2, AtBehind DEF Homes, At, Going
    <3>2. QED
      BY <3>1 DEF IInv, Lasting, RolesAreRecorded, SoFar, Uninstalled
  <2>3. QED
    BY <2>1, <2>2
<1>3. Lasting'
  BY <1>1, <1>2, EndsOrReturns DEF IInv, Lasting, Counted, ErrorsAreFresh, OneGeneration,
     RolesAreRecorded, At, NamespaceGone, NoObjects
<1>4. CASE status' # "failed"
  <2>1. Returns(op)
    BY <1>1, <1>4, EndsOrReturns
  <2>2. HookFree'
    BY <1>1, <2>1, HookStep DEF NamespaceGone, hooks
  <2>3. Uninstalled' /\ RolesFree'
    BY <1>1, <2>1 DEF Returns, IInv, SoFar, Uninstalled, RolesFree, NamespaceGone
  <2>4. Behind' \cap Homes = {} /\ (\A o \in Objects : o \notin Behind') /\ "install" \notin Behind'
    BY <1>1, <2>1, AtBehind DEF Returns, Homes, Objects
  <2>5. Built'
    BY <1>1, <2>4 DEF Built, NamespaceGone, NoObjects
  <2>6. Installed' /\ Placed'
    BY <2>4 DEF Installed, Placed
  <2>7. QED
    BY <1>3, <2>2, <2>3, <2>5, <2>6 DEF IInv, SoFar
<1>5. CASE status' = "failed"
  BY <1>3, <1>5, NothingClaimed DEF IInv, Going
<1>6. QED
  BY <1>4, <1>5

LEMMA DroppingScrapes ==
    ASSUME TypeOK, IInv, DropScrapes
    PROVE  IInv'
<1> DEFINE op == "dropScrapes"
<1>1. /\ At(op) /\ Ends /\ made' = [made EXCEPT !["scrape"] = 0]
      /\ UNCHANGED <<ns, helm, hooks, volume, place>>
  BY NotRefused DEF DropScrapes
<1>2. \A o \in Objects : made'[o] \in {made[o], 0}
  BY <1>1 DEF TypeOK
<1>3. Lasting'
  BY <1>1, <1>2, EndsOrReturns DEF IInv, Lasting, Counted, ErrorsAreFresh, OneGeneration,
     RolesAreRecorded, At, helm, TypeOK
<1>4. CASE status' # "failed"
  <2>1. Returns(op)
    BY <1>1, <1>4, EndsOrReturns
  <2>2. HookFree'
    BY <1>1, <2>1, HookStep DEF hooks
  <2>3. Uninstalled' /\ RolesFree'
    BY <1>1, <2>1 DEF Returns, IInv, SoFar, Uninstalled, RolesFree, helm
  <2>4. ~Clean'
    BY <1>1, <2>1, AtBehind DEF Returns, Clean
  <2>5. QED
    BY <1>3, <2>2, <2>3, <2>4 DEF IInv, SoFar, Built, Installed, Placed
<1>5. CASE status' = "failed"
  BY <1>3, <1>5, NothingClaimed DEF IInv, Going
<1>6. QED
  BY <1>4, <1>5

LEMMA CreatingNs ==
    ASSUME TypeOK, IInv, CreateNs
    PROVE  IInv'
<1> DEFINE op == "createNs"
<1>1. At(op) /\ Ends /\ ns' = "active" /\ UNCHANGED <<made, helm, hooks, volume, place>>
  BY NotRefused DEF CreateNs
<1>2. Lasting'
  BY <1>1, EndsOrReturns DEF IInv, Lasting, Counted, ErrorsAreFresh, OneGeneration,
     RolesAreRecorded, At, helm
<1>3. CASE status' # "failed"
  <2>1. Returns(op)
    BY <1>1, <1>3, EndsOrReturns
  <2>2. HookFree'
    BY <1>1, <2>1, HookStep DEF hooks
  <2>3. Uninstalled' /\ RolesFree'
    BY <1>1, <2>1 DEF Returns, IInv, SoFar, Uninstalled, RolesFree, helm
  <2>4. /\ Clean /\ op \in Behind' \cap Homes
        /\ \A o \in Objects : o \notin Behind /\ o \notin Behind'
        /\ "install" \in Behind' => "install" \in Behind
    BY <1>1, <2>1, AtBehind DEF Returns, Homes, Objects, Clean
  <2>5. Built'
    BY <1>1, <2>1, <2>4 DEF IInv, SoFar, Built, Returns
  <2>6. Installed' /\ Placed'
    BY <1>1, <2>1, <2>4 DEF Returns, IInv, SoFar, Installed, Placed, helm, place, Objects
  <2>7. QED
    BY <1>2, <2>2, <2>3, <2>5, <2>6 DEF IInv, SoFar
<1>4. CASE status' = "failed"
  BY <1>2, <1>4, NothingClaimed DEF IInv, Going
<1>5. QED
  BY <1>3, <1>4

\* What helm puts into the cluster, with or without success.
LEMMA InstallLasts ==
    ASSUME TypeOK, IInv, At("install"), Installable, Ends, Installs, rel' # "none"
    PROVE  Lasting'
<1>1. Clean /\ (\A o \in Objects : o \notin Behind) /\ unit \notin Loads
  BY AtBehind DEF Homes, Clean, Going, At
<1>2. \A o \in Objects : made[o] = 0
  BY <1>1 DEF IInv, SoFar, Built
<1>3. OneGeneration'
  BY <1>2 DEF OneGeneration, Installs
<1>4. QED
  BY <1>1, <1>3, EndsOrReturns DEF IInv, Lasting, Counted, ErrorsAreFresh,
     RolesAreRecorded, At, Installs

LEMMA Installing ==
    ASSUME TypeOK, IInv, Install
    PROVE  IInv'
<1> DEFINE op == "install"
<1>1. /\ At(op) /\ Ends /\ Installs /\ Installable
      /\ rel' = "deployed" /\ moved' = FALSE
      /\ unit \in Awaited => pod' \in Nodes
  BY NotRefused DEF Install
<1>2. Lasting'
  BY <1>1, InstallLasts
<1>3. CASE status' # "failed"
  <2>1. Returns(op)
    BY <1>1, <1>3, EndsOrReturns
  <2>2. /\ Clean /\ op \in Behind' \cap Homes /\ op \in Behind'
        /\ \A o \in Objects : o \notin Behind /\ o \notin Behind'
    BY <1>1, <2>1, AtBehind DEF Returns, Homes, Objects, Clean
  <2>3. HookFree'
    <3> SUFFICES ASSUME status' = "running", unit = "victoriametrics"
                 PROVE  step' = 8
      BY <2>1 DEF HookFree, Returns
    <3>1. Hooked(unit)
      BY PlanFacts DEF TypeOK
    <3>2. QED
      BY <1>1, <2>1, <3>1, AtStep DEF Hooked, Returns
  <2>4. Uninstalled' /\ RolesFree'
    BY <1>1, <2>2 DEF Uninstalled, RolesFree, Installs
  <2>5. Built'
    BY <1>1, <2>1, <2>2 DEF IInv, SoFar, Built, Installs, Returns
  <2>6. pod' # NoNode \/ unit \notin Awaited
    BY <1>1, DeployAssumption
  <2>7. Installed' /\ Placed'
    BY <1>1, <2>1, <2>2, <2>6 DEF Returns, Installed, Placed, Installs, Objects
  <2>8. QED
    BY <1>2, <2>3, <2>4, <2>5, <2>7 DEF IInv, SoFar
<1>4. CASE status' = "failed"
  BY <1>2, <1>4, NothingClaimed DEF IInv, Going
<1>5. QED
  BY <1>3, <1>4

\* The objects the code creates itself, each by a create that must not find it.
LEMMA CreateLasts ==
    ASSUME TypeOK, IInv, NEW o \in Objects, At(o),
           status' = "failed" => faulty', unit' = unit, deploys' = deploys,
           made' = [made EXCEPT ![o] = deploys], UNCHANGED <<ns, helm>>
    PROVE  Lasting'
<1>1. Clean /\ (unit \in Loads \/ "install" \in Behind)
  BY AtBehind DEF Clean, Going, At
<1>2. \A p \in Objects : made[p] \in {0, deploys}
  BY <1>1 DEF IInv, SoFar, Built
<1>3. rel # "none" => relBy = deploys
  BY <1>1 DEF IInv, SoFar, Lasting, Installed
<1>4. OneGeneration'
  BY <1>2, <1>3 DEF OneGeneration, helm, TypeOK
<1>5. QED
  BY <1>4 DEF IInv, Lasting, Counted, ErrorsAreFresh, RolesAreRecorded, At, helm

LEMMA CreateBuilds ==
    ASSUME TypeOK, IInv, NEW o \in Objects, At(o), Returns(o),
           made' = [made EXCEPT ![o] = deploys], UNCHANGED <<ns, helm, hooks>>
    PROVE  /\ Uninstalled' /\ RolesFree' /\ HookFree' /\ Built' /\ Installed'
           /\ Clean /\ (unit \notin Loads => "install" \in Behind)
<1>1. o \notin {"uninstall", "dropRoles", "deleteNs", "install", "createNs", "dropWebhooks"}
  BY DEF Objects
<1>2. HookFree'
  BY <1>1, HookStep DEF hooks
<1>3. Uninstalled' /\ RolesFree'
  BY <1>1 DEF Returns, IInv, SoFar, Uninstalled, RolesFree, helm
<1>4. Clean /\ (unit \notin Loads => "install" \in Behind) /\ Behind \cap Homes # {}
  BY AtBehind DEF Clean, Returns, Homes
<1>5. \A x : x \in Behind' <=> x \in Behind \/ x = o
  BY DEF Returns
<1>6. Built'
  <2>1. ns' = "active" /\ Behind' \cap Homes # {}
    BY <1>4, <1>5 DEF IInv, SoFar, Built
  <2>2. \A p \in Objects : made'[p] = IF p \in Behind' THEN deploys' ELSE 0
    BY <1>4, <1>5 DEF IInv, SoFar, Built, TypeOK, Returns
  <2>3. QED
    BY <2>1, <2>2 DEF Built
<1>7. Installed'
  BY <1>1, <1>4, <1>5 DEF IInv, SoFar, Installed, Returns, helm
<1>8. QED
  BY <1>2, <1>3, <1>4, <1>6, <1>7

LEMMA Creating ==
    ASSUME TypeOK, IInv, NEW o \in Objects \ {"exporter"}, Create(o)
    PROVE  IInv'
<1>1. /\ At(o) /\ Ends /\ made' = [made EXCEPT ![o] = deploys]
      /\ UNCHANGED <<ns, helm, hooks, volume, place>>
  BY NotRefused DEF Create
<1>2. Lasting'
  BY <1>1, CreateLasts, EndsOrReturns
<1>3. CASE status' # "failed"
  <2>1. Returns(o)
    BY <1>1, <1>3, EndsOrReturns
  <2>2. Uninstalled' /\ RolesFree' /\ HookFree' /\ Built' /\ Installed'
        /\ Clean /\ (unit \notin Loads => "install" \in Behind)
    BY <1>1, <2>1, CreateBuilds
  <2>3. /\ "exporter" \in Behind' => "exporter" \in Behind
        /\ "install" \in Behind' => "install" \in Behind
    BY <2>1 DEF Returns, Objects
  <2>4. Placed'
    BY <1>1, <2>1, <2>2, <2>3 DEF IInv, SoFar, Placed, Returns, place
  <2>5. QED
    BY <1>2, <2>2, <2>4 DEF IInv, SoFar
<1>4. CASE status' = "failed"
  BY <1>2, <1>4, NothingClaimed DEF IInv, Going
<1>5. QED
  BY <1>3, <1>4

LEMMA CreatingExporter ==
    ASSUME TypeOK, IInv, CreateExporter
    PROVE  IInv'
<1> DEFINE o == "exporter"
<1>1. o \in Objects /\ (unit \in Awaited => unit \notin Loads)
  BY DEF Objects, Awaited, Stacks, Loads
<1>2. /\ At(o) /\ Ends /\ made' = [made EXCEPT ![o] = deploys] /\ pin' = pod
      /\ UNCHANGED <<ns, helm, hooks, volume, pod, moved>>
  BY <1>1, NotRefused DEF CreateExporter, PinNode
<1>3. Lasting'
  BY <1>1, <1>2, CreateLasts, EndsOrReturns
<1>4. CASE status' # "failed"
  <2>1. Returns(o)
    BY <1>2, <1>4, EndsOrReturns
  <2>2. Uninstalled' /\ RolesFree' /\ HookFree' /\ Built' /\ Installed'
        /\ Clean /\ (unit \notin Loads => "install" \in Behind)
    BY <1>1, <1>2, <2>1, CreateBuilds
  <2>3. Placed'
    BY <1>1, <1>2, <2>1, <2>2 DEF IInv, SoFar, Placed, Returns
  <2>4. QED
    BY <1>3, <2>2, <2>3 DEF IInv, SoFar
<1>5. CASE status' = "failed"
  BY <1>3, <1>5, NothingClaimed DEF IInv, Going
<1>6. QED
  BY <1>4, <1>5

LEMMA CreatingBlind ==
    ASSUME TypeOK, IInv, CreateExporterBlind
    PROVE  IInv'
<1> DEFINE o == "exporter"
<1>1. o \in Objects
  BY DEF Objects
<1>2. /\ At(o) /\ made' = [made EXCEPT ![o] = deploys] /\ pin' = NoNode /\ faulty'
      /\ step' = step + 1 /\ UNCHANGED <<unit, deploys, status>>
      /\ UNCHANGED <<ns, helm, hooks, volume, pod, moved>>
  BY DEF CreateExporterBlind
<1>3. Lasting'
  BY <1>1, <1>2, CreateLasts
<1>4. Returns(o)
  <2>1. /\ step \in 1..Len(Plan[unit]) /\ Plan[unit][step] = o /\ Len(Plan[unit]) \in Nat
        /\ status = "running"
    BY <1>2, AtStep, PlanFacts DEF TypeOK, Complete, At
  <2>2. \A i \in 1..Len(Plan[unit]) : i < step + 1 <=> i < step \/ i = step
    BY <2>1
  <2>3. Behind' = Behind \cup {o}
    BY <1>2, <2>1, <2>2 DEF Behind
  <2>4. QED
    BY <1>2, <2>1, <2>3 DEF Returns, Going
<1>5. Uninstalled' /\ RolesFree' /\ HookFree' /\ Built' /\ Installed'
      /\ Clean /\ (unit \notin Loads => "install" \in Behind)
  BY <1>1, <1>2, <1>4, CreateBuilds
<1>6. unit \in Awaited => unit \notin Loads
  BY DEF Awaited, Stacks, Loads
<1>7. Placed'
  BY <1>2, <1>4, <1>5, <1>6 DEF IInv, SoFar, Placed, Returns
<1>8. QED
  BY <1>3, <1>5, <1>7 DEF IInv, SoFar

\* A call that fails before or after its effect, or in the midst of it.
LEMMA Interrupted ==
    ASSUME TypeOK, IInv, Fails \/ UninstallPartly \/ DeleteNsPartly \/ InstallPartly
    PROVE  IInv'
<1>1. Disturbed /\ status = "running"
  BY DEF Fails, UninstallPartly, DeleteNsPartly, InstallPartly, At
<1>2. ~Going'
  BY <1>1 DEF Disturbed, Going
<1>3. Lasting'
  <2>1. CASE Fails
    BY <1>1, <2>1 DEF Fails, Disturbed, IInv, Lasting, Counted, ErrorsAreFresh,
       OneGeneration, RolesAreRecorded, cluster, helm
  <2>2. CASE UninstallPartly
    BY <1>1, <2>2 DEF UninstallPartly, Disturbed, IInv, Lasting, Counted, ErrorsAreFresh,
       OneGeneration, RolesAreRecorded
  <2>3. CASE DeleteNsPartly
    <3>1. rel = "none"
      <4>1. CASE unit \in Loads
        BY <4>1 DEF IInv, Lasting
      <4>2. CASE unit \notin Loads
        <5>1. "uninstall" \in Behind /\ "install" \notin Behind /\ Going
          BY <2>3, <4>2, AtBehind DEF DeleteNsPartly, Homes, At, Going
        <5>2. QED
          BY <5>1 DEF IInv, SoFar, Uninstalled
      <4>3. QED
        BY <4>1, <4>2
    <3>2. QED
      BY <1>1, <2>3, <3>1 DEF DeleteNsPartly, Disturbed, IInv, Lasting, Counted,
         ErrorsAreFresh, OneGeneration, RolesAreRecorded, helm
  <2>4. CASE InstallPartly
    BY <2>4, InstallLasts DEF InstallPartly, Ends
  <2>5. QED
    BY <2>1, <2>2, <2>3, <2>4
<1>4. QED
  BY <1>2, <1>3, NothingClaimed DEF IInv

\* The cluster on its own.
LEMMA ClusterMoves ==
    ASSUME TypeOK, IInv, Environment
    PROVE  IInv'
<1>1. UNCHANGED <<unit, deploys, status, step, faulty>>
  BY DEF Environment, NsFinalized, HookServes, PodStarts, PodStops, VolumeReclaimed, control
<1>2. Behind' = Behind /\ (Going' <=> Going) /\ (Clean' <=> Clean)
  BY <1>1 DEF Behind, Going, Clean
<1>3. CASE NsFinalized
  <2>1. rel = "none" /\ ns = "terminating"
    BY <1>3 DEF NsFinalized, IInv, Lasting
  <2>2. ~Clean
    BY <2>1 DEF IInv, SoFar, Built
  <2>3. Lasting'
    BY <1>1, <1>3, <2>1 DEF NsFinalized, NamespaceGone, NoObjects, IInv, Lasting, Counted,
       ErrorsAreFresh, OneGeneration, RolesAreRecorded
  <2>4. Uninstalled' /\ RolesFree' /\ HookFree'
    BY <1>1, <1>2, <1>3 DEF NsFinalized, NamespaceGone, IInv, SoFar, Uninstalled, RolesFree,
       HookFree, hooks
  <2>5. Built' /\ Installed' /\ Placed'
    BY <1>2, <2>2 DEF Built, Installed, Placed
  <2>6. QED
    BY <2>3, <2>4, <2>5 DEF IInv, SoFar
<1>4. CASE ~NsFinalized
  <2>1. UNCHANGED <<ns, made, rel, relBy, roles, hook, pin>>
    BY <1>4 DEF Environment, HookServes, PodStarts, PodStops, VolumeReclaimed, helm, hooks, place
  <2>2. Lasting'
    BY <1>1, <2>1 DEF IInv, Lasting, Counted, ErrorsAreFresh, OneGeneration, RolesAreRecorded
  <2>3. Uninstalled' /\ RolesFree' /\ HookFree' /\ Built' /\ Installed'
    BY <1>1, <1>2, <2>1
       DEF IInv, SoFar, Uninstalled, RolesFree, HookFree, Built, Installed
  <2>4. Placed'
    <3>1. \/ UNCHANGED <<pod, moved>>
          \/ pod = NoNode /\ pod' \in Nodes /\ moved' = moved
          \/ moved' = TRUE
      BY <1>4 DEF Environment, HookServes, PodStarts, PodStops, VolumeReclaimed, place
    <3>2. NoNode \notin Nodes
      BY DeployAssumption
    <3>3. QED
      BY <1>1, <1>2, <2>1, <3>1, <3>2 DEF IInv, SoFar, Placed
  <2>5. QED
    BY <2>2, <2>3, <2>4 DEF IInv, SoFar
<1>5. QED
  BY <1>3, <1>4

LEMMA Beginning ==
    ASSUME TypeOK, IInv, Begin
    PROVE  IInv'
<1>1. Behind' = {}
  <2>1. status' = "running" /\ step' = 1
    BY DEF Begin
  <2>2. \A j \in 1..Len(Plan[unit']) : ~(j < 1)
    <3>1. Len(Plan[unit']) \in Nat
      BY PlanFacts DEF TypeOK, Complete, Begin
    <3>2. QED
      BY <3>1
  <2>3. QED
    BY <2>1, <2>2 DEF Behind
<1>2. Lasting'
  BY DEF Begin, cluster, helm, IInv, Lasting, Counted, ErrorsAreFresh, OneGeneration,
     RolesAreRecorded, TypeOK
<1>3. HookFree'
  BY DEF Begin, HookFree
<1>4. QED
  BY <1>1, <1>2, <1>3
     DEF IInv, SoFar, Uninstalled, RolesFree, Built, Installed, Placed, Clean

LEMMA IInvInit == Init => IInv
<1> SUFFICES ASSUME Init PROVE IInv
  OBVIOUS
<1>1. Lasting
  BY DEF Init, Lasting, Counted, ErrorsAreFresh, OneGeneration, RolesAreRecorded, NoObjects
<1>2. QED
  BY <1>1, NothingClaimed DEF Init, Going, IInv

LEMMA IInvStep == TypeOK /\ IInv /\ [Next]_vars => IInv'
<1> SUFFICES ASSUME TypeOK, IInv, [Next]_vars PROVE IInv'
  OBVIOUS
<1>1. CASE Call
  <2>1. CASE Uninstall \/ DropWebhooks \/ DropRoles
    BY <2>1, TakingAway
  <2>2. CASE DropScrapes \/ DeleteNs \/ CreateNs \/ Install
    BY <2>2, DroppingScrapes, DeletingNs, CreatingNs, Installing
  <2>3. CASE Image \/ AwaitPVC \/ DropPVs
    <3>1. PICK op \in {"image", "awaitPVC", "dropPVs"} :
             At(op) /\ Ends /\ UNCHANGED <<ns, made, helm, hook, place>>
      BY <2>3 DEF Image, AwaitPVC, DropPVs, cluster, hooks
    <3>2. QED
      BY <3>1, QuietCall
  <2>4. CASE CreateExporter \/ CreateExporterBlind \/ \E o \in Objects \ {"exporter"} : Create(o)
    BY <2>4, CreatingExporter, CreatingBlind, Creating
  <2>5. QED
    BY <1>1, <2>1, <2>2, <2>3, <2>4 DEF Call
<1>2. CASE Begin \/ Environment
  BY <1>2, Beginning, ClusterMoves
<1>3. CASE Fails \/ UninstallPartly \/ DeleteNsPartly \/ InstallPartly
  BY <1>3, Interrupted
<1>4. CASE UNCHANGED vars
  <2>1. Behind' = Behind /\ (Going' <=> Going) /\ (Clean' <=> Clean)
    BY <1>4 DEF Behind, Going, Clean, vars, control
  <2>2. QED
    BY <1>4, <2>1 DEF vars, control, cluster, helm, hooks, place, IInv, Lasting, Counted,
       ErrorsAreFresh, OneGeneration, RolesAreRecorded, SoFar, Uninstalled, RolesFree,
       HookFree, Built, Installed, Placed
<1>5. QED
  BY <1>1, <1>2, <1>3, <1>4 DEF Next

LEMMA Invariant == Spec => [](TypeOK /\ IInv)
<1>1. Init => TypeOK /\ IInv
  BY TypedInit, TypedIsTypeOK, IInvInit
<1>2. TypeOK /\ IInv /\ [Next]_vars => (TypeOK /\ IInv)'
  BY TypedStep, TypedIsTypeOK, IInvStep DEF IInv, Lasting
<1>3. QED
  BY <1>1, <1>2, PTL DEF Spec

\* Whatever an earlier run left behind, and however long webhooks stay unready, a
\* deployment fails only because of something that happened during it: the order
\* of the calls in every Up... makes each refusal of the cluster impossible.
THEOREM FreshErrors == Spec => []ErrorsAreFresh
  BY Invariant, PTL DEF IInv, Lasting

\* The objects in a unit's namespace are those of one deployment, in every state,
\* and that deployment installed the release next to them.
THEOREM NoMixture == Spec => []OneGeneration
  BY Invariant, PTL DEF IInv, Lasting

\* A release's cluster-scoped objects never outlive the record which the next
\* TryUninstall needs to find them.
THEOREM NothingOrphaned == Spec => []RolesAreRecorded
  BY Invariant, PTL DEF IInv, Lasting

LEMMA WholeLemma == TypeOK /\ IInv => OkIsWhole
<1> SUFFICES ASSUME TypeOK, IInv, status = "ok" PROVE OkIsWhole
  BY DEF OkIsWhole
<1>1. Clean /\ Behind \cap Homes # {} /\ (unit \notin Loads => "install" \in Behind)
  BY OkBehind DEF Clean, Going, Homes
<1>2. \A i \in 1..Len(Plan[unit]) : Plan[unit][i] \in Behind
  BY OkBehind
<1>3. QED
  BY <1>1, <1>2 DEF IInv, SoFar, Built, Installed, OkIsWhole, Loads

\* A deployment that returns nil has put everything of its plan into the cluster
\* and nothing else is there.
THEOREM Whole == Spec => []OkIsWhole
  BY Invariant, WholeLemma, PTL

LEMMA FollowsLemma == TypeOK /\ IInv => ExporterFollowsPod
<1> SUFFICES ASSUME TypeOK, IInv, status = "ok", unit \in Stacks, ~moved
             PROVE  pin \in {pod, NoNode} /\ (unit \in Awaited /\ ~faulty => pin # NoNode)
  BY DEF ExporterFollowsPod
<1>1. Clean /\ "install" \in Behind /\ "exporter" \in Behind
  BY OkBehind DEF Clean, Going, Stacks, Loads
<1>2. QED
  BY <1>1 DEF IInv, SoFar, Placed

\* The disk exporter runs where the volume is, for all nodes and any number of
\* deployments (pvcNodeName and its use in every stack).
THEOREM ExporterPlaced == Spec => []ExporterFollowsPod
  BY Invariant, FollowsLemma, PTL

=============================================================================
