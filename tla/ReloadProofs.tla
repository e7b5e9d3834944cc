---------------------------- MODULE ReloadProofs -----------------------------
(***************************************************************************)
(* Proofs about the reload of the configuration (Reload): which providers  *)
(* are open, whether its parts agree, and whether what was saved is kept.  *)
(***************************************************************************)
EXTENDS Reload, TLAPS

-----------------------------------------------------------------------------
(* The reload of the configuration.                                         *)

Stages == {"idle", "prepare", "cfg", "registry", "close", "routes", "filter", "tenants", "sink", "take",
           "writer", "closew", "read", "temp", "bak", "moving", "rename"}

ReloadType ==
  /\ up \in {"down", "starting", "up", "failed"} /\ edits \in 0..MaxEdits
  /\ conf \in [0..MaxEdits -> Config] /\ part \in [Parts -> 0..edits]
  /\ file \in Config \cup {None}
  /\ about \in [0..MaxEdits -> SUBSET Name] /\ saved \subseteq 1..edits
  /\ req \in [Editor \cup {Boot} ->
       [at : Stages, id : 0..edits, old : (0..edits) \cup {None}, data : Config \cup {None}]]
  /\ \A e \in Editor : req[e].at # "idle" => up = "up" /\ req[e].id > 0

\* The edit whose providers a request answers for: it will build them, has built
\* them and not put them into the registry yet, or has taken them out and not
\* closed them yet.
Claim(e) ==
  IF req[e].at \in {"prepare", "cfg", "registry"} THEN {req[e].id}
  ELSE IF req[e].at = "close" THEN {req[e].old} ELSE {}

\* The edits of which the providers are open.
Holds(e) == IF req[e].at = "prepare" THEN {} ELSE Claim(e)
Alive == {part.registry} \cup UNION {Holds(e) : e \in Editor}

\* No two requests, and no request and the registry, answer for the same providers.
ProvidersInv ==
  /\ up \in {"starting", "up"} => open = UNION {BuildProviders(conf[i], i) : i \in Alive}
  /\ \A e \in Editor : Claim(e) \subseteq (0..edits) \ {part.registry}
  /\ \A e, f \in Editor : e # f => Claim(e) \cap Claim(f) = {}

\* The parts that a request has replaced when it is at a stage.
Done(at) ==
  CASE at \in {"idle", "prepare", "cfg"} -> {}
    [] at = "registry" -> {"cfg"}
    [] at \in {"close", "routes"} -> {"cfg", "registry"}
    [] at = "filter" -> {"cfg", "registry", "routes"}
    [] at = "tenants" -> {"cfg", "registry", "routes", "filter"}
    [] at = "sink" -> {"cfg", "registry", "routes", "filter", "tenants"}
    [] at \in {"take", "writer"} -> Parts \ {"writer"}
    [] OTHER -> Parts

\* A request that is the only one has the last number; what it has not replaced
\* is of the edit that the CDR writer is of.
Served(e) ==
  /\ req[e].id = edits
  /\ \A p \in Parts : part[p] = IF p \in Done(req[e].at) THEN edits ELSE part.writer
  /\ Done(req[e].at) # Parts => part.writer # edits
  /\ req[e].at = "writer" => req[e].old = part.writer
  /\ req[e].at = "closew" => req[e].old # edits /\ req[e].old \in 0..edits
  /\ writers = NewWriter(conf[part.writer], part.writer)
       \cup (IF req[e].at # "prepare" THEN NewWriter(conf[edits], edits) ELSE {})
       \cup (IF req[e].at = "closew" THEN NewWriter(conf[req[e].old], req[e].old) ELSE {})

AllIdle == \A e \in Editor : req[e].at = "idle"

PartsInv ==
  ~overlap =>
    /\ \A e, f \in Editor : req[e].at # "idle" /\ req[f].at # "idle" => e = f
    /\ AllIdle /\ up \in {"starting", "up"} =>
         /\ \A p \in Parts : part[p] = part.writer
         /\ writers = NewWriter(conf[part.writer], part.writer)
    /\ \A e \in Editor : req[e].at # "idle" => Served(e)

\* A configuration has the routes of the saved edits that no later edit is about.
Keeps(c) ==
  \A i \in saved : \A n \in about[i] :
    (\A j \in (i + 1)..edits : n \notin about[j]) => c.routes[n] = conf[i].routes[n]

SavedInv ==
  ~overlap =>
    /\ up \in {"starting", "up"} => Keeps(CurrentConfig)
    /\ file # None => Keeps(file)
    /\ up = "starting" => req[Boot].data = CurrentConfig
    /\ up = "up" /\ edits \in saved => file = CurrentConfig
    /\ \A e \in Editor : req[e].at # "idle" =>
         /\ edits \notin saved
         /\ req[e].at \in {"prepare", "cfg"} =>
              \A n \in Name \ about[edits] : conf[edits].routes[n] = CurrentConfig.routes[n]
         /\ req[e].at \in {"temp", "bak", "moving", "rename"} => req[e].data = CurrentConfig

LEMMA ReloadTypeStart == ReloadInit => ReloadType
  BY SMTT(60), ReloadAssumption DEF ReloadInit, ReloadType, Stages, Idle, Parts

LEMMA IdsGrow ==
  ASSUME ReloadType
  PROVE  /\ edits \in Nat /\ MaxEdits \in Nat /\ edits <= MaxEdits
         /\ part.cfg \in 0..MaxEdits /\ CurrentConfig \in Config
         /\ \A e \in Editor \cup {Boot} : req[e].id \in 0..MaxEdits
<1>1. "cfg" \in Parts
  BY DEF Parts
<1> QED
  BY <1>1, ReloadAssumption DEF ReloadType, CurrentConfig

LEMMA BeginType ==
  ASSUME ReloadType, NEW e \in Editor, NEW c \in Config, NEW names \in SUBSET Name, Begin(e, c, names)
  PROVE  ReloadType'
<1>1. edits \in Nat /\ MaxEdits \in Nat /\ edits < MaxEdits /\ edits' = edits + 1 /\ up = "up" /\ up' = up
  BY IdsGrow DEF Begin
<1>2. (0..edits) \subseteq 0..edits' /\ (1..edits) \subseteq 1..edits' /\ edits' \in 0..MaxEdits
  BY <1>1
<1>3. conf' \in [0..MaxEdits -> Config] /\ about' \in [0..MaxEdits -> SUBSET Name]
  BY <1>2 DEF Begin, ReloadType
<1>4. part' \in [Parts -> 0..edits'] /\ saved' \subseteq 1..edits' /\ file' \in Config \cup {None}
  BY <1>2 DEF Begin, ReloadType
<1>5. req' \in [Editor \cup {Boot} ->
        [at : Stages, id : 0..edits', old : (0..edits') \cup {None}, data : Config \cup {None}]]
  <2>1. [Idle EXCEPT !.at = "prepare", !.id = edits'] \in
          [at : Stages, id : 0..edits', old : (0..edits') \cup {None}, data : Config \cup {None}]
    <3>1. PICK r : r = [Idle EXCEPT !.at = "prepare", !.id = edits']
      OBVIOUS
    <3>2. r \in [at : {"prepare"}, id : {edits'}, old : {None}, data : {None}]
      BY <3>1 DEF Idle
    <3>3. "prepare" \in Stages /\ edits' \in 0..edits'
      BY <1>1 DEF Stages
    <3> QED
      BY <3>1, <3>2, <3>3
  <2>2. \A f \in Editor \cup {Boot} : req[f] \in
          [at : Stages, id : 0..edits', old : (0..edits') \cup {None}, data : Config \cup {None}]
    BY <1>2 DEF ReloadType
  <2> QED
    BY <2>1, <2>2 DEF Begin, ReloadType
<1>6. \A f \in Editor : req'[f].at # "idle" => up' = "up" /\ req'[f].id > 0
  BY <1>1 DEF Begin, ReloadType, Idle
<1> QED
  BY <1>1, <1>2, <1>3, <1>4, <1>5, <1>6 DEF ReloadType

\* Every edit sends a configuration and is about names of routes.
LEMMA EditBegins ==
  ASSUME ReloadType, NEW e \in Editor, Edit(e)
  PROVE  \E c \in Config, names \in SUBSET Name :
           /\ Begin(e, c, names)
           /\ \A n \in Name \ names : c.routes[n] = CurrentConfig.routes[n]
<1>1. CurrentConfig \in Config
  BY IdsGrow
<1>2. ASSUME NEW n \in Name, NEW v \in Val \cup {Bad, None}
      PROVE  /\ [CurrentConfig EXCEPT !.routes[n] = v] \in Config
             /\ \A m \in Name \ {n} : [CurrentConfig EXCEPT !.routes[n] = v].routes[m] = CurrentConfig.routes[m]
  BY <1>1 DEF Config
<1>3. ASSUME NEW ps \in SUBSET Provider
      PROVE  /\ [CurrentConfig EXCEPT !.providers = ps] \in Config
             /\ [CurrentConfig EXCEPT !.providers = ps].routes = CurrentConfig.routes
  BY <1>1 DEF Config
<1>4. ASSUME NEW n \in Name, NEW v \in Val \cup {Bad, None}, Begin(e, [CurrentConfig EXCEPT !.routes[n] = v], {n})
      PROVE  \E c \in Config, names \in SUBSET Name :
               Begin(e, c, names) /\ \A m \in Name \ names : c.routes[m] = CurrentConfig.routes[m]
  <2>1. PICK c : c = [CurrentConfig EXCEPT !.routes[n] = v]
    OBVIOUS
  <2>2. c \in Config /\ Begin(e, c, {n}) /\ \A m \in Name \ {n} : c.routes[m] = CurrentConfig.routes[m]
    BY <1>2, <1>4, <2>1, Zenon
  <2>3. {n} \in SUBSET Name
    OBVIOUS
  <2> QED
    BY <2>2, <2>3, Zenon
<1>5. CASE RouteCreate(e) \/ RouteUpdate(e) \/ RouteDelete(e)
  <2>1. \E n \in Name, v \in Val \cup {Bad, None} : Begin(e, [CurrentConfig EXCEPT !.routes[n] = v], {n})
    BY <1>5, Zenon DEF RouteCreate, RouteUpdate, RouteDelete
  <2> QED
    BY <2>1, <1>4, Zenon
<1>6. CASE SectionSave(e)
  <2>1. PICK ps \in SUBSET Provider : Begin(e, [CurrentConfig EXCEPT !.providers = ps], {})
    BY <1>6 DEF SectionSave
  <2>2. PICK c : c = [CurrentConfig EXCEPT !.providers = ps]
    OBVIOUS
  <2>3. c \in Config /\ Begin(e, c, {}) /\ c.routes = CurrentConfig.routes
    BY <1>3, <2>1, <2>2, Zenon
  <2> QED
    BY <2>3
<1>7. CASE RawSave(e)
  BY <1>7, ReloadAssumption DEF RawSave
<1> QED
  BY <1>5, <1>6, <1>7 DEF Edit

\* What a step of a request other than its begin does to the request.
LEMMA UpdateType ==
  ASSUME ReloadType, NEW e \in Editor, Update(e)
  PROVE  ReloadType'
<1> DEFINE R == [at : Stages, id : 0..edits, old : (0..edits) \cup {None}, data : Config \cup {None}]
<1>1. req \in [Editor \cup {Boot} -> R] /\ req[e] \in R /\ up = "up" /\ up' = up /\ edits' = edits
  BY DEF ReloadType, Update, Prepare, PutCfg, Replace, CloseOld, ReloadRoutes, ReloadFilter, ReloadTenants,
     SetCDRSink, TakeWriter, PutWriter, CloseWriter, ReadBack, Put, At
<1>2. conf' = conf /\ about' = about /\ saved' = saved /\ file' = file
  BY DEF Update, Prepare, PutCfg, Replace, CloseOld, ReloadRoutes, ReloadFilter, ReloadTenants,
     SetCDRSink, TakeWriter, PutWriter, CloseWriter, ReadBack, Put, At
<1>3. part' \in [Parts -> 0..edits]
  BY <1>1 DEF ReloadType, Update, Prepare, PutCfg, Replace, CloseOld, ReloadRoutes, ReloadFilter, ReloadTenants,
     SetCDRSink, TakeWriter, PutWriter, CloseWriter, ReadBack, Put, At, Parts
<1>4. req' \in [Editor \cup {Boot} -> R]
  <2>1. part.registry \in 0..edits /\ part.writer \in 0..edits /\ CurrentConfig \in Config
    BY IdsGrow DEF ReloadType, Parts
  <2>2. CASE Prepare(e)
    BY <2>2, <1>1, IdsGrow DEF Prepare, GoTo, Idle, Stages
  <2>3. CASE Replace(e) \/ TakeWriter(e) \/ ReadBack(e)
    BY <2>3, <2>1, <1>1 DEF Replace, TakeWriter, ReadBack, Stages
  <2>4. ASSUME NEW s \in Stages, GoTo(e, s) PROVE req' \in [Editor \cup {Boot} -> R]
    BY <2>4, <1>1 DEF GoTo
  <2>5. CASE ~(Prepare(e) \/ Replace(e) \/ TakeWriter(e) \/ ReadBack(e))
    <3>1. \E s \in Stages : GoTo(e, s)
      BY <2>5 DEF Update, PutCfg, CloseOld, ReloadRoutes, ReloadFilter, ReloadTenants,
         SetCDRSink, PutWriter, CloseWriter, Put, Stages
    <3> QED
      BY <3>1, <2>4
  <2> QED
    BY <2>2, <2>3, <2>5
<1>5. \A f \in Editor : req'[f].at # "idle" => up' = "up" /\ req'[f].id > 0
  <2>1. req[e].at # "idle"
    BY DEF Update, Prepare, PutCfg, Replace, CloseOld, ReloadRoutes, ReloadFilter, ReloadTenants,
       SetCDRSink, TakeWriter, PutWriter, CloseWriter, ReadBack, Put, At
  <2>2. req' = [req EXCEPT ![e] = Idle] \/ (req'[e].id = req[e].id /\ \A f \in Editor \ {e} : req'[f] = req[f])
    BY SMTT(60), <1>1 DEF Update, Prepare, PutCfg, Replace, CloseOld, ReloadRoutes, ReloadFilter, ReloadTenants,
       SetCDRSink, TakeWriter, PutWriter, CloseWriter, ReadBack, Put, GoTo
  <2> QED
    BY <1>1, <2>1, <2>2 DEF ReloadType, Idle
<1> QED
  BY <1>1, <1>2, <1>3, <1>4, <1>5 DEF ReloadType

LEMMA WriteType ==
  ASSUME ReloadType, NEW e \in Editor \cup {Boot}, Write(e)
  PROVE  ReloadType'
<1> DEFINE R == [at : Stages, id : 0..edits, old : (0..edits) \cup {None}, data : Config \cup {None}]
<1>1. req \in [Editor \cup {Boot} -> R] /\ req[e] \in R
  BY DEF ReloadType
<1>2. conf' = conf /\ about' = about /\ part' = part /\ edits' = edits
  BY DEF Write, WriteTemp, StatFile, MoveFile, Rename
<1>3. req' \in [Editor \cup {Boot} -> R]
  <2>1. ASSUME NEW s \in Stages, GoTo(e, s) PROVE req' \in [Editor \cup {Boot} -> R]
    BY <2>1, <1>1 DEF GoTo
  <2>2. ASSUME NEW ok, End(e, ok) PROVE req' \in [Editor \cup {Boot} -> R]
    BY <2>2, <1>1, IdsGrow DEF End, Idle, Stages
  <2>3. (\E s \in Stages : GoTo(e, s)) \/ End(e, TRUE) \/ End(e, FALSE)
    BY DEF Write, WriteTemp, StatFile, MoveFile, Rename, Stages
  <2> QED
    BY <2>1, <2>2, <2>3
<1>4. req[e].at # "idle" /\ up = (IF e = Boot THEN "starting" ELSE "up")
  BY DEF Write, WriteTemp, StatFile, MoveFile, Rename, Writing
<1>5. /\ (up' = up) \/ (e = Boot /\ up' \in {"up", "failed"})
      /\ (saved' = saved) \/ (e # Boot /\ saved' = saved \cup {req[e].id})
  BY DEF Write, WriteTemp, StatFile, MoveFile, Rename, End
<1>6. saved' \subseteq 1..edits
  <2>1. CASE saved' = saved
    BY <2>1 DEF ReloadType
  <2>2. CASE e # Boot /\ saved' = saved \cup {req[e].id}
    <3>1. req[e].id \in 0..edits /\ req[e].id > 0 /\ edits \in Nat
      BY <1>1, <1>4, <2>2, IdsGrow DEF ReloadType
    <3>2. req[e].id \in 1..edits
      BY <3>1
    <3> QED
      BY <2>2, <3>2 DEF ReloadType
  <2> QED
    BY <1>5, <2>1, <2>2
<1>7. file' \in Config \cup {None}
  BY <1>1 DEF ReloadType, Write, WriteTemp, StatFile, MoveFile, Rename
<1>8. ASSUME NEW f \in Editor, req'[f].at # "idle" PROVE up' = "up" /\ req'[f].id > 0
  <2>1. req' = [req EXCEPT ![e] = Idle] \/ (req'[e].id = req[e].id /\ \A g \in Editor \ {e} : req'[g] = req[g])
    BY <1>1 DEF Write, WriteTemp, StatFile, MoveFile, Rename, GoTo, End
  <2>2. f # Boot
    BY ReloadAssumption
  <2>3. req[f].at # "idle" /\ req'[f].id = req[f].id
    BY <1>8, <1>1, <1>4, <2>1 DEF Idle
  <2> QED
    BY <2>2, <2>3, <1>4, <1>5 DEF ReloadType
<1> QED
  BY <1>2, <1>3, <1>5, <1>6, <1>7, <1>8 DEF ReloadType

LEMMA StartType ==
  ASSUME ReloadType, Start
  PROVE  ReloadType'
<1> DEFINE found == IF file # None THEN file ELSE Seed
           c     == WithSecrets(found)
<1>1. /\ found \in Config \cup {None} /\ file' = found /\ edits' = edits /\ about' = about /\ saved' = saved
      /\ up = "down" /\ \A e \in Editor : req[e].at = "idle"
  BY ReloadAssumption DEF Start, ReloadType
<1>2. CASE found = None
  BY <1>1, <1>2 DEF Start, ReloadType
<1>3. CASE found # None
  <2>1. c \in Config
    BY <1>1, <1>3 DEF Config, WithSecrets
  <2> HIDE DEF c
  <2>2. /\ conf' = [conf EXCEPT ![0] = c] /\ part' = [p \in Parts |-> 0] /\ up' \in {"starting", "up"}
        /\ req' = [req EXCEPT ![Boot] = [Idle EXCEPT !.at = "temp", !.data = c]] \/ req' = req
    BY <1>1, <1>3 DEF Start, c
  <2>3. conf' \in [0..MaxEdits -> Config] /\ part' \in [Parts -> 0..edits]
    BY <2>1, <2>2, IdsGrow DEF ReloadType
  <2>4. [Idle EXCEPT !.at = "temp", !.data = c] \in
          [at : Stages, id : 0..edits, old : (0..edits) \cup {None}, data : Config \cup {None}]
    <3>1. PICK r : r = [Idle EXCEPT !.at = "temp", !.data = c]
      OBVIOUS
    <3>2. r \in [at : {"temp"}, id : {0}, old : {None}, data : {c}]
      BY <3>1 DEF Idle
    <3>3. "temp" \in Stages /\ 0 \in 0..edits
      BY IdsGrow DEF Stages
    <3> QED
      BY <2>1, <3>1, <3>2, <3>3
  <2>5. req' \in [Editor \cup {Boot} ->
          [at : Stages, id : 0..edits, old : (0..edits) \cup {None}, data : Config \cup {None}]]
    BY <2>2, <2>4 DEF ReloadType
  <2>6. \A e \in Editor : req'[e].at = "idle"
    BY <1>1, <2>2, ReloadAssumption DEF ReloadType
  <2> QED
    BY <1>1, <2>2, <2>3, <2>5, <2>6 DEF ReloadType
<1> QED
  BY <1>2, <1>3

LEMMA ReloadTypeStep == ReloadType /\ [ReloadNext]_reloadVars => ReloadType'
<1> SUFFICES ASSUME ReloadType, [ReloadNext]_reloadVars PROVE ReloadType'
  OBVIOUS
<1>1. ASSUME NEW e \in Editor, Edit(e) PROVE ReloadType'
  BY <1>1, EditBegins, BeginType
<1>2. CASE Crash
  BY SMTT(60), <1>2, IdsGrow DEF Crash, ReloadType, Idle, Stages
<1>3. CASE StartFails
  BY <1>3 DEF StartFails, ReloadType
<1>4. CASE UNCHANGED reloadVars
  BY <1>4 DEF reloadVars, ReloadType
<1> QED
  BY <1>1, <1>2, <1>3, <1>4, UpdateType, WriteType, StartType DEF ReloadNext

LEMMA ProvidersOfEdit == ASSUME NEW c, NEW i, NEW p \in BuildProviders(c, i) PROVE p[1] = i
  BY DEF BuildProviders

LEMMA AliveIsNumbered ==
  ASSUME ReloadType, ProvidersInv
  PROVE  Alive \subseteq 0..edits /\ part.registry \in 0..edits
<1>1. part.registry \in 0..edits
  BY DEF ReloadType, Parts
<1>2. \A e \in Editor : Holds(e) \subseteq 0..edits
  BY DEF ProvidersInv, Holds
<1> QED
  BY <1>1, <1>2 DEF Alive

LEMMA ClaimSame ==
  ASSUME NEW f, req'[f] = req[f] PROVE Claim(f)' = Claim(f) /\ Holds(f)' = Holds(f)
  BY DEF Claim, Holds

\* A step of request e changes only what it answers for itself.
LEMMA ClaimMoves ==
  ASSUME ProvidersInv, NEW e \in Editor, edits \in Nat, edits' \in Nat, edits <= edits',
         \A f \in Editor : f # e => req'[f] = req[f],
         Claim(e)' \subseteq (0..edits') \ {part'.registry},
         \A f \in Editor : f # e => Claim(e)' \cap Claim(f) = {} /\ part'.registry \notin Claim(f),
         up' \in {"starting", "up"} => open' = UNION {BuildProviders(conf'[i], i) : i \in Alive'}
  PROVE  ProvidersInv'
<1>1. \A f \in Editor : f # e => Claim(f)' = Claim(f)
  BY ClaimSame
<1>2. 0..edits \subseteq 0..edits'
  OBVIOUS
<1>3. \A f \in Editor : Claim(f)' \subseteq (0..edits') \ {part'.registry}
  BY <1>1, <1>2 DEF ProvidersInv
<1>4. \A f, g \in Editor : f # g => Claim(f)' \cap Claim(g)' = {}
  BY <1>1 DEF ProvidersInv
<1> QED
  BY <1>3, <1>4 DEF ProvidersInv

\* A step after which every request answers for what it answered for before.
LEMMA ClaimsKept ==
  ASSUME ProvidersInv, \A f \in Editor : Claim(f)' = Claim(f) /\ Holds(f)' = Holds(f),
         open' = open, conf' = conf, edits' = edits, part'.registry = part.registry,
         up' \in {"starting", "up"} => up \in {"starting", "up"}
  PROVE  ProvidersInv'
<1>1. Alive' = Alive
  BY DEF Alive
<1>2. up' \in {"starting", "up"} => open' = UNION {BuildProviders(conf'[i], i) : i \in Alive'}
  BY <1>1 DEF ProvidersInv
<1>3. \A f \in Editor : Claim(f)' \subseteq (0..edits') \ {part'.registry}
  BY DEF ProvidersInv
<1>4. \A f, g \in Editor : f # g => Claim(f)' \cap Claim(g)' = {}
  BY DEF ProvidersInv
<1> QED
  BY <1>2, <1>3, <1>4 DEF ProvidersInv

\* A request that answers for no providers before and after a step.
LEMMA HoldsNone ==
  ASSUME ProvidersInv, NEW e \in Editor \cup {Boot},
         \A f \in Editor : f # e => req'[f] = req[f],
         e \in Editor =>
           /\ req[e].at \notin {"prepare", "cfg", "registry", "close"}
           /\ req'[e].at \notin {"prepare", "cfg", "registry", "close"},
         open' = open, conf' = conf, edits' = edits, part'.registry = part.registry,
         up' \in {"starting", "up"} => up \in {"starting", "up"}
  PROVE  ProvidersInv'
<1>1. \A f \in Editor : f # e => Claim(f)' = Claim(f) /\ Holds(f)' = Holds(f)
  BY ClaimSame
<1>2. e \in Editor => Claim(e)' = {} /\ Holds(e)' = {} /\ Claim(e) = {} /\ Holds(e) = {}
  BY DEF Claim, Holds
<1>3. \A f \in Editor : Claim(f)' = Claim(f) /\ Holds(f)' = Holds(f)
  BY <1>1, <1>2
<1> QED
  BY <1>3, ClaimsKept

LEMMA BeginProviders ==
  ASSUME ReloadType, ProvidersInv, NEW e \in Editor, NEW c, NEW names, Begin(e, c, names)
  PROVE  ProvidersInv'
<1>1. /\ edits \in Nat /\ edits' = edits + 1 /\ edits' \in Nat /\ edits <= edits'
      /\ up' = up /\ up = "up" /\ open' = open /\ part' = part
  BY IdsGrow DEF Begin
<1>2. \A f \in Editor : f # e => req'[f] = req[f]
  BY DEF ReloadType, Begin
<1>3. req[e].at = "idle" /\ req'[e].at = "prepare" /\ req'[e].id = edits + 1
  BY <1>1 DEF ReloadType, Begin, Idle
<1>4. Holds(e) = {} /\ Holds(e)' = {} /\ Claim(e)' = {edits + 1}
  BY <1>3 DEF Holds, Claim
<1>5. \A f \in Editor : Holds(f)' = Holds(f)
  BY <1>2, <1>4, ClaimSame
<1>6. Alive' = Alive
  BY <1>1, <1>5 DEF Alive
<1>7. \A i \in Alive : conf'[i] = conf[i]
  <2>1. edits + 1 \notin Alive
    BY <1>1, AliveIsNumbered
  <2>2. \A i \in 0..MaxEdits : i # edits + 1 => conf'[i] = conf[i]
    BY <1>1 DEF Begin, ReloadType
  <2> QED
    BY <2>1, <2>2, <1>1, AliveIsNumbered, IdsGrow
<1>8. open' = UNION {BuildProviders(conf'[i], i) : i \in Alive'}
  <2>1. \A i \in Alive : BuildProviders(conf'[i], i) = BuildProviders(conf[i], i)
    BY <1>7
  <2>2. open = UNION {BuildProviders(conf[i], i) : i \in Alive}
    BY <1>1 DEF ProvidersInv
  <2> QED
    BY <1>1, <1>6, <2>1, <2>2
<1>9. edits + 1 \notin 0..edits /\ edits + 1 \in 0..edits' /\ part.registry \in 0..edits
  BY <1>1, AliveIsNumbered
<1>10. Claim(e)' \subseteq (0..edits') \ {part'.registry}
  BY <1>1, <1>4, <1>9
<1>11. \A f \in Editor : f # e => Claim(e)' \cap Claim(f) = {} /\ part'.registry \notin Claim(f)
  BY <1>1, <1>4, <1>9 DEF ProvidersInv
<1> QED
  BY <1>1, <1>2, <1>8, <1>10, <1>11, ClaimMoves

LEMMA PrepareProviders ==
  ASSUME ReloadType, ProvidersInv, NEW e \in Editor, Prepare(e)
  PROVE  ProvidersInv'
<1>1. PICK i : i = req[e].id
  OBVIOUS
<1>2. req[e].at = "prepare" /\ up = "up" /\ up' = up /\ edits' = edits /\ conf' = conf /\ part' = part /\ edits \in Nat
  BY DEF Prepare, At, ReloadType
<1>3. Claim(e) = {i} /\ Holds(e) = {}
  BY <1>1, <1>2 DEF Claim, Holds
<1>4. open = UNION {BuildProviders(conf[j], j) : j \in Alive}
  BY <1>2 DEF ProvidersInv
<1>5. \A f \in Editor : f # e => part'.registry \notin Claim(f)
  BY <1>2 DEF ProvidersInv
<1>6. CASE req' = [req EXCEPT ![e] = Idle] /\ open' = open
  <2>1. \A f \in Editor : f # e => req'[f] = req[f]
    BY <1>6 DEF ReloadType
  <2>2. req'[e].at = "idle"
    BY <1>6 DEF ReloadType, Idle
  <2>3. Claim(e)' = {} /\ Holds(e)' = {}
    BY <2>2 DEF Claim, Holds
  <2>4. \A f \in Editor : Holds(f)' = Holds(f)
    BY <1>3, <2>1, <2>3, ClaimSame
  <2>5. Alive' = Alive
    BY <1>2, <2>4 DEF Alive
  <2>6. open' = UNION {BuildProviders(conf'[j], j) : j \in Alive'}
    BY <1>2, <1>4, <1>6, <2>5
  <2> QED
    BY <1>2, <1>5, <2>1, <2>3, <2>6, ClaimMoves
<1>7. CASE open' = open \cup BuildProviders(conf[i], i) /\ GoTo(e, "cfg")
  <2>1. \A f \in Editor : f # e => req'[f] = req[f]
    BY <1>7 DEF ReloadType, GoTo
  <2>2. req'[e].at = "cfg" /\ req'[e].id = i
    BY <1>1, <1>7 DEF ReloadType, GoTo
  <2>3. Claim(e)' = {i} /\ Holds(e)' = {i}
    BY <2>2 DEF Claim, Holds
  <2>4. \A f \in Editor : f # e => Holds(f)' = Holds(f)
    BY <2>1, ClaimSame
  <2>5. Alive' = Alive \cup {i}
    BY <1>2, <1>3, <2>3, <2>4 DEF Alive
  <2>6. open' = UNION {BuildProviders(conf'[j], j) : j \in Alive'}
    BY <1>2, <1>4, <1>7, <2>5
  <2>7. /\ Claim(e)' \subseteq (0..edits') \ {part'.registry}
        /\ \A f \in Editor : f # e => Claim(e)' \cap Claim(f) = {}
    BY <1>2, <1>3, <2>3 DEF ProvidersInv
  <2> QED
    BY <1>2, <1>5, <2>1, <2>6, <2>7, ClaimMoves
<1> QED
  BY <1>1, <1>6, <1>7 DEF Prepare

LEMMA ReplaceProviders ==
  ASSUME ReloadType, ProvidersInv, NEW e \in Editor, PutCfg(e) \/ Replace(e) \/ CloseOld(e)
  PROVE  ProvidersInv'
<1>1. /\ up = "up" /\ up' = up /\ edits' = edits /\ edits \in Nat /\ conf' = conf /\ part.registry \in 0..edits
  BY AliveIsNumbered DEF PutCfg, Put, Replace, CloseOld, At, ReloadType
<1>2. \A f \in Editor : f # e => req'[f] = req[f]
  BY DEF ReloadType, PutCfg, Put, Replace, CloseOld, GoTo
<1>3. \A f \in Editor : f # e => Claim(f)' = Claim(f) /\ Holds(f)' = Holds(f)
  BY <1>2, ClaimSame
<1>4. open = UNION {BuildProviders(conf[j], j) : j \in Alive}
  BY <1>1 DEF ProvidersInv
<1>5. CASE PutCfg(e)
  <2>1. part'.registry = part.registry /\ open' = open
    BY <1>5 DEF PutCfg, Put, ReloadType, Parts
  <2>2. req[e].at = "cfg" /\ req'[e].at = "registry" /\ req'[e].id = req[e].id
    BY <1>5 DEF PutCfg, Put, ReloadType, GoTo, At
  <2>3. Claim(e)' = Claim(e) /\ Holds(e)' = Holds(e)
    BY <2>2 DEF Claim, Holds
  <2>4. \A f \in Editor : Claim(f)' = Claim(f) /\ Holds(f)' = Holds(f)
    BY <1>3, <2>3
  <2> QED
    BY <1>1, <2>1, <2>4, ClaimsKept
<1>6. CASE Replace(e)
  <2>1. PICK i, o : i = req[e].id /\ o = part.registry
    OBVIOUS
  <2>2. part'.registry = i /\ open' = open
    BY <1>6, <2>1 DEF Replace, ReloadType, Parts
  <2>3. req[e].at = "registry" /\ req'[e].at = "close" /\ req'[e].old = o
    BY <1>6, <2>1 DEF Replace, ReloadType, At
  <2>4. Claim(e) = {i} /\ Holds(e) = {i} /\ Claim(e)' = {o} /\ Holds(e)' = {o}
    BY <2>1, <2>3 DEF Claim, Holds
  <2>5. Alive' = Alive
    BY <1>3, <2>1, <2>2, <2>4 DEF Alive
  <2>6. open' = UNION {BuildProviders(conf'[j], j) : j \in Alive'}
    BY <1>1, <1>4, <2>2, <2>5
  <2>7. Claim(e)' \subseteq (0..edits') \ {part'.registry}
    BY <1>1, <2>1, <2>2, <2>4 DEF ProvidersInv
  <2>8. \A f \in Editor : f # e => Claim(e)' \cap Claim(f) = {} /\ part'.registry \notin Claim(f)
    BY <2>1, <2>2, <2>4 DEF ProvidersInv
  <2> QED
    BY <1>1, <1>2, <2>6, <2>7, <2>8, ClaimMoves
<1>7. CASE CloseOld(e)
  <2>1. PICK o : o = req[e].old
    OBVIOUS
  <2>2. part'.registry = part.registry /\ open' = {p \in open : p[1] # o}
    BY <1>7, <2>1 DEF CloseOld
  <2>3. req[e].at = "close" /\ req'[e].at = "routes"
    BY <1>7 DEF CloseOld, ReloadType, GoTo, At
  <2>4. Claim(e) = {o} /\ Holds(e) = {o} /\ Claim(e)' = {} /\ Holds(e)' = {}
    BY <2>1, <2>3 DEF Claim, Holds
  <2>5. o # part.registry /\ \A f \in Editor : f # e => o \notin Holds(f)
    BY <2>4 DEF ProvidersInv, Holds
  <2>6. Alive' = Alive \ {o}
    BY <1>3, <2>2, <2>4, <2>5 DEF Alive
  <2>7. open' = UNION {BuildProviders(conf'[j], j) : j \in Alive'}
    <3>1. \A p : p \in open <=> \E j \in Alive : p \in BuildProviders(conf[j], j)
      BY <1>4
    <3>2. \A p : p \in open' <=> \E j \in Alive' : p \in BuildProviders(conf[j], j)
      BY <3>1, <2>2, <2>6, ProvidersOfEdit
    <3> QED
      BY <3>2, <1>1
  <2>8. \A f \in Editor : f # e => part'.registry \notin Claim(f)
    BY <2>2 DEF ProvidersInv
  <2> QED
    BY <1>1, <1>2, <2>4, <2>7, <2>8, ClaimMoves
<1> QED
  BY <1>5, <1>6, <1>7

LEMMA LateProviders ==
  ASSUME ReloadType, ProvidersInv, NEW e \in Editor,
         \/ ReloadRoutes(e) \/ ReloadFilter(e) \/ ReloadTenants(e) \/ SetCDRSink(e)
         \/ TakeWriter(e) \/ PutWriter(e) \/ CloseWriter(e) \/ ReadBack(e)
  PROVE  ProvidersInv'
<1>1. up' = up /\ conf' = conf /\ edits' = edits /\ open' = open
  BY DEF ReloadRoutes, ReloadFilter, ReloadTenants, SetCDRSink, TakeWriter, PutWriter, CloseWriter, ReadBack, Put
<1>2. part'.registry = part.registry
  BY DEF ReloadRoutes, ReloadFilter, ReloadTenants, SetCDRSink, TakeWriter, PutWriter, CloseWriter, ReadBack, Put,
     ReloadType, Parts
<1>3. req[e].at \notin {"prepare", "cfg", "registry", "close"}
  BY DEF ReloadRoutes, ReloadFilter, ReloadTenants, SetCDRSink, TakeWriter, PutWriter, CloseWriter, ReadBack, Put, At
<1>4. /\ \A f \in Editor : f # e => req'[f] = req[f]
      /\ req'[e].at \notin {"prepare", "cfg", "registry", "close"}
  BY DEF ReloadRoutes, ReloadFilter, ReloadTenants, SetCDRSink, TakeWriter, PutWriter, CloseWriter, ReadBack, Put,
     GoTo, ReloadType
<1> QED
  BY <1>1, <1>2, <1>3, <1>4, HoldsNone

LEMMA WriteProviders ==
  ASSUME ReloadType, ProvidersInv, NEW e \in Editor \cup {Boot}, Write(e)
  PROVE  ProvidersInv'
<1>1. conf' = conf /\ edits' = edits /\ open' = open /\ part' = part
  BY DEF Write, WriteTemp, StatFile, MoveFile, Rename
<1>2. req[e].at \notin {"prepare", "cfg", "registry", "close"} /\ up \in {"starting", "up"}
  BY DEF Write, WriteTemp, StatFile, MoveFile, Rename, Writing
<1>3. /\ \A f \in Editor : f # e => req'[f] = req[f]
      /\ req'[e].at \notin {"prepare", "cfg", "registry", "close"}
  BY DEF Write, WriteTemp, StatFile, MoveFile, Rename, GoTo, End, Idle, ReloadType
<1> QED
  BY <1>1, <1>2, <1>3, HoldsNone

\* With no request under way there is nothing to answer for.
LEMMA ClaimsNone ==
  ASSUME \A e \in Editor : req'[e].at = "idle",
         up' \in {"starting", "up"} => open' = BuildProviders(conf'[part'.registry], part'.registry)
  PROVE  ProvidersInv'
<1>1. \A e \in Editor : Claim(e)' = {} /\ Holds(e)' = {}
  BY DEF Claim, Holds
<1>2. Alive' = {part'.registry}
  BY <1>1 DEF Alive
<1> QED
  BY <1>1, <1>2 DEF ProvidersInv

LEMMA StartProviders ==
  ASSUME ReloadType, ProvidersInv, Start
  PROVE  ProvidersInv'
<1> DEFINE found == IF file # None THEN file ELSE Seed
<1>1. \A e \in Editor : req'[e].at = "idle"
  BY ReloadAssumption DEF Start, ReloadType
<1>2. CASE found = None
  <2>1. up' \notin {"starting", "up"}
    BY <1>2 DEF Start
  <2> QED
    BY <1>1, <2>1, ClaimsNone
<1>3. CASE found # None
  <2>1. PICK c : c = WithSecrets(found)
    OBVIOUS
  <2>2. conf'[0] = c /\ part'.registry = 0 /\ open' = BuildProviders(c, 0)
    BY <1>3, <2>1, IdsGrow DEF Start, ReloadType, Parts
  <2> QED
    BY <1>1, <2>2, ClaimsNone
<1> QED
  BY <1>2, <1>3

LEMMA ProvidersStart == ReloadInit => ProvidersInv
<1> SUFFICES ASSUME ReloadInit PROVE ProvidersInv
  OBVIOUS
<1>1. up = "down" /\ \A e \in Editor : req[e].at = "idle"
  BY DEF ReloadInit, Idle
<1>2. \A e \in Editor : Claim(e) = {}
  BY <1>1 DEF Claim
<1> QED
  BY <1>1, <1>2 DEF ProvidersInv

LEMMA ProvidersStep == ReloadType /\ ProvidersInv /\ [ReloadNext]_reloadVars => ProvidersInv'
<1> SUFFICES ASSUME ReloadType, ProvidersInv, [ReloadNext]_reloadVars PROVE ProvidersInv'
  OBVIOUS
<1>1. ASSUME NEW e \in Editor, Edit(e) PROVE ProvidersInv'
  BY <1>1, EditBegins, BeginProviders
<1>2. ASSUME NEW e \in Editor, Update(e) PROVE ProvidersInv'
  BY <1>2, PrepareProviders, ReplaceProviders, LateProviders DEF Update
<1>3. CASE Crash
  <2>1. up' = "down" /\ \A e \in Editor : req'[e].at = "idle"
    BY <1>3 DEF Crash, Idle
  <2> QED
    BY <2>1, ClaimsNone
<1>4. CASE StartFails
  <2>1. up' = "failed" /\ req' = req /\ part' = part /\ edits' = edits
    BY <1>4 DEF StartFails
  <2>2. \A f \in Editor : Claim(f)' = Claim(f)
    BY <2>1, ClaimSame
  <2> QED
    BY <2>1, <2>2 DEF ProvidersInv
<1>5. CASE UNCHANGED reloadVars
  <2>1. req' = req /\ part' = part /\ edits' = edits /\ open' = open /\ conf' = conf /\ up' = up
    BY <1>5 DEF reloadVars
  <2>2. \A f \in Editor : Claim(f)' = Claim(f) /\ Holds(f)' = Holds(f)
    BY <2>1, ClaimSame
  <2> QED
    BY <2>1, <2>2, ClaimsKept
<1> QED
  BY <1>1, <1>2, <1>3, <1>4, <1>5, WriteProviders, StartProviders DEF ReloadNext

\* Between requests the open providers are those of the registry, whatever
\* requests were served at the same time and wherever they failed
\* (Registry.Replace): for any number of requests at a time.
THEOREM ProvidersExactHolds == ReloadSpec => []ProvidersExact
<1>1. ReloadInit => ReloadType /\ ProvidersInv
  BY ReloadTypeStart, ProvidersStart
<1>2. ReloadType /\ ProvidersInv /\ [ReloadNext]_reloadVars => ReloadType' /\ ProvidersInv'
  BY ReloadTypeStep, ProvidersStep
<1>3. ReloadType /\ ProvidersInv => ProvidersExact
  <2> SUFFICES ASSUME ProvidersInv, Quiet PROVE open = BuildProviders(conf[part.registry], part.registry)
    BY DEF ProvidersExact
  <2>1. PICK i : i = part.registry
    OBVIOUS
  <2>2. Alive = {i}
    BY <2>1 DEF Quiet, Alive, Holds, Claim
  <2>3. open = UNION {BuildProviders(conf[j], j) : j \in {i}}
    BY <2>2 DEF ProvidersInv, Quiet
  <2> QED
    BY <2>1, <2>3
<1> QED
  BY <1>1, <1>2, <1>3, PTL DEF ReloadSpec

LEMMA PartsStart == ReloadInit => PartsInv
  BY SMTT(60) DEF ReloadInit, PartsInv, Idle

LEMMA DoneIs ==
  /\ Done("prepare") = {} /\ Done("cfg") = {} /\ Done("registry") = {"cfg"}
  /\ Done("close") = {"cfg", "registry"} /\ Done("routes") = {"cfg", "registry"}
  /\ Done("filter") = {"cfg", "registry", "routes"} /\ Done("tenants") = {"cfg", "registry", "routes", "filter"}
  /\ Done("sink") = {"cfg", "registry", "routes", "filter", "tenants"}
  /\ Done("take") = Parts \ {"writer"} /\ Done("writer") = Parts \ {"writer"}
  /\ \A s \in {"closew", "read", "temp", "bak", "moving", "rename"} : Done(s) = Parts
  BY DEF Done

\* What is enough when only one request is served.
LEMMA OneServed ==
  ASSUME ReloadType, PartsInv, ~overlap, NEW e \in Editor, req[e].at # "idle",
         \A f \in Editor : f # e => req'[f] = req[f],
         req'[e].at # "idle" => Served(e)',
         req'[e].at = "idle" =>
           /\ \A p \in Parts : part'[p] = part'.writer
           /\ writers' = NewWriter(conf'[part'.writer], part'.writer)
  PROVE  PartsInv'
<1>1. \A f \in Editor : f # e => req'[f].at = "idle"
  BY DEF PartsInv
<1> QED
  BY <1>1 DEF PartsInv, AllIdle

LEMMA BeginParts ==
  ASSUME ReloadType, PartsInv, NEW e \in Editor, NEW c, NEW names, Begin(e, c, names)
  PROVE  PartsInv'
<1> SUFFICES ASSUME ~overlap' PROVE PartsInv'
  BY DEF PartsInv
<1>1. /\ edits \in Nat /\ edits' = edits + 1 /\ part' = part /\ writers' = writers /\ up = "up"
      /\ ~overlap /\ AllIdle
  BY IdsGrow DEF Begin, AllIdle
<1>2. \A f \in Editor : f # e => req'[f] = req[f]
  BY DEF ReloadType, Begin
<1>3. req'[e].at = "prepare" /\ req'[e].id = edits'
  BY DEF ReloadType, Begin, Idle
<1>4. "writer" \in Parts /\ part.writer \in 0..edits
  BY DEF Parts, ReloadType
<1>5. conf'[part.writer] = conf[part.writer] /\ part.writer # edits'
  BY <1>1, <1>4 DEF Begin, ReloadType
<1>6. writers' = NewWriter(conf'[part'.writer], part'.writer) /\ \A p \in Parts : part'[p] = part'.writer
  BY <1>1, <1>5 DEF PartsInv
<1>7. Served(e)'
  BY <1>1, <1>3, <1>5, <1>6, DoneIs DEF Served
<1> QED
  BY <1>1, <1>2, <1>3, <1>7 DEF PartsInv, AllIdle

LEMMA PrepareParts ==
  ASSUME ReloadType, PartsInv, ~overlap, NEW e \in Editor, Prepare(e)
  PROVE  PartsInv'
<1>1. /\ req[e].at = "prepare" /\ part' = part /\ conf' = conf /\ edits' = edits
      /\ Served(e) /\ \A f \in Editor : f # e => req'[f] = req[f]
  BY DEF Prepare, At, PartsInv, ReloadType, GoTo
<1>2. CASE req' = [req EXCEPT ![e] = Idle] /\ writers' = writers
  <2>1. req'[e].at = "idle"
    BY <1>2 DEF ReloadType, Idle
  <2>2. /\ \A p \in Parts : part'[p] = part'.writer
        /\ writers' = NewWriter(conf'[part'.writer], part'.writer)
    BY <1>1, <1>2, DoneIs DEF Served
  <2> QED
    BY <1>1, <2>1, <2>2, OneServed
<1>3. CASE writers' = writers \cup NewWriter(conf[req[e].id], req[e].id) /\ GoTo(e, "cfg")
  <2>1. req'[e].at = "cfg" /\ req'[e].id = edits'
    BY <1>1, <1>3 DEF ReloadType, GoTo, Served
  <2>2. Served(e)'
    BY <1>1, <1>3, <2>1, DoneIs DEF Served
  <2> QED
    BY <1>1, <2>1, <2>2, OneServed
<1> QED
  BY <1>2, <1>3 DEF Prepare

\* A part other than the writer is replaced.
LEMMA PutParts ==
  ASSUME ReloadType, PartsInv, ~overlap, NEW e \in Editor, NEW p \in Parts \ {"writer"},
         req[e].at \notin {"idle", "prepare", "closew", "writer"},
         req'[e].at \notin {"idle", "prepare", "closew", "writer"},
         Done(req'[e].at) = Done(req[e].at) \cup {p}, Done(req[e].at) \subseteq Parts \ {"writer"},
         req'[e].id = req[e].id,
         \A f \in Editor : f # e => req'[f] = req[f],
         part' = [part EXCEPT ![p] = req[e].id], conf' = conf, edits' = edits, writers' = writers
  PROVE  PartsInv'
<1>1. Served(e) /\ "writer" \in Parts
  BY DEF PartsInv, Parts
<1>2. /\ part'.writer = part.writer /\ part'[p] = edits
      /\ \A q \in Parts : q # p => part'[q] = part[q]
  BY <1>1 DEF ReloadType, Served
<1>3. Served(e)'
  BY <1>1, <1>2 DEF Served
<1> QED
  BY <1>3, OneServed

LEMMA PutsParts ==
  ASSUME ReloadType, PartsInv, ~overlap, NEW e \in Editor,
         \/ PutCfg(e) \/ Replace(e) \/ ReloadRoutes(e) \/ ReloadFilter(e) \/ ReloadTenants(e) \/ SetCDRSink(e)
  PROVE  PartsInv'
<1>1. /\ \A f \in Editor : f # e => req'[f] = req[f]
      /\ conf' = conf /\ edits' = edits /\ writers' = writers /\ req'[e].id = req[e].id
  BY DEF PutCfg, Replace, ReloadRoutes, ReloadFilter, ReloadTenants, SetCDRSink, Put, GoTo, ReloadType
<1>2. \E p \in Parts \ {"writer"} :
        /\ req[e].at \notin {"idle", "prepare", "closew", "writer"}
        /\ req'[e].at \notin {"idle", "prepare", "closew", "writer"}
        /\ Done(req'[e].at) = Done(req[e].at) \cup {p} /\ Done(req[e].at) \subseteq Parts \ {"writer"}
        /\ part' = [part EXCEPT ![p] = req[e].id]
  <2>1. CASE PutCfg(e)
    <3>1. req[e].at = "cfg" /\ req'[e].at = "registry" /\ part' = [part EXCEPT !["cfg"] = req[e].id]
      BY <2>1 DEF PutCfg, Put, GoTo, At, ReloadType
    <3> QED
      BY <3>1, DoneIs DEF Parts
  <2>2. CASE Replace(e)
    <3>1. req[e].at = "registry" /\ req'[e].at = "close" /\ part' = [part EXCEPT !["registry"] = req[e].id]
      BY <2>2 DEF Replace, At, ReloadType
    <3> QED
      BY <3>1, DoneIs DEF Parts
  <2>3. CASE ReloadRoutes(e)
    <3>1. req[e].at = "routes" /\ req'[e].at = "filter" /\ part' = [part EXCEPT !["routes"] = req[e].id]
      BY <2>3 DEF ReloadRoutes, Put, GoTo, At, ReloadType
    <3> QED
      BY <3>1, DoneIs DEF Parts
  <2>4. CASE ReloadFilter(e)
    <3>1. req[e].at = "filter" /\ req'[e].at = "tenants" /\ part' = [part EXCEPT !["filter"] = req[e].id]
      BY <2>4 DEF ReloadFilter, Put, GoTo, At, ReloadType
    <3> QED
      BY <3>1, DoneIs DEF Parts
  <2>5. CASE ReloadTenants(e)
    <3>1. req[e].at = "tenants" /\ req'[e].at = "sink" /\ part' = [part EXCEPT !["tenants"] = req[e].id]
      BY <2>5 DEF ReloadTenants, Put, GoTo, At, ReloadType
    <3> QED
      BY <3>1, DoneIs DEF Parts
  <2>6. CASE SetCDRSink(e)
    <3>1. req[e].at = "sink" /\ req'[e].at = "take" /\ part' = [part EXCEPT !["sink"] = req[e].id]
      BY <2>6 DEF SetCDRSink, Put, GoTo, At, ReloadType
    <3> QED
      BY <3>1, DoneIs DEF Parts
  <2> QED
    BY <2>1, <2>2, <2>3, <2>4, <2>5, <2>6
<1> QED
  BY <1>1, <1>2, PutParts

\* A step after which the request has replaced what it had before.
LEMMA SameParts ==
  ASSUME ReloadType, PartsInv, ~overlap, NEW e \in Editor,
         req[e].at \notin {"idle", "prepare", "closew", "writer"},
         req'[e].at \notin {"prepare", "closew", "writer"},
         IF req'[e].at = "idle" THEN Done(req[e].at) = Parts
                                ELSE Done(req'[e].at) = Done(req[e].at) /\ req'[e].id = req[e].id,
         \A f \in Editor : f # e => req'[f] = req[f],
         part' = part, conf' = conf, edits' = edits, writers' = writers
  PROVE  PartsInv'
<1>1. Served(e)
  BY DEF PartsInv
<1>2. CASE req'[e].at = "idle"
  <2>1. \A p \in Parts : part[p] = edits
    BY <1>1, <1>2 DEF Served
  <2>2. part.writer = edits
    BY <2>1 DEF Parts
  <2>3. writers = NewWriter(conf[edits], edits)
    BY <1>1, <2>2 DEF Served
  <2> QED
    BY <1>2, <2>1, <2>2, <2>3, OneServed
<1>3. CASE req'[e].at # "idle"
  <2>1. Served(e)'
    BY <1>1, <1>3 DEF Served
  <2> QED
    BY <1>3, <2>1, OneServed
<1> QED
  BY <1>2, <1>3

LEMMA WriterParts ==
  ASSUME ReloadType, PartsInv, ~overlap, NEW e \in Editor, TakeWriter(e) \/ PutWriter(e) \/ CloseWriter(e)
  PROVE  PartsInv'
<1>1. /\ \A f \in Editor : f # e => req'[f] = req[f]
      /\ conf' = conf /\ edits' = edits /\ req'[e].id = req[e].id
      /\ req[e].at # "idle"
  BY DEF TakeWriter, PutWriter, CloseWriter, Put, GoTo, ReloadType, At
<1>2. Served(e) /\ "writer" \in Parts /\ part.writer \in 0..edits
  BY <1>1 DEF PartsInv, Parts, ReloadType
<1>3. CASE TakeWriter(e)
  <2>1. req[e].at = "take" /\ req'[e].at = "writer" /\ req'[e].old = part.writer /\ part' = part /\ writers' = writers
    BY <1>3 DEF TakeWriter, ReloadType, At
  <2>2. Served(e)'
    BY <1>1, <1>2, <2>1, DoneIs DEF Served
  <2> QED
    BY <1>1, <2>1, <2>2, OneServed
<1>4. CASE PutWriter(e)
  <2>1. /\ req[e].at = "writer" /\ req'[e].at = "closew" /\ req'[e].old = part.writer /\ writers' = writers
        /\ part' = [part EXCEPT !["writer"] = edits] /\ part.writer # edits
    BY <1>2, <1>4, DoneIs DEF PutWriter, Put, GoTo, ReloadType, At, Served
  <2>2. \A p \in Parts : part'[p] = edits
    BY <1>2, <2>1, DoneIs DEF Served, ReloadType
  <2>3. part'.writer = edits
    BY <1>2, <2>2
  <2>4. Served(e)'
    BY <1>1, <1>2, <2>1, <2>2, <2>3, DoneIs DEF Served
  <2> QED
    BY <1>1, <2>1, <2>4, OneServed
<1>5. CASE CloseWriter(e)
  <2>1. /\ req[e].at = "closew" /\ req'[e].at = "read" /\ req'[e].old = req[e].old
        /\ part' = part /\ writers' = writers \ {req[e].old}
    BY <1>5 DEF CloseWriter, GoTo, ReloadType, At
  <2>2. part.writer = edits
    BY <1>2, <2>1, DoneIs DEF Served
  <2>3. writers' = NewWriter(conf[edits], edits)
    BY <1>2, <2>1, <2>2 DEF Served, NewWriter
  <2>4. Served(e)'
    BY <1>1, <1>2, <2>1, <2>2, <2>3, DoneIs DEF Served
  <2> QED
    BY <1>1, <2>1, <2>4, OneServed
<1> QED
  BY <1>3, <1>4, <1>5

LEMMA LateParts ==
  ASSUME ReloadType, PartsInv, ~overlap, NEW e \in Editor, CloseOld(e) \/ ReadBack(e) \/ Write(e)
  PROVE  PartsInv'
<1>1. /\ \A f \in Editor : f # e => req'[f] = req[f]
      /\ conf' = conf /\ edits' = edits /\ part' = part /\ writers' = writers
  BY DEF CloseOld, ReadBack, Write, WriteTemp, StatFile, MoveFile, Rename, GoTo, End, ReloadType
<1>2. req'[e].at # "idle" => req'[e].id = req[e].id
  BY DEF CloseOld, ReadBack, Write, WriteTemp, StatFile, MoveFile, Rename, GoTo, End, ReloadType, Idle
<1>3. \/ req[e].at = "close" /\ req'[e].at = "routes"
      \/ /\ req[e].at \in {"read", "temp", "bak", "moving", "rename"}
         /\ req'[e].at \in {"idle", "temp", "bak", "moving", "rename"}
  BY DEF CloseOld, ReadBack, Write, WriteTemp, StatFile, MoveFile, Rename, Writing, At, GoTo, End, ReloadType, Idle
<1>4. CASE req[e].at = "close" /\ req'[e].at = "routes"
  <2>1. /\ req[e].at \notin {"idle", "prepare", "closew", "writer"} /\ req'[e].at \notin {"prepare", "closew", "writer"}
        /\ req'[e].at # "idle"
    BY <1>4
  <2>2. Done(req'[e].at) = Done(req[e].at) /\ req'[e].id = req[e].id
    BY <1>2, <1>4, DoneIs
  <2> QED
    BY <1>1, <2>1, <2>2, SameParts
<1>5. CASE /\ req[e].at \in {"read", "temp", "bak", "moving", "rename"}
           /\ req'[e].at \in {"idle", "temp", "bak", "moving", "rename"}
  <2>1. /\ req[e].at \notin {"idle", "prepare", "closew", "writer"} /\ req'[e].at \notin {"prepare", "closew", "writer"}
    BY <1>5
  <2>2. Done(req[e].at) = Parts
    BY <1>5, DoneIs
  <2>3. req'[e].at # "idle" => Done(req'[e].at) = Parts /\ req'[e].id = req[e].id
    BY <1>2, <1>5, DoneIs
  <2> QED
    BY <1>1, <2>1, <2>2, <2>3, SameParts
<1> QED
  BY <1>3, <1>4, <1>5

LEMMA StartParts ==
  ASSUME ReloadType, PartsInv, Start \/ Write(Boot)
  PROVE  PartsInv'
<1>0. overlap' = overlap
  BY DEF Start, Write, WriteTemp, StatFile, MoveFile, Rename
<1> SUFFICES ASSUME ~overlap PROVE PartsInv'
  BY <1>0 DEF PartsInv
<1>1. \A e \in Editor : req[e].at = "idle" /\ req'[e].at = "idle"
  <2>1. up # "up"
    BY DEF Start, Write, WriteTemp, StatFile, MoveFile, Rename, Writing
  <2>2. \A e \in Editor : req'[e] = req[e]
    BY ReloadAssumption DEF Start, Write, WriteTemp, StatFile, MoveFile, Rename, GoTo, End, ReloadType
  <2> QED
    BY <2>1, <2>2 DEF ReloadType
<1>2. CASE Write(Boot)
  <2>1. conf' = conf /\ part' = part /\ writers' = writers /\ up = "starting"
    BY <1>2 DEF Write, WriteTemp, StatFile, MoveFile, Rename, Writing
  <2> QED
    BY <1>1, <2>1 DEF PartsInv, AllIdle
<1>3. CASE Start
  <2> DEFINE found == IF file # None THEN file ELSE Seed
  <2>1. CASE found = None
    BY <1>1, <1>3, <2>1 DEF Start, PartsInv, AllIdle
  <2>2. CASE found # None
    <3>1. PICK c : c = WithSecrets(found)
      OBVIOUS
    <3>2. conf'[0] = c /\ part' = [p \in Parts |-> 0] /\ writers' = NewWriter(c, 0)
      BY <1>3, <2>2, <3>1, IdsGrow DEF Start, ReloadType
    <3>3. part'.writer = 0 /\ \A p \in Parts : part'[p] = 0
      BY <3>2 DEF Parts
    <3> QED
      BY <1>1, <3>2, <3>3 DEF PartsInv, AllIdle
  <2> QED
    BY <2>1, <2>2
<1> QED
  BY <1>2, <1>3

LEMMA PartsStep == ReloadType /\ PartsInv /\ [ReloadNext]_reloadVars => PartsInv'
<1> SUFFICES ASSUME ReloadType, PartsInv, [ReloadNext]_reloadVars PROVE PartsInv'
  OBVIOUS
<1>1. ASSUME NEW e \in Editor, Edit(e) PROVE PartsInv'
  BY <1>1, EditBegins, BeginParts
<1>2. ASSUME NEW e \in Editor, Update(e) PROVE PartsInv'
  <2>1. overlap' = overlap
    BY <1>2 DEF Update, Prepare, PutCfg, Replace, CloseOld, ReloadRoutes, ReloadFilter, ReloadTenants,
       SetCDRSink, TakeWriter, PutWriter, CloseWriter, ReadBack, Put
  <2>2. CASE ~overlap
    BY <1>2, <2>2, PrepareParts, PutsParts, WriterParts, LateParts DEF Update
  <2> QED
    BY <2>1, <2>2 DEF PartsInv
<1>3. ASSUME NEW e \in Editor, Write(e) PROVE PartsInv'
  <2>1. overlap' = overlap
    BY <1>3 DEF Write, WriteTemp, StatFile, MoveFile, Rename
  <2>2. CASE ~overlap
    BY <1>3, <2>2, LateParts
  <2> QED
    BY <2>1, <2>2 DEF PartsInv
<1>4. CASE Crash
  <2>1. up' = "down" /\ \A e \in Editor : req'[e].at = "idle"
    BY <1>4 DEF Crash, Idle
  <2> QED
    BY <2>1 DEF PartsInv
<1>5. CASE StartFails
  <2>1. /\ up' = "failed" /\ overlap' = overlap
        /\ \A e \in Editor : req'[e].at = "idle"
    BY <1>5 DEF StartFails, ReloadType
  <2> QED
    BY <2>1 DEF PartsInv
<1>6. CASE UNCHANGED reloadVars
  BY <1>6 DEF reloadVars, PartsInv, AllIdle, Served
<1> QED
  BY <1>1, <1>2, <1>3, <1>4, <1>5, <1>6, StartParts DEF ReloadNext

\* As long as requests come one after the other, between them every part that
\* UpdateConfig replaces is of the configuration in use and exactly its CDR
\* writer is open, also after requests that were refused, failed or cut off by a
\* crash (Gateway.UpdateConfig).
THEOREM PartsAgreeHolds == ReloadSpec => []PartsAgree
<1>1. ReloadInit => ReloadType /\ PartsInv
  BY ReloadTypeStart, PartsStart
<1>2. ReloadType /\ PartsInv /\ [ReloadNext]_reloadVars => ReloadType' /\ PartsInv'
  BY ReloadTypeStep, PartsStep
<1>3. PartsInv => PartsAgree
  <2> SUFFICES ASSUME PartsInv, Quiet, ~overlap
               PROVE  /\ \A p \in Parts : part[p] = part.cfg
                      /\ writers = NewWriter(conf[part.sink], part.sink)
    BY DEF PartsAgree
  <2>1. /\ \A p \in Parts : part[p] = part.writer
        /\ writers = NewWriter(conf[part.writer], part.writer)
    BY DEF PartsInv, AllIdle, Quiet
  <2>2. part.cfg = part.writer /\ part.sink = part.writer
    BY <2>1 DEF Parts
  <2> QED
    BY <2>1, <2>2
<1> QED
  BY <1>1, <1>2, <1>3, PTL DEF ReloadSpec

LEMMA SavedStart == ReloadInit => SavedInv
  BY SMTT(60) DEF ReloadInit, SavedInv, Keeps, Idle

\* More edits, and more starts, leave what a configuration keeps as it is.
LEMMA KeepsMore ==
  ASSUME NEW c, edits \in Nat, edits' \in Nat, edits' >= edits, saved \subseteq 1..edits, saved' = saved,
         \A i \in 1..edits : about'[i] = about[i] /\ conf'[i] = conf[i],
         Keeps(c)
  PROVE  Keeps(c)'
<1>1. ASSUME NEW i \in saved, NEW n \in about[i], \A j \in (i + 1)..edits' : n \notin about'[j]
      PROVE  c.routes[n] = conf[i].routes[n]
  <2>1. i \in Nat /\ i >= 1
    OBVIOUS
  <2>2. \A j \in (i + 1)..edits : j \in 1..edits /\ j \in (i + 1)..edits'
    BY <2>1
  <2>3. \A j \in (i + 1)..edits : n \notin about[j]
    BY <1>1, <2>2
  <2> QED
    BY <2>3 DEF Keeps
<1>2. \A i \in saved : about'[i] = about[i] /\ conf'[i] = conf[i]
  OBVIOUS
<1> QED
  BY SMTT(60), <1>1, <1>2 DEF Keeps

\* The last edit, once it is saved, is kept by its own configuration.
LEMMA KeepsLast ==
  ASSUME NEW c, edits \in Nat, edits' = edits, saved' = saved \cup {edits}, about' = about, conf' = conf,
         c.routes = conf[edits].routes, Keeps(c)
  PROVE  Keeps(c)'
  BY DEF Keeps

\* An edit that is not saved yet keeps what it is not about.
LEMMA KeepsPut ==
  ASSUME NEW c, NEW d, edits \in Nat, saved \subseteq 1..edits, edits \notin saved,
         \A i \in saved : about[i] \subseteq Name,
         \A n \in Name \ about[edits] : d.routes[n] = c.routes[n], Keeps(c)
  PROVE  Keeps(d)
<1> SUFFICES ASSUME NEW i \in saved, NEW n \in about[i], \A j \in (i + 1)..edits : n \notin about[j]
             PROVE  d.routes[n] = conf[i].routes[n]
  BY DEF Keeps
<1>1. edits \in (i + 1)..edits
  <2>1. i \in Nat /\ i <= edits /\ i # edits
    OBVIOUS
  <2>2. i + 1 <= edits
    BY <2>1
  <2> QED
    BY SMTT(60), <2>1, <2>2
<1>2. n \in Name \ about[edits]
  BY <1>1
<1> QED
  BY <1>2 DEF Keeps

\* A step that leaves the configuration in use, the file and what is saved.
LEMMA SameSaved ==
  ASSUME ReloadType, PartsInv, SavedInv, ~overlap, NEW e \in Editor, req[e].at # "idle",
         \A f \in Editor \cup {Boot} : f # e => req'[f] = req[f],
         req'[e].at \in {"prepare", "cfg"} => req[e].at \in {"prepare", "cfg"},
         req'[e].at \in {"temp", "bak", "moving", "rename"} => req'[e].data = CurrentConfig,
         part'.cfg = part.cfg, conf' = conf, edits' = edits, about' = about, saved' = saved, up' = up,
         file' \in {file, None}
  PROVE  SavedInv'
<1>1. CurrentConfig' = CurrentConfig /\ edits \notin saved /\ up = "up"
  BY DEF CurrentConfig, SavedInv, ReloadType
<1>2. Keeps(CurrentConfig)'
  BY <1>1 DEF SavedInv, Keeps
<1>3. file' # None => Keeps(file)'
  <2>1. file' # None => file' = file /\ Keeps(file)
    BY DEF SavedInv
  <2> QED
    BY <2>1 DEF Keeps
<1>4. \A f \in Editor : f # e => req'[f].at = "idle"
  BY DEF PartsInv
<1> QED
  BY <1>1, <1>2, <1>3, <1>4 DEF SavedInv

LEMMA BeginSaved ==
  ASSUME ReloadType, PartsInv, SavedInv, NEW e \in Editor, NEW c, NEW names, Begin(e, c, names),
         \A n \in Name \ names : c.routes[n] = CurrentConfig.routes[n]
  PROVE  SavedInv'
<1> SUFFICES ASSUME ~overlap' PROVE SavedInv'
  BY DEF SavedInv
<1>1. /\ edits \in Nat /\ MaxEdits \in Nat /\ edits' = edits + 1 /\ edits' <= MaxEdits /\ part' = part
      /\ saved' = saved /\ file' = file /\ up = "up" /\ up' = up
      /\ ~overlap /\ \A f \in Editor : req[f].at = "idle"
  <2>1. edits \in Nat /\ MaxEdits \in Nat /\ edits' = edits + 1 /\ edits < MaxEdits
    BY IdsGrow DEF Begin
  <2>2. edits + 1 <= MaxEdits
    BY <2>1
  <2> QED
    BY <2>1, <2>2 DEF Begin
<1>2. \A f \in Editor : f # e => req'[f] = req[f]
  BY DEF ReloadType, Begin
<1>3. req'[e].at = "prepare"
  BY DEF ReloadType, Begin, Idle
<1>4. PICK q : q = edits + 1
  OBVIOUS
<1>5. /\ edits' = q /\ conf'[q] = c /\ about'[q] = names
      /\ \A i \in 0..edits : about'[i] = about[i] /\ conf'[i] = conf[i]
  BY <1>1, <1>4 DEF Begin, ReloadType
<1>6. PICK d : d = CurrentConfig
  OBVIOUS
<1>7. CurrentConfig' = d
  <2>1. part.cfg \in 0..edits
    BY DEF ReloadType, Parts
  <2> QED
    BY <1>1, <1>5, <1>6, <2>1 DEF CurrentConfig
<1>8. saved \subseteq 1..edits /\ edits' >= edits /\ edits' \in Nat /\ \A i \in 1..edits : i \in 0..edits
  BY SMTT(60), <1>1 DEF ReloadType
<1>9. Keeps(CurrentConfig)'
  <2>1. Keeps(d)
    BY <1>1, <1>6 DEF SavedInv
  <2>2. Keeps(d)'
    BY <1>1, <1>5, <1>8, <2>1, KeepsMore
  <2> QED
    BY <2>2, <1>7 DEF Keeps
<1>10. file' # None => Keeps(file)'
  <2> SUFFICES ASSUME file # None PROVE Keeps(file)'
    BY <1>1
  <2>1. PICK x : x = file
    OBVIOUS
  <2>2. Keeps(x)
    BY <1>1, <2>1 DEF SavedInv
  <2>3. Keeps(x)'
    BY <1>1, <1>5, <1>8, <2>2, KeepsMore
  <2> QED
    BY <2>1, <2>3, <1>1 DEF Keeps
<1>11. edits' \notin saved'
  BY SMTT(60), <1>1, <1>8
<1>12. \A n \in Name \ about'[q] : conf'[q].routes[n] = CurrentConfig'.routes[n]
  BY <1>5, <1>6, <1>7
<1> QED
  BY <1>1, <1>2, <1>3, <1>5, <1>7, <1>9, <1>10, <1>11, <1>12 DEF SavedInv

LEMMA PutCfgSaved ==
  ASSUME ReloadType, PartsInv, SavedInv, ~overlap, NEW e \in Editor, PutCfg(e)
  PROVE  SavedInv'
<1>1. /\ req[e].at = "cfg" /\ req'[e].at = "registry" /\ up = "up" /\ up' = up /\ conf' = conf /\ edits' = edits
      /\ about' = about /\ saved' = saved /\ file' = file
      /\ \A f \in Editor \cup {Boot} : f # e => req'[f] = req[f]
  BY DEF PutCfg, Put, At, GoTo, ReloadType
<1>2. Served(e) /\ \A f \in Editor : f # e => req'[f].at = "idle"
  BY <1>1 DEF PartsInv
<1>3. part'.cfg = edits
  BY <1>2 DEF PutCfg, Put, ReloadType, Parts, Served
<1>4. CurrentConfig' = conf[edits]
  BY <1>1, <1>3 DEF CurrentConfig
<1>5. edits \notin saved /\ edits \in Nat /\ saved \subseteq 1..edits
  BY <1>1, IdsGrow DEF SavedInv, ReloadType
<1>6. Keeps(conf[edits])
  <2>1. \A n \in Name \ about[edits] : conf[edits].routes[n] = CurrentConfig.routes[n]
    BY <1>1 DEF SavedInv
  <2>2. PICK c, d : c = CurrentConfig /\ d = conf[edits]
    OBVIOUS
  <2>3. Keeps(c) /\ \A i \in saved : about[i] \subseteq Name
    BY SMTT(60), <1>1, <1>5, <2>2, IdsGrow DEF SavedInv, ReloadType
  <2> QED
    BY <2>1, <2>2, <2>3, <1>5, KeepsPut
<1>7. Keeps(CurrentConfig)' /\ (file' # None => Keeps(file)')
  <2>1. file # None => Keeps(file)
    BY DEF SavedInv
  <2>2. Keeps(CurrentConfig)'
    BY <1>1, <1>4, <1>6 DEF Keeps
  <2>3. file' # None => Keeps(file)'
    BY <1>1, <2>1 DEF Keeps
  <2> QED
    BY <2>2, <2>3
<1> QED
  BY <1>1, <1>2, <1>4, <1>5, <1>7 DEF SavedInv

LEMMA UpdateSaved ==
  ASSUME ReloadType, PartsInv, SavedInv, ~overlap, NEW e \in Editor, Update(e)
  PROVE  SavedInv'
<1>1. CASE PutCfg(e)
  BY <1>1, PutCfgSaved
<1>2. CASE Update(e) /\ ~PutCfg(e)
  <2>1. /\ \A f \in Editor \cup {Boot} : f # e => req'[f] = req[f]
        /\ req[e].at # "idle"
        /\ conf' = conf /\ edits' = edits /\ about' = about /\ saved' = saved /\ up' = up /\ file' = file
    BY DEF Update, Prepare, PutCfg, Replace, CloseOld, ReloadRoutes, ReloadFilter, ReloadTenants,
       SetCDRSink, TakeWriter, PutWriter, CloseWriter, ReadBack, Put, At, GoTo, ReloadType
  <2>2. part'.cfg = part.cfg
    BY <1>2 DEF Update, Prepare, Replace, CloseOld, ReloadRoutes, ReloadFilter, ReloadTenants,
       SetCDRSink, TakeWriter, PutWriter, CloseWriter, ReadBack, Put, ReloadType, Parts
  <2>3. CASE Prepare(e)
    <3>1. req[e].at = "prepare" /\ req'[e].at \in {"idle", "cfg"}
      BY <2>3 DEF Prepare, At, GoTo, Idle, ReloadType
    <3> QED
      BY <2>1, <2>2, <3>1, SameSaved
  <2>4. CASE ReadBack(e)
    <3>1. req'[e].at = "temp" /\ req'[e].data = CurrentConfig
      BY <2>4 DEF ReadBack, ReloadType
    <3> QED
      BY <2>1, <2>2, <3>1, SameSaved
  <2>5. CASE ~(Prepare(e) \/ ReadBack(e))
    <3>1. req'[e].at \in {"close", "routes", "filter", "tenants", "sink", "take", "writer", "closew", "read"}
      BY <1>2, <2>5, SMTT(40) DEF Update, Replace, CloseOld, ReloadRoutes, ReloadFilter, ReloadTenants,
         SetCDRSink, TakeWriter, PutWriter, CloseWriter, Put, GoTo, ReloadType
    <3> QED
      BY <2>1, <2>2, <3>1, SameSaved
  <2> QED
    BY <2>3, <2>4, <2>5
<1> QED
  BY <1>1, <1>2

LEMMA WriteSaved ==
  ASSUME ReloadType, PartsInv, SavedInv, ~overlap, NEW e \in Editor, Write(e)
  PROVE  SavedInv'
<1>1. /\ \A f \in Editor \cup {Boot} : f # e => req'[f] = req[f]
      /\ req[e].at \in {"temp", "bak", "moving", "rename"} /\ e # Boot /\ up = "up"
      /\ conf' = conf /\ edits' = edits /\ about' = about /\ up' = up /\ part' = part
  BY ReloadAssumption DEF Write, WriteTemp, StatFile, MoveFile, Rename, Writing, GoTo, End, ReloadType
<1>2. req[e].data = CurrentConfig /\ CurrentConfig \in Config
  BY <1>1, IdsGrow DEF SavedInv
<1>3. CASE saved' = saved /\ file' \in {file, None}
  <2>1. \/ req'[e].at = "idle"
        \/ req'[e].at \in {"bak", "moving", "rename"} /\ req'[e].data = req[e].data
    BY DEF Write, WriteTemp, StatFile, MoveFile, Rename, GoTo, End, ReloadType, Idle
  <2> QED
    BY <1>1, <1>2, <1>3, <2>1, SameSaved
<1>4. CASE Rename(e) /\ file' = req[e].data /\ End(e, TRUE)
  <2>1. Served(e) /\ \A f \in Editor : f # e => req'[f].at = "idle"
    BY <1>1 DEF PartsInv
  <2>2. saved' = saved \cup {edits} /\ req'[e].at = "idle"
    BY <1>1, <1>4, <2>1 DEF End, Served, Idle, ReloadType
  <2>3. part.cfg = edits /\ edits \in Nat
    BY <1>1, <2>1, DoneIs, IdsGrow DEF Served, Parts
  <2>4. PICK c : c = conf[edits]
    OBVIOUS
  <2>5. CurrentConfig = c /\ CurrentConfig' = c /\ file' = c
    BY <1>1, <1>2, <1>4, <2>3, <2>4 DEF CurrentConfig
  <2>6. Keeps(c)
    BY <1>1, <2>5 DEF SavedInv
  <2>7. Keeps(c)'
    BY <1>1, <2>2, <2>3, <2>4, <2>6, KeepsLast
  <2>8. Keeps(CurrentConfig)' /\ Keeps(file)'
    BY <2>5, <2>7 DEF Keeps
  <2> QED
    BY <1>1, <2>1, <2>2, <2>5, <2>8 DEF SavedInv
<1>5. \/ saved' = saved /\ file' \in {file, None}
      \/ Rename(e) /\ file' = req[e].data /\ End(e, TRUE)
  BY DEF Write, WriteTemp, StatFile, MoveFile, Rename, End
<1> QED
  BY <1>3, <1>4, <1>5

LEMMA BootSaved ==
  ASSUME ReloadType, SavedInv, ~overlap, Write(Boot)
  PROVE  SavedInv'
<1>1. /\ \A f \in Editor : req'[f] = req[f] /\ req[f].at = "idle"
      /\ up = "starting" /\ conf' = conf /\ edits' = edits /\ about' = about /\ part' = part /\ saved' = saved
  BY ReloadAssumption DEF Write, WriteTemp, StatFile, MoveFile, Rename, Writing, GoTo, End, ReloadType
<1>2. CurrentConfig' = CurrentConfig /\ req[Boot].data = CurrentConfig
  BY <1>1 DEF CurrentConfig, SavedInv
<1>3. /\ file' \in {file, None, CurrentConfig}
      /\ up' = "starting" => req'[Boot].data = CurrentConfig
      /\ up' = "up" => file' = CurrentConfig
  BY <1>1, <1>2 DEF Write, WriteTemp, StatFile, MoveFile, Rename, GoTo, End, ReloadType
<1>4. Keeps(CurrentConfig)' /\ (file' # None => Keeps(file)')
  <2>1. Keeps(CurrentConfig) /\ (file # None => Keeps(file))
    BY <1>1 DEF SavedInv
  <2>2. Keeps(CurrentConfig)'
    BY <1>1, <1>2, <2>1 DEF Keeps
  <2>3. file' # None => Keeps(file)'
    BY <1>1, <1>2, <1>3, <2>1 DEF Keeps
  <2> QED
    BY <2>2, <2>3
<1>5. \A e \in Editor : req'[e].at = "idle"
  BY <1>1
<1>6. up' = "starting" => req'[Boot].data = CurrentConfig'
  BY <1>2, <1>3
<1>7. up' = "up" => file' = CurrentConfig'
  BY <1>2, <1>3
<1> QED
  BY <1>4, <1>5, <1>6, <1>7 DEF SavedInv

LEMMA StartSaved ==
  ASSUME ReloadType, SavedInv, ~overlap, Start, Seed = None
  PROVE  SavedInv'
<1>1. /\ \A f \in Editor : req'[f].at = "idle"
      /\ edits' = edits /\ about' = about /\ saved' = saved /\ file' = file
  BY ReloadAssumption DEF Start, ReloadType
<1>2. CASE file = None
  <2>1. up' = "failed"
    BY <1>2 DEF Start
  <2> QED
    BY <1>1, <1>2, <2>1 DEF SavedInv
<1>3. CASE file # None
  <2>1. PICK d, c : d = file /\ c = WithSecrets(file)
    OBVIOUS
  <2>2. d \in Config /\ Keeps(d)
    BY <1>3, <2>1 DEF ReloadType, SavedInv
  <2>3. c.routes = d.routes /\ (d.auto \/ c = d)
    <3>1. d.auto = FALSE => [d EXCEPT !.auto = FALSE] = d
      BY <2>2 DEF Config
    <3>2. d.auto \in BOOLEAN
      BY <2>2 DEF Config
    <3> QED
      BY <2>1, <2>2, <3>1, <3>2 DEF WithSecrets, Config
  <2>4. /\ conf' = [conf EXCEPT ![0] = c] /\ part' = [p \in Parts |-> 0]
        /\ up' = (IF d.auto THEN "starting" ELSE "up")
        /\ d.auto => req' = [req EXCEPT ![Boot] = [Idle EXCEPT !.at = "temp", !.data = c]]
    BY <1>3, <2>1 DEF Start
  <2>5. CurrentConfig' = c /\ \A i \in 1..edits : conf'[i] = conf[i]
    BY <2>4, IdsGrow DEF CurrentConfig, ReloadType, Parts
  <2>6. d.auto => req'[Boot].data = c
    <3>1. PICK r : r = [Idle EXCEPT !.at = "temp", !.data = c]
      OBVIOUS
    <3>2. r.data = c
      BY <3>1 DEF Idle
    <3>3. d.auto => req'[Boot] = r
      BY <2>4, <3>1 DEF ReloadType
    <3> QED
      BY <3>2, <3>3
  <2>7. saved \subseteq 1..edits /\ edits \in Nat /\ edits <= edits
    BY SMTT(60), IdsGrow DEF ReloadType
  <2>8. Keeps(d)' /\ Keeps(c)'
    <3>1. Keeps(c)
      BY <2>2, <2>3 DEF Keeps
    <3> QED
      BY <1>1, <2>2, <2>5, <2>7, <3>1, KeepsMore
  <2>9. Keeps(CurrentConfig)' /\ Keeps(file)'
    BY SMTT(60), <1>1, <2>1, <2>5, <2>8 DEF Keeps
  <2> QED
    BY <1>1, <2>1, <2>3, <2>4, <2>5, <2>6, <2>9 DEF SavedInv
<1> QED
  BY <1>2, <1>3

LEMMA SavedStep ==
  ASSUME Seed = None
  PROVE  ReloadType /\ PartsInv /\ SavedInv /\ [ReloadNext]_reloadVars => SavedInv'
<1> SUFFICES ASSUME ReloadType, PartsInv, SavedInv, [ReloadNext]_reloadVars PROVE SavedInv'
  OBVIOUS
<1>1. ASSUME NEW e \in Editor, Edit(e) PROVE SavedInv'
  BY <1>1, EditBegins, BeginSaved
<1>2. CASE /\ overlap' = overlap
           /\ \/ \E e \in Editor : Update(e) \/ Write(e)
              \/ Write(Boot) \/ Start
  <2>1. CASE ~overlap
    BY <1>2, <2>1, UpdateSaved, WriteSaved, BootSaved, StartSaved
  <2> QED
    BY <1>2, <2>1 DEF SavedInv
<1>3. CASE Crash \/ StartFails
  <2>1. /\ up' \in {"down", "failed"} /\ \A e \in Editor : req'[e].at = "idle"
        /\ overlap' = overlap /\ file' = file /\ about' = about /\ conf' = conf /\ saved' = saved /\ edits' = edits
    BY SMTT(60), <1>3 DEF Crash, StartFails, Idle, ReloadType
  <2>2. ~overlap /\ file' # None => Keeps(file)'
    BY <2>1 DEF Keeps, SavedInv
  <2> QED
    BY <2>1, <2>2 DEF SavedInv
<1>4. CASE UNCHANGED reloadVars
  <2>1. /\ overlap' = overlap /\ up' = up /\ file' = file /\ req' = req /\ edits' = edits /\ saved' = saved
        /\ about' = about /\ conf' = conf /\ part' = part
    BY <1>4 DEF reloadVars
  <2>2. CurrentConfig' = CurrentConfig /\ (Keeps(CurrentConfig)' <=> Keeps(CurrentConfig)) /\ (Keeps(file)' <=> Keeps(file))
    BY <2>1 DEF CurrentConfig, Keeps
  <2> QED
    BY <2>1, <2>2 DEF SavedInv
<1>5. ASSUME NEW e \in Editor, Update(e) PROVE overlap' = overlap
  BY <1>5 DEF Update, Prepare, PutCfg, Replace, CloseOld, ReloadRoutes, ReloadFilter, ReloadTenants,
     SetCDRSink, TakeWriter, PutWriter, CloseWriter, ReadBack, Put
<1>6. Start \/ (\E e \in Editor \cup {Boot} : Write(e)) => overlap' = overlap
  BY DEF Start, Write, WriteTemp, StatFile, MoveFile, Rename
<1> QED
  BY <1>1, <1>2, <1>3, <1>4, <1>5, <1>6 DEF ReloadNext

\* As long as requests come one after the other, an edit that was reported as
\* saved is in the configuration in use until a later one changes it, also
\* after refused and failed requests, crashes and starts (applyConfig,
\* AtomicWriteFile, LoadStartup).  With a seed a crash between the two renames of
\* the file makes the next start take the seed, hence the hypothesis.
THEOREM SavedIsKeptHolds == Seed = None => (ReloadSpec => []SavedIsKept)
<1> SUFFICES ASSUME Seed = None PROVE ReloadSpec => []SavedIsKept
  OBVIOUS
<1>1. ReloadInit => ReloadType /\ PartsInv /\ SavedInv
  BY ReloadTypeStart, PartsStart, SavedStart
<1>2. ReloadType /\ PartsInv /\ SavedInv /\ [ReloadNext]_reloadVars => ReloadType' /\ PartsInv' /\ SavedInv'
  BY ReloadTypeStep, PartsStep, SavedStep
<1>3. SavedInv => SavedIsKept
  BY DEF SavedInv, SavedIsKept, Keeps, Quiet
<1> QED
  BY <1>1, <1>2, <1>3, PTL DEF ReloadSpec
=============================================================================
