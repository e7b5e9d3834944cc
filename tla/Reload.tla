------------------------------- MODULE Reload -------------------------------
(***************************************************************************)
(* Changing the configuration of a running gateway: the handlers of the    *)
(* console and of /v1/config (admin/server.go, Gateway.configAPI), the     *)
(* hot reload they call (Gateway.UpdateConfig, Registry.Replace), the      *)
(* write back to the file (config.AtomicWriteFile) and the start that      *)
(* reads the file again (config.LoadStartup, main).                        *)
(*                                                                         *)
(* No lock is held across a request, so each step of UpdateConfig is an    *)
(* action.  An edit has a number; the parts of the runtime that a reload   *)
(* replaces are named by the number of the edit that made them, 0 for the  *)
(* parts made at start.                                                    *)
(***************************************************************************)
EXTENDS Integers

CONSTANTS
  Editor,       \* requests served at the same time
  Name,         \* names of routes
  Val,          \* contents of a route; Bad is a content that Validate refuses
  Bad,
  Provider,     \* names of providers
  RawConfig,    \* configurations sent whole
  First,        \* content of the file when the process is first started
  Seed,         \* content of MYSMPP_CONFIG_SEED, or None
  Boot,         \* the start, which writes the file as an editor does
  MaxEdits,     \* bound: requests
  MaxFaults,    \* bound: failures of the file system
  MaxCrashes,   \* bound: crashes
  None

Config == [routes : [Name -> Val \cup {Bad, None}], providers : SUBSET Provider,
           cdr : BOOLEAN, auto : BOOLEAN]

ASSUME ReloadAssumption ==
  /\ RawConfig \subseteq Config /\ First \in Config /\ Seed \in Config \cup {None}
  /\ None \notin Config /\ Boot \notin Editor
  /\ MaxEdits \in Nat

VARIABLES
  up,       \* "down", "starting", "up" or "failed" (the process has exited with an error)
  conf,     \* the configuration of each edit
  part,     \* Gateway.cfg and cdrWriter, Registry.providers, Dispatcher.router,
            \* filterEngine, tenantResolver and cdrSink: the edit that made each
  open,     \* providers that are not closed: <<edit, name>>
  writers,  \* CDR writers that are not closed
  file,     \* content of the configuration file, or None
  bak,      \* content of its .bak, or None
  req,      \* where each editor, and the start, is
  about,    \* history: the routes each edit is about
  saved,    \* history: edits reported as saved
  overlap,  \* history: a request came while another one was being served
  edits, faults, crashes

reloadVars == <<up, conf, part, open, writers, file, bak, req, about, saved, overlap, edits, faults, crashes>>

Idle == [at |-> "idle", id |-> 0, old |-> None, data |-> None]

Parts == {"cfg", "registry", "routes", "filter", "tenants", "sink", "writer"}

\* BuildProviders: one per enabled provider; a mock where there is none.
BuildProviders(c, id) ==
  {id} \X (IF c.providers = {} THEN {"mock"} ELSE c.providers)

NewWriter(c, id) == IF c.cdr THEN {id} ELSE {}

\* A running process refuses the placeholders that a start replaces.
Valid(c) == ~c.auto /\ \A n \in Name : c.routes[n] # Bad

CurrentConfig == conf[part.cfg]

ReloadInit ==
  /\ up = "down"
  /\ conf = [i \in 0..MaxEdits |-> First]
  /\ part = [p \in Parts |-> 0]
  /\ open = {} /\ writers = {}
  /\ file = First /\ bak = None
  /\ req = [e \in Editor \cup {Boot} |-> Idle]
  /\ about = [i \in 0..MaxEdits |-> {}]
  /\ saved = {} /\ overlap = FALSE
  /\ edits = 0 /\ faults = 0 /\ crashes = 0

-----------------------------------------------------------------------------
(* A request: the change is made to a copy of the configuration in use.     *)

Begin(e, c, names) ==
  /\ up = "up" /\ req[e].at = "idle" /\ edits < MaxEdits
  /\ edits' = edits + 1
  /\ conf' = [conf EXCEPT ![edits'] = c]
  /\ about' = [about EXCEPT ![edits'] = names]
  /\ req' = [req EXCEPT ![e] = [Idle EXCEPT !.at = "prepare", !.id = edits']]
  /\ overlap' = (overlap \/ \E f \in Editor : req[f].at # "idle")
  /\ UNCHANGED <<up, part, open, writers, file, bak, saved, faults, crashes>>

RouteCreate(e) ==
  \E n \in Name, v \in Val \cup {Bad} :
    /\ CurrentConfig.routes[n] = None
    /\ Begin(e, [CurrentConfig EXCEPT !.routes[n] = v], {n})

RouteUpdate(e) ==
  \E n \in Name, v \in Val \cup {Bad} :
    /\ CurrentConfig.routes[n] # None
    /\ Begin(e, [CurrentConfig EXCEPT !.routes[n] = v], {n})

RouteDelete(e) ==
  \E n \in Name :
    /\ CurrentConfig.routes[n] # None
    /\ Begin(e, [CurrentConfig EXCEPT !.routes[n] = None], {n})

\* Mutant: the console keeps a copy of the configuration of the start.
SectionSaveStale(e) ==
  \E ps \in SUBSET Provider : Begin(e, [conf[0] EXCEPT !.providers = ps], {})

\* The section of the providers stands for all that applySectionJSON knows.
SectionSave(e) ==
  \E ps \in SUBSET Provider : Begin(e, [CurrentConfig EXCEPT !.providers = ps], {})

RawSave(e) == \E c \in RawConfig : Begin(e, c, Name)

-----------------------------------------------------------------------------
(* UpdateConfig *)

At(e, here) == up = "up" /\ req[e].at = here

GoTo(e, there) == req' = [req EXCEPT ![e].at = there]

\* Mutant: the configuration is in use before it is validated.
PrepareLate(e) ==
  LET i == req[e].id IN
  /\ At(e, "prepare")
  /\ part' = [part EXCEPT !.cfg = i]
  /\ \/ /\ ~Valid(conf[i])
        /\ req' = [req EXCEPT ![e] = Idle] /\ UNCHANGED <<open, writers>>
     \/ /\ Valid(conf[i])
        /\ open' = open \cup BuildProviders(conf[i], i)
        /\ writers' = writers \cup NewWriter(conf[i], i)
        /\ GoTo(e, "cfg")
  /\ UNCHANGED <<up, conf, file, bak, about, saved, overlap, edits, faults, crashes>>

\* Normalize, Validate, Compile, NewWriter and BuildProviders touch nothing
\* of the runtime; the directory of the CDR files may not be there.
Prepare(e) ==
  LET i == req[e].id IN
  /\ At(e, "prepare")
  /\ \/ /\ ~Valid(conf[i])
        /\ req' = [req EXCEPT ![e] = Idle] /\ UNCHANGED <<open, writers, faults>>
     \/ /\ Valid(conf[i]) /\ conf[i].cdr /\ faults < MaxFaults
        /\ req' = [req EXCEPT ![e] = Idle] /\ faults' = faults + 1 /\ UNCHANGED <<open, writers>>
     \/ /\ Valid(conf[i])
        /\ open' = open \cup BuildProviders(conf[i], i)
        /\ writers' = writers \cup NewWriter(conf[i], i)
        /\ GoTo(e, "cfg") /\ UNCHANGED faults
  /\ UNCHANGED <<up, conf, part, file, bak, about, saved, overlap, edits, crashes>>

\* One pointer is replaced.
Put(e, here, p, there) ==
  /\ At(e, here)
  /\ part' = [part EXCEPT ![p] = req[e].id]
  /\ GoTo(e, there)
  /\ UNCHANGED <<up, conf, open, writers, file, bak, about, saved, overlap, edits, faults, crashes>>

PutCfg(e) == Put(e, "cfg", "cfg", "registry")

\* Registry.Replace swaps the map under its lock ...
Replace(e) ==
  /\ At(e, "registry")
  /\ part' = [part EXCEPT !.registry = req[e].id]
  /\ req' = [req EXCEPT ![e].at = "close", ![e].old = part.registry]
  /\ UNCHANGED <<up, conf, open, writers, file, bak, about, saved, overlap, edits, faults, crashes>>

\* Mutant: a provider of which the name is still in use is kept open.
CloseGone(e) ==
  /\ At(e, "close")
  /\ open' = {p \in open : p[1] # req[e].old \/ <<req[e].id, p[2]>> \in open}
  /\ GoTo(e, "routes")
  /\ UNCHANGED <<up, conf, part, writers, file, bak, about, saved, overlap, edits, faults, crashes>>

\* ... and closes the providers of the old map after it.
CloseOld(e) ==
  /\ At(e, "close")
  /\ open' = {p \in open : p[1] # req[e].old}
  /\ GoTo(e, "routes")
  /\ UNCHANGED <<up, conf, part, writers, file, bak, about, saved, overlap, edits, faults, crashes>>

ReloadRoutes(e)  == Put(e, "routes", "routes", "filter")
ReloadFilter(e)  == Put(e, "filter", "filter", "tenants")
ReloadTenants(e) == Put(e, "tenants", "tenants", "sink")
SetCDRSink(e)    == Put(e, "sink", "sink", "take")

TakeWriter(e) ==
  /\ At(e, "take")
  /\ req' = [req EXCEPT ![e].at = "writer", ![e].old = part.writer]
  /\ UNCHANGED <<up, conf, part, open, writers, file, bak, about, saved, overlap, edits, faults, crashes>>

PutWriter(e) == Put(e, "writer", "writer", "closew")

CloseWriter(e) ==
  /\ At(e, "closew")
  /\ writers' = writers \ {req[e].old}
  /\ GoTo(e, "read")
  /\ UNCHANGED <<up, conf, part, open, file, bak, about, saved, overlap, edits, faults, crashes>>

-----------------------------------------------------------------------------
(* applyConfig and configAPI write back the configuration then in use.       *)

ReadBack(e) ==
  /\ At(e, "read")
  /\ req' = [req EXCEPT ![e].at = "temp", ![e].data = CurrentConfig]
  /\ UNCHANGED <<up, conf, part, open, writers, file, bak, about, saved, overlap, edits, faults, crashes>>

Writing(e, here) == req[e].at = here /\ up = (IF e = Boot THEN "starting" ELSE "up")

\* The request, or the start, ends: ok tells how.
End(e, ok) ==
  /\ req' = [req EXCEPT ![e] = Idle]
  /\ saved' = IF ok /\ e # Boot THEN saved \cup {req[e].id} ELSE saved
  /\ up' = IF e # Boot THEN up ELSE IF ok THEN "up" ELSE "failed"

\* AtomicWriteFile: the content is written and synced under another name;
WriteTemp(e) ==
  /\ Writing(e, "temp")
  /\ \/ faults < MaxFaults /\ faults' = faults + 1 /\ End(e, FALSE)
     \/ GoTo(e, "bak") /\ UNCHANGED <<up, saved, faults>>
  /\ UNCHANGED <<conf, part, open, writers, file, bak, about, overlap, edits, crashes>>

\* the file, where there is one, becomes the .bak (another editor may have
\* taken it since os.Stat: then the rename fails and nothing is written);
StatFile(e) ==
  /\ Writing(e, "bak")
  /\ GoTo(e, IF file = None THEN "rename" ELSE "moving")
  /\ bak' = IF file = None THEN bak ELSE None
  /\ UNCHANGED <<up, conf, part, open, writers, file, about, saved, overlap, edits, faults, crashes>>

MoveFile(e) ==
  /\ Writing(e, "moving")
  /\ \/ /\ file = None
        /\ End(e, FALSE) /\ UNCHANGED <<file, bak>>
     \/ /\ file # None
        /\ bak' = file /\ file' = None
        /\ GoTo(e, "rename") /\ UNCHANGED <<up, saved>>
  /\ UNCHANGED <<conf, part, open, writers, about, overlap, edits, faults, crashes>>

\* and the new content takes the name.
Rename(e) ==
  /\ Writing(e, "rename")
  /\ \/ file' = req[e].data /\ End(e, TRUE) /\ UNCHANGED faults
     \/ faults < MaxFaults /\ faults' = faults + 1 /\ End(e, FALSE) /\ UNCHANGED file
  /\ UNCHANGED <<conf, part, open, writers, bak, about, overlap, edits, crashes>>

-----------------------------------------------------------------------------
(* Crash and start *)

Crash ==
  /\ up \in {"starting", "up"} /\ crashes < MaxCrashes
  /\ crashes' = crashes + 1
  /\ up' = "down" /\ open' = {} /\ writers' = {}
  /\ req' = [e \in Editor \cup {Boot} |-> Idle]
  /\ UNCHANGED <<conf, part, file, bak, about, saved, overlap, edits, faults>>

\* generateStartupSecrets replaces the placeholders of the file.
WithSecrets(c) == [c EXCEPT !.auto = FALSE]

\* LoadStartup and main.  Without a file and without a seed the process exits;
\* with placeholders in the file it writes the file before it serves.
Start ==
  LET found == IF file # None THEN file ELSE Seed
      c     == WithSecrets(found)
  IN
  /\ up = "down"
  /\ file' = found
  /\ IF found = None THEN up' = "failed" /\ UNCHANGED <<conf, part, open, writers, req>> ELSE
     /\ conf' = [conf EXCEPT ![0] = c]
     /\ part' = [p \in Parts |-> 0]
     /\ open' = BuildProviders(c, 0) /\ writers' = NewWriter(c, 0)
     /\ up' = IF found.auto THEN "starting" ELSE "up"
     /\ req' = IF found.auto THEN [req EXCEPT ![Boot] = [Idle EXCEPT !.at = "temp", !.data = c]] ELSE req
  /\ UNCHANGED <<bak, about, saved, overlap, edits, faults, crashes>>

\* The file cannot be read, or the store or the CDR writer not made.
StartFails ==
  /\ up = "down" /\ faults < MaxFaults
  /\ up' = "failed" /\ faults' = faults + 1
  /\ UNCHANGED <<conf, part, open, writers, file, bak, req, about, saved, overlap, edits, crashes>>

-----------------------------------------------------------------------------

Edit(e) == RouteCreate(e) \/ RouteUpdate(e) \/ RouteDelete(e) \/ SectionSave(e) \/ RawSave(e)

Update(e) ==
  \/ Prepare(e) \/ PutCfg(e) \/ Replace(e) \/ CloseOld(e)
  \/ ReloadRoutes(e) \/ ReloadFilter(e) \/ ReloadTenants(e) \/ SetCDRSink(e)
  \/ TakeWriter(e) \/ PutWriter(e) \/ CloseWriter(e) \/ ReadBack(e)

Write(e) == WriteTemp(e) \/ StatFile(e) \/ MoveFile(e) \/ Rename(e)

ReloadNext ==
  \/ \E e \in Editor : Edit(e) \/ Update(e)
  \/ \E e \in Editor \cup {Boot} : Write(e)
  \/ Crash \/ Start \/ StartFails

ReloadSpec == ReloadInit /\ [][ReloadNext]_reloadVars

-----------------------------------------------------------------------------

\* No request is being served.
Quiet == up = "up" /\ \A e \in Editor : req[e].at = "idle"

\* As long as requests come one after the other, between them every part that
\* UpdateConfig replaces is made from the configuration in use, also after a
\* request that was refused or failed half way, and the CDR writer that the
\* dispatcher emits to is open and no other one is (Gateway.UpdateConfig).
PartsAgree ==
  Quiet /\ ~overlap =>
    /\ \A p \in Parts : part[p] = part.cfg
    /\ writers = NewWriter(conf[part.sink], part.sink)

\* Between requests the open providers are those of the registry, each of
\* them open: none is leaked and none in use is closed, whatever the order in
\* which concurrent requests swap the map and close what it held
\* (Registry.Replace).
ProvidersExact == Quiet => open = BuildProviders(conf[part.registry], part.registry)

\* As long as requests come one after the other, the last edit about a route is
\* in the configuration in use once it is reported as saved, also after a crash
\* and a start; and when that was the last edit of all, the file holds the
\* configuration in use (routeCreate, routeUpdate, routeDelete, rawSave,
\* applyConfig).
SavedIsKept ==
  Quiet /\ ~overlap =>
    /\ \A i \in saved : \A n \in about[i] :
         (\A j \in (i + 1)..edits : n \notin about[j]) => CurrentConfig.routes[n] = conf[i].routes[n]
    /\ edits \in saved => file = CurrentConfig

\* Wherever a process stops, it leaves a configuration file: the old content
\* or the new one (AtomicWriteFile; without it LoadStartup takes the seed or
\* gives up).  The code does not keep this: a crash between its two renames leaves
\* only the .bak.
FileSurvives == up = "down" => file # None
=============================================================================
