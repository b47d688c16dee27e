----------------------------- MODULE ProviderKey -----------------------------
(***************************************************************************)
(* The DeepSeek credential: its encrypted row (secrets.service.ts), the    *)
(* deployment that imports it from .env and the supervisors that start     *)
(* LiteLLM with it (ops/provider-secret.ts), and the console that replaces *)
(* it and reports whether it is active (provider-credentials.service.ts).  *)
(*                                                                         *)
(* A supervisor is a process with its own runtimeId; during a restart two  *)
(* of them overlap.  Encryption is left out: what is stored is the key.    *)
(***************************************************************************)
EXTENDS Naturals, Null

CONSTANTS
  Keys,          \* provider API keys
  EnvKeys,       \* what UPSTREAM_API_KEY may hold before the first deployment: keys, None
  Runtimes,      \* supervisor processes
  Writers,       \* console requests that store a key
  MaxVersion     \* bound on revisions of the stored key

\* A Secret row as far as it is told apart: the key and its revision.
StoredKey == [key : Keys, version : 1 .. MaxVersion]

ASSUME ProviderAssumption ==
  /\ MaxVersion \in Nat \ {0}
  /\ None \notin Keys \cup Runtimes \cup StoredKey
  /\ EnvKeys \subseteq Keys \cup {None}

Bootstrap == "bootstrap"
Puts == Writers \cup {Bootstrap}

VARIABLES
  secret,        \* the row: key and version, or None
  keyAt,         \* history: version -> the key it stood for
  envKey,        \* UPSTREAM_API_KEY in .env, from which the import takes it, or None
  boot,          \* the import: its position
  put,           \* caller -> a putWithSystemAudit under way
  run,           \* supervisor -> position, loaded key and version
  child,         \* supervisors whose LiteLLM runs
  activation,    \* ProviderActivation: runtimeId and secretVersion, or None
  last,          \* history: the supervisor that recorded itself last
  probe         \* deepSeekStatus under way: what it has read

storeVars == <<secret, keyAt, put>>
deployVars == <<envKey, boot>>
runVars == <<run, child, activation, last>>
providerVars == <<storeVars, deployVars, runVars, probe>>

NoPut == [at |-> "idle", key |-> None, found |-> FALSE]
NoProbe == [at |-> "idle", version |-> None, row |-> None]

ProviderInit ==
  /\ secret = None /\ keyAt = <<>> /\ put = [c \in Puts |-> NoPut]
  /\ envKey \in EnvKeys
  /\ boot = "idle"
  /\ run = [r \in Runtimes |-> [at |-> "idle", key |-> None, version |-> 0]]
  /\ child = {} /\ activation = None /\ last = None
  /\ probe = NoProbe
-----------------------------------------------------------------------------
(***************************************************************************)
(* putWithSystemAudit: a READ COMMITTED transaction that finds the row,    *)
(* then creates it, or updates it by id with version + 1.                  *)
(***************************************************************************)

PutFinds(c, k) ==
  /\ put[c].at = "idle" /\ put' = [put EXCEPT ![c] = [at |-> "found", key |-> k, found |-> secret # None]]
  /\ UNCHANGED <<secret, keyAt>>

Rotated(k) == [key |-> k, version |-> secret.version + 1]

PutWrites(c) ==
  /\ put[c].at = "found"
  /\ \/ put[c].found /\ secret.version < MaxVersion /\ secret' = Rotated(put[c].key)
     \/ ~put[c].found /\ secret = None /\ secret' = [key |-> put[c].key, version |-> 1]
  /\ keyAt' = [v \in DOMAIN keyAt \cup {secret'.version} |-> IF v = secret'.version THEN put[c].key ELSE keyAt[v]]
  /\ put' = [put EXCEPT ![c] = NoPut]

\* The partial unique index refuses a second row, or the transaction fails.
PutFails(c) ==
  /\ put[c].at = "found" /\ put' = [put EXCEPT ![c] = NoPut]
  /\ UNCHANGED <<secret, keyAt>>

putDeepSeek(w, k) == PutFinds(w, k) /\ UNCHANGED <<deployVars, runVars, probe>>
DeepSeekStored(w) == (PutWrites(w) \/ PutFails(w)) /\ UNCHANGED <<deployVars, runVars, probe>>
-----------------------------------------------------------------------------
(***************************************************************************)
(* bootstrapDeepSeekEnv and scrubBootstrapKeyFromEnvFile                   *)
(***************************************************************************)

BootGoto(from, to) == boot = from /\ boot' = to

\* No key at all, or a key that differs from the stored one, is refused.
BootCompares ==
  /\ BootGoto("idle", IF secret = None THEN IF envKey = None THEN "done" ELSE "import"
                      ELSE IF envKey = secret.key THEN "scrub" ELSE "done")
  /\ UNCHANGED <<storeVars, envKey, runVars, probe>>

BootImports ==
  /\ \/ boot = "import" /\ PutFinds(Bootstrap, envKey) /\ UNCHANGED boot
     \/ PutWrites(Bootstrap) /\ BootGoto("import", "scrub")
     \/ PutFails(Bootstrap) /\ BootGoto("import", "done")
  /\ UNCHANGED <<envKey, runVars, probe>>

\* The line is emptied by an atomic replacement, unless the file is not private or was changed.
Scrubs ==
  /\ BootGoto("scrub", "done") /\ envKey' \in {envKey, None}
  /\ UNCHANGED <<storeVars, runVars, probe>>
-----------------------------------------------------------------------------
(***************************************************************************)
(* runDeepSeek                                                             *)
(***************************************************************************)

RunAt(r, pc) == run[r].at = pc
RunGoto(r, pc) == run' = [run EXCEPT ![r].at = pc]

\* getVersioned: the key and its version from one row.
LoadsKey(r) ==
  /\ RunAt(r, "idle") /\ secret # None
  /\ run' = [run EXCEPT ![r] = [at |-> "loaded", key |-> secret.key, version |-> secret.version]]
  /\ UNCHANGED <<child, activation, last, storeVars, deployVars, probe>>

Spawns(r) ==
  /\ RunAt(r, "loaded") /\ RunGoto(r, "spawned") /\ child' = child \cup {r}
  /\ UNCHANGED <<activation, last, storeVars, deployVars, probe>>

Activates(r) ==
  /\ RunAt(r, "spawned") /\ RunGoto(r, "waiting")
  /\ activation' = [runtime |-> r, version |-> run[r].version] /\ last' = r
  /\ UNCHANGED <<child, storeVars, deployVars, probe>>

\* The child is not started, or the activation cannot be recorded and the child is stopped.
StartFails(r) ==
  /\ RunAt(r, "loaded") \/ RunAt(r, "spawned")
  /\ RunGoto(r, "ended") /\ child' = child \ {r}
  /\ UNCHANGED <<activation, last, storeVars, deployVars, probe>>

ChildExits(r) ==
  /\ r \in child /\ child' = child \ {r}
  /\ UNCHANGED <<run, activation, last, storeVars, deployVars, probe>>

\* Mutant of Deactivated: the row is deleted by its provider alone.
DeactivatedByProvider(r) == None

\* deleteMany: the row only if it is still this supervisor's.
Deactivated(r) == IF activation # None /\ activation.runtime = r THEN None ELSE activation

Deactivates(r) ==
  /\ RunAt(r, "waiting") /\ r \notin child /\ RunGoto(r, "ended")
  /\ activation' = Deactivated(r)
  /\ UNCHANGED <<child, last, storeVars, deployVars, probe>>

\* The supervisor is killed, or cannot delete its row; its child may live on.
SupervisorDies(r) ==
  /\ run[r].at \in {"loaded", "spawned", "waiting"} /\ RunGoto(r, "ended")
  /\ UNCHANGED <<child, activation, last, storeVars, deployVars, probe>>
-----------------------------------------------------------------------------
(***************************************************************************)
(* deepSeekStatus: the version and the activation row are read side by     *)
(* side; the gateway is asked after both.                                  *)
(***************************************************************************)

StatusDescribes ==
  /\ probe.at \in {"idle", "describe"}
  /\ probe' = [probe EXCEPT !.at = IF @ = "idle" THEN "activation" ELSE "answer",
                              !.version = IF secret = None THEN None ELSE secret.version]
  /\ UNCHANGED <<storeVars, deployVars, runVars>>

StatusReadsActivation ==
  /\ probe.at \in {"idle", "activation"}
  /\ probe' = [probe EXCEPT !.at = IF @ = "idle" THEN "describe" ELSE "answer", !.row = activation]
  /\ UNCHANGED <<storeVars, deployVars, runVars>>

Matches == probe.version # None /\ probe.row # None /\ probe.row.version = probe.version

\* It is "active" when the two match and the gateway is healthy.
StatusAnswers ==
  /\ probe.at = "answer" /\ probe' = NoProbe
  /\ UNCHANGED <<storeVars, deployVars, runVars>>

ProviderNext ==
  \/ \E w \in Writers : DeepSeekStored(w) \/ \E k \in Keys : putDeepSeek(w, k)
  \/ BootCompares \/ BootImports \/ Scrubs
  \/ \E r \in Runtimes : LoadsKey(r) \/ Spawns(r) \/ Activates(r) \/ StartFails(r) \/ ChildExits(r)
                         \/ Deactivates(r) \/ SupervisorDies(r)
  \/ StatusDescribes \/ StatusReadsActivation \/ StatusAnswers

ProviderSpec == ProviderInit /\ [][ProviderNext]_providerVars
-----------------------------------------------------------------------------
Activation == [runtime : Runtimes, version : 1 .. MaxVersion]

ProviderTypeOK ==
  /\ secret \in StoredKey \cup {None} /\ envKey \in Keys \cup {None}
  /\ boot \in {"idle", "import", "scrub", "done"}
  /\ put \in [Puts -> [at : {"idle", "found"}, key : Keys \cup {None}, found : BOOLEAN]]
  /\ run \in [Runtimes -> [at : {"idle", "loaded", "spawned", "waiting", "ended"},
                           key : Keys \cup {None}, version : 0 .. MaxVersion]]
  /\ child \subseteq Runtimes /\ last \in Runtimes \cup {None}
  /\ activation \in Activation \cup {None}
  /\ probe \in [at : {"idle", "describe", "activation", "answer"},
                version : 1 .. MaxVersion \cup {None}, row : Activation \cup {None}]

\* The revisions of the stored key are counted without gaps, and none stands for two keys.
KeyHistory ==
  /\ secret = None => DOMAIN keyAt = {}
  /\ secret # None => DOMAIN keyAt = 1 .. secret.version /\ keyAt[secret.version] = secret.key
  /\ boot = "import" => envKey # None
  /\ \A c \in Puts : put[c].at = "found" => put[c].key # None /\ (put[c].found => secret # None)

\* A row of ProviderActivation, wherever it was read, is what its supervisor loaded.
Recorded(row) == run[row.runtime].at # "idle" /\ row.version = run[row.runtime].version

RuntimesKnowTheirKey ==
  /\ \A r \in Runtimes : run[r].at # "idle" =>
       run[r].version \in DOMAIN keyAt /\ keyAt[run[r].version] = run[r].key
  /\ activation # None => Recorded(activation)
  /\ probe.row # None => Recorded(probe.row)

(***************************************************************************)
(* Restarts, rotations, crashes and status requests may overlap: the       *)
(* supervisor that recorded itself last stays on record while it waits for *)
(* its child (runDeepSeek, 275-277), and a version that is reported as     *)
(* active is the one whose key that runtime was started with               *)
(* (deepSeekStatus, 68-75; getVersioned, "from one row snapshot").         *)
(***************************************************************************)
ActivationIsTruthful ==
  /\ last # None /\ RunAt(last, "waiting") => activation = [runtime |-> last, version |-> run[last].version]
  /\ probe.at = "answer" /\ Matches => run[probe.row.runtime].key = keyAt[probe.version]

\* The inductive invariant.
ProviderInv == ProviderTypeOK /\ KeyHistory /\ RuntimesKnowTheirKey /\ ActivationIsTruthful
=============================================================================
