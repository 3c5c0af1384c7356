--------------------------- MODULE TokenValidator ---------------------------
(***************************************************************************)
(* Tokens: the database file (internal/auth/store.go), the daemon's two    *)
(* validators with their caches (validator.go, remote_validator.go) and    *)
(* the token commands (cmd/binboid/main.go), each a process of its own.    *)
(*                                                                         *)
(* Store.mu orders the operations of one process.  Between processes there *)
(* is no lock: every operation loads the whole file and the ones that      *)
(* change it write the whole file back, atomically, by a rename.           *)
(*                                                                         *)
(* Times are only ever compared, so what is kept is the age of a moment;   *)
(* ages grow with Tick up to a cap above which nothing tells them apart.   *)
(* A cache entry has one age, that of lastPersistedUsage: expiresAt always *)
(* is cacheTTL later.  A raw token, its hash, its prefix and its id are    *)
(* one: the id.  LastUsedAt is left out, the writes that set it are not.   *)
(***************************************************************************)
EXTENDS Naturals

CONSTANTS
  Tokens,          \* token ids
  Validations,     \* goroutines of the daemon inside Validate
  Commands,        \* token commands
  Daemon,          \* the daemon, as a process that opens the store
  None,            \* nil, no file, nobody
  CacheTTL,        \* cacheTTL, in ticks
  TouchIntervals,  \* the values touchEvery may be configured to
  MaxDelay,        \* bound on the duration of one Validate, in ticks
  MaxRestarts      \* bound on restarts of the daemon

ASSUME TokenAssumption ==
  /\ {CacheTTL, MaxDelay, MaxRestarts} \subseteq Nat
  /\ TouchIntervals \subseteq Nat
  /\ None \notin Validations /\ Daemon \notin Commands
  /\ (Commands \cup {Daemon}) \cap Validations = {}

VARIABLES
  file,      \* Database or None: the token database
  frontend,  \* Database: the tokens of the frontend that answers a remote validator
  mu,        \* Validations or None: who holds the daemon's Store.mu
  loaded,    \* [Users of the file -> Database or None]: what loadLocked returned
  issued,    \* ids drawn so far
  opc,       \* [Openers -> string]: where a process is
  job,       \* [Commands -> Tokens or None]: the token a command is about
  vpc,       \* [Validations -> string]: where a validation is
  token,     \* [Validations -> Tokens or None]: the token it validates
  since,     \* [Validations -> age]: of the call
  now,       \* [Validations -> age]: of the time.Now() it read
  cache,     \* [Tokens -> age or None]: Validator.cache
  touchEvery, remote,   \* configuration: touchEvery, and which validator is used
  restarts,
  dead,      \* [Tokens -> age]: since when the validator's source has not called it active
  accepted,  \* [Tokens -> age]: of the last acceptance
  behind     \* [Users of the file -> SUBSET Tokens]: changed since it was loaded

Openers == Commands \cup {Daemon}
Procs == Openers \cup Validations

store == <<file, frontend, loaded, behind, dead>>
daemon == <<mu, vpc, token, since, now, cache, accepted>>
config == <<touchEvery, remote>>
Stays == <<config, issued, opc, job, restarts>>
tvars == <<store, daemon, config, issued, opc, job, restarts>>

Database == [Tokens -> {"absent", "active", "revoked"}]
EmptyDatabase == [t \in Tokens |-> "absent"]

ASSUME NoFileAssumption == None \notin Database

\* what a file that may not exist says
Content(f) == IF f = None THEN EmptyDatabase ELSE f

\* who knows the tokens the daemon validates
Source == IF remote THEN frontend ELSE Content(file)

\* the staleness the cache is meant to allow, and the cap of all ages
Tolerance == CacheTTL + 2 * MaxDelay
MaxAge == Tolerance + 1

Ages == 0..MaxAge
Older(age) == IF age < MaxAge THEN age + 1 ELSE age

TokenInit ==
  /\ file = None
  /\ frontend = EmptyDatabase
  /\ mu = None
  /\ loaded = [p \in Procs |-> None]
  /\ issued = {}
  /\ opc = [o \in Openers |-> "start"]
  /\ job = [c \in Commands |-> None]
  /\ vpc = [v \in Validations |-> "idle"]
  /\ token = [v \in Validations |-> None]
  /\ since = [v \in Validations |-> 0]
  /\ now = [v \in Validations |-> 0]
  /\ cache = [t \in Tokens |-> None]
  /\ touchEvery \in TouchIntervals
  /\ remote \in BOOLEAN
  /\ restarts = 0
  /\ dead = [t \in Tokens |-> MaxAge]
  /\ accepted = [t \in Tokens |-> MaxAge]
  /\ behind = [p \in Procs |-> {}]

-----------------------------------------------------------------------------
(* The file.                                                               *)

\* loadLocked by p
Load(p) ==
  /\ loaded' = [loaded EXCEPT ![p] = Content(file)]
  /\ behind' = [behind EXCEPT ![p] = {}]
  /\ UNCHANGED <<file, frontend, dead>>

\* tokens the source stops calling active when it says db
Dying(db) == dead' = [t \in Tokens |-> IF Source[t] = "active" /\ db[t] # "active" THEN 0 ELSE dead[t]]

\* saveLocked by p: the whole database, whatever others have written meanwhile
Save(p, db) ==
  /\ file' = db
  /\ IF remote THEN UNCHANGED dead ELSE Dying(db)
  /\ loaded' = [loaded EXCEPT ![p] = None]
  /\ behind' = [q \in Procs |->
                  behind[q] \cup {t \in Tokens : Content(file)[t] # db[t]}]
  /\ UNCHANGED frontend

\* the operation fails, before it has changed anything
GiveUp(p) ==
  /\ loaded' = [loaded EXCEPT ![p] = None]
  /\ UNCHANGED <<file, frontend, dead, behind>>

-----------------------------------------------------------------------------
(* Processes that open the store: Ensure, then for a command its operation.*)

Step(o, l) == opc' = [opc EXCEPT ![o] = l]

\* main: where a process goes when the file exists
Opened(o) == IF o = Daemon THEN "up" ELSE "ready"

EnsureFound(o) ==
  /\ opc[o] = "start" /\ file # None
  /\ Step(o, Opened(o))
  /\ UNCHANGED <<store, daemon, config, issued, job, restarts>>

EnsureMissing(o) ==
  /\ opc[o] = "start" /\ file = None
  /\ Load(o)
  /\ Step(o, "ensure")
  /\ UNCHANGED <<daemon, config, issued, job, restarts>>

EnsureSave(o) ==
  /\ opc[o] = "ensure"
  /\ Save(o, EmptyDatabase)
  /\ Step(o, Opened(o))
  /\ UNCHANGED <<daemon, config, issued, job, restarts>>

\* CreateToken draws a new id
CreateLoad(c) ==
  /\ opc[c] = "ready"
  /\ Load(c)
  /\ \E t \in Tokens \ issued :
       /\ issued' = issued \cup {t}
       /\ job' = [job EXCEPT ![c] = t]
  /\ Step(c, "create")
  /\ UNCHANGED <<daemon, config, restarts>>

CreateSave(c) ==
  /\ opc[c] = "create"
  /\ Save(c, [loaded[c] EXCEPT ![job[c]] = "active"])
  /\ Step(c, "done")
  /\ UNCHANGED <<daemon, config, issued, job, restarts>>

\* RevokeToken of a token that is in the file it loads
RevokeLoad(c) ==
  /\ opc[c] = "ready"
  /\ Load(c)
  /\ \E t \in issued :
       /\ Content(file)[t] # "absent"
       /\ job' = [job EXCEPT ![c] = t]
  /\ Step(c, "revoke")
  /\ UNCHANGED <<daemon, config, issued, restarts>>

RevokeSave(c) ==
  /\ opc[c] = "revoke"
  /\ Save(c, [loaded[c] EXCEPT ![job[c]] = "revoked"])
  /\ Step(c, "done")
  /\ UNCHANGED <<daemon, config, issued, job, restarts>>

\* the file cannot be read or written, or there is no such token
CommandFails(c) ==
  /\ opc[c] \in {"start", "ensure", "ready", "create", "revoke"}
  /\ GiveUp(c)
  /\ Step(c, "done")
  /\ UNCHANGED <<daemon, config, issued, job, restarts>>

\* With the remote validator the tokens are the frontend's, which creates and
\* revokes them by itself.
FrontendChanges ==
  /\ remote
  /\ \E t \in Tokens, s \in {"active", "revoked"} :
       /\ frontend[t] = (IF s = "active" THEN "absent" ELSE "active")
       /\ frontend' = [frontend EXCEPT ![t] = s]
       /\ Dying([frontend EXCEPT ![t] = s])
  /\ UNCHANGED <<file, loaded, behind, daemon, Stays>>

-----------------------------------------------------------------------------
(* Validate.                                                               *)

Goto(v, l) == vpc' = [vpc EXCEPT ![v] = l]

Accept(v, t) ==
  /\ Goto(v, "accepted")
  /\ accepted' = [accepted EXCEPT ![t] = 0]

\* cached: an entry that has not expired
Fresh(t) == cache[t] # None /\ cache[t] <= CacheTTL

Hit_Expired(v, t) ==
  /\ vpc[v] = "idle" /\ opc[Daemon] = "up"
  /\ cache[t] # None
  /\ token' = [token EXCEPT ![v] = t]
  /\ since' = [since EXCEPT ![v] = 0]
  /\ IF remote THEN Accept(v, t) ELSE Goto(v, "touch") /\ UNCHANGED accepted
  /\ UNCHANGED <<store, mu, now, cache, Stays>>
Hit(v, t) ==
  /\ vpc[v] = "idle" /\ opc[Daemon] = "up"
  /\ Fresh(t)
  /\ token' = [token EXCEPT ![v] = t]
  /\ since' = [since EXCEPT ![v] = 0]
  /\ IF remote THEN Accept(v, t) ELSE Goto(v, "touch") /\ UNCHANGED accepted
  /\ UNCHANGED <<store, mu, now, cache, Stays>>

\* ... or none, and an expired one is deleted
Miss(v, t) ==
  /\ vpc[v] = "idle" /\ opc[Daemon] = "up"
  /\ ~Fresh(t)
  /\ cache' = [cache EXCEPT ![t] = None]
  /\ token' = [token EXCEPT ![v] = t]
  /\ since' = [since EXCEPT ![v] = 0]
  /\ Goto(v, "find")
  /\ UNCHANGED <<store, mu, now, accepted, Stays>>

\* touchIfNeeded: there is an entry, expired or not, touched touchEvery ago or earlier
Due(t) == cache[t] # None /\ cache[t] >= touchEvery

\* ... there is none
TouchNotNeeded(v) ==
  /\ vpc[v] = "touch"
  /\ ~Due(token[v])
  /\ Accept(v, token[v])
  /\ UNCHANGED <<store, mu, token, since, now, cache, Stays>>

\* ... or it is renewed, and its lifetime with it
Renew(v) ==
  /\ vpc[v] = "touch"
  /\ Due(token[v])
  /\ cache' = [cache EXCEPT ![token[v]] = 0]
  /\ Goto(v, "renewed")
  /\ UNCHANGED <<store, mu, token, since, now, accepted, Stays>>

\* FindByPrefix, under Store.mu, and the checks of the record; with the remote
\* validator the frontend's answer
Find(v) ==
  /\ vpc[v] = "find"
  /\ remote \/ mu = None
  /\ Goto(v, IF Source[token[v]] # "active" THEN "refused"
             ELSE IF remote THEN "fill" ELSE "found")
  /\ UNCHANGED <<store, mu, token, since, now, cache, accepted, Stays>>

\* now := time.Now()
ReadClock(v) ==
  /\ vpc[v] = "found"
  /\ now' = [now EXCEPT ![v] = 0]
  /\ Goto(v, "stamped")
  /\ UNCHANGED <<store, mu, token, since, cache, accepted, Stays>>

\* TouchLastUsed, from a new token or from a renewed entry: load the file ...
TouchLoad(v) ==
  /\ vpc[v] \in {"stamped", "renewed"} /\ mu = None
  /\ Content(file)[token[v]] # "absent"
  /\ mu' = v
  /\ Load(v)
  /\ Goto(v, IF vpc[v] = "stamped" THEN "save" ELSE "resave")
  /\ UNCHANGED <<token, since, now, cache, accepted, Stays>>

\* ... set LastUsedAt in the record of the token, and leave the others alone ...
Touched_WholeRecord(db, t) == [db EXCEPT ![t] = "active"]
Touched(db, t) == db

\* ... and write the file
TouchSave(v) ==
  /\ vpc[v] \in {"save", "resave"}
  /\ Save(v, Touched(loaded[v], token[v]))
  /\ mu' = None
  /\ IF vpc[v] = "save" THEN Goto(v, "fill") /\ UNCHANGED accepted
                        ELSE Accept(v, token[v])
  /\ UNCHANGED <<token, since, now, cache, Stays>>

TouchFails_KeepsLock(v) ==
  /\ vpc[v] \in {"stamped", "renewed", "save", "resave"}
  /\ GiveUp(v)
  /\ UNCHANGED mu
  /\ IF vpc[v] \in {"stamped", "save"} THEN Goto(v, "error") /\ UNCHANGED accepted
                                       ELSE Accept(v, token[v])
  /\ UNCHANGED <<token, since, now, cache, Stays>>

\* The touch fails: a new validation fails with it, a renewed entry stays renewed.
TouchFails(v) ==
  /\ vpc[v] \in {"stamped", "renewed", "save", "resave"}
  /\ GiveUp(v)
  /\ mu' = IF mu = v THEN None ELSE mu
  /\ IF vpc[v] \in {"stamped", "save"} THEN Goto(v, "error") /\ UNCHANGED accepted
                                       ELSE Accept(v, token[v])
  /\ UNCHANGED <<token, since, now, cache, Stays>>

\* the file cannot be read, or the frontend does not answer
FindFails(v) ==
  /\ vpc[v] = "find"
  /\ Goto(v, "error")
  /\ UNCHANGED <<store, mu, token, since, now, cache, accepted, Stays>>

\* v.cache[hash] = ...: from the time read above, or, with the remote validator,
\* from the time of the answer
Fill(v) ==
  /\ vpc[v] = "fill"
  /\ cache' = [cache EXCEPT ![token[v]] = IF remote THEN 0 ELSE now[v]]
  /\ Accept(v, token[v])
  /\ UNCHANGED <<store, mu, token, since, now, Stays>>

\* the caller has its principal or its error
Return(v) ==
  /\ vpc[v] \in {"accepted", "refused", "error"}
  /\ Goto(v, "idle")
  /\ token' = [token EXCEPT ![v] = None]
  /\ since' = [since EXCEPT ![v] = 0]
  /\ now' = [now EXCEPT ![v] = 0]
  /\ UNCHANGED <<store, mu, cache, accepted, Stays>>

Validate(v) ==
  \/ \E t \in Tokens : Hit(v, t) \/ Miss(v, t)
  \/ TouchNotNeeded(v) \/ Renew(v)
  \/ Find(v) \/ FindFails(v) \/ ReadClock(v)
  \/ TouchLoad(v) \/ TouchSave(v) \/ TouchFails(v)
  \/ Fill(v) \/ Return(v)

-----------------------------------------------------------------------------
(* The environment.                                                        *)

Busy(v) == vpc[v] \notin {"idle", "accepted", "refused", "error"}

\* time passes, but no call of Validate lasts longer than MaxDelay
Tick ==
  /\ \A v \in Validations : Busy(v) => since[v] < MaxDelay
  /\ since' = [v \in Validations |-> IF Busy(v) THEN since[v] + 1 ELSE since[v]]
  /\ now' = [v \in Validations |-> IF vpc[v] \in {"stamped", "save", "fill"} /\ ~remote
                                   THEN now[v] + 1 ELSE now[v]]
  /\ cache' = [t \in Tokens |-> IF cache[t] = None THEN None ELSE Older(cache[t])]
  /\ dead' = [t \in Tokens |-> IF Source[t] = "active" THEN dead[t] ELSE Older(dead[t])]
  /\ accepted' = [t \in Tokens |-> Older(accepted[t])]
  /\ UNCHANGED <<file, frontend, loaded, behind, mu, vpc, token, Stays>>

\* the daemon stops, between any two steps, and starts again
Restart ==
  /\ restarts < MaxRestarts /\ opc[Daemon] = "up"
  /\ restarts' = restarts + 1
  /\ opc' = [opc EXCEPT ![Daemon] = "start"]
  /\ mu' = None
  /\ loaded' = [p \in Procs |-> IF p \in Validations THEN None ELSE loaded[p]]
  /\ vpc' = [v \in Validations |-> "idle"]
  /\ token' = [v \in Validations |-> None]
  /\ since' = [v \in Validations |-> 0]
  /\ now' = [v \in Validations |-> 0]
  /\ cache' = [t \in Tokens |-> None]
  /\ UNCHANGED <<file, frontend, behind, dead, accepted, config, issued, job>>

TokenNext ==
  \/ \E o \in Openers : EnsureFound(o) \/ EnsureMissing(o) \/ EnsureSave(o)
  \/ \E c \in Commands :
       \/ CreateLoad(c) \/ CreateSave(c) \/ RevokeLoad(c) \/ RevokeSave(c)
       \/ CommandFails(c)
  \/ FrontendChanges
  \/ \E v \in Validations : Validate(v)
  \/ Tick \/ Restart

TokenSpec == TokenInit /\ [][TokenNext]_tvars
-----------------------------------------------------------------------------
(* Properties.                                                             *)

\* Every variable has its type; the mutex is held from the load to the save of a
\* validation and by nobody else.
TokenTypeOK ==
  /\ file \in Database \cup {None} /\ frontend \in Database
  /\ loaded \in [Procs -> Database \cup {None}]
  /\ issued \in SUBSET Tokens
  /\ opc \in [Openers -> {"start", "ensure", "up", "ready", "create", "revoke", "done"}]
  /\ job \in [Commands -> Tokens \cup {None}]
  /\ vpc \in [Validations -> {"idle", "touch", "renewed", "resave", "find", "found", "stamped",
                              "save", "fill", "accepted", "refused", "error"}]
  /\ token \in [Validations -> Tokens \cup {None}]
  /\ since \in [Validations -> 0..MaxDelay]
  /\ now \in [Validations -> 0..MaxDelay]
  /\ cache \in [Tokens -> Ages \cup {None}]
  /\ touchEvery \in TouchIntervals /\ remote \in BOOLEAN
  /\ restarts \in 0..MaxRestarts
  /\ dead \in [Tokens -> Ages] /\ accepted \in [Tokens -> Ages]
  /\ behind \in [Procs -> SUBSET Tokens]
  /\ \A v \in Validations : mu = v <=> vpc[v] \in {"save", "resave"}
  /\ mu \in Validations \cup {None}

\* A token is accepted only if the store called it active within the lifetime of a
\* cache entry, up to the duration of the validations involved.  Only if touchEvery
\* is configured so short that used entries are renewed, an acceptance may also rest
\* on an acceptance that recent (Validate, touchIfNeeded, RemoteValidator.Validate).
AcceptedWasActive ==
  [][\A v \in Validations : vpc[v] # "accepted" /\ vpc'[v] = "accepted" =>
       LET t == token'[v] IN
         \/ Source[t] = "active"
         \/ dead[t] <= Tolerance
         \/ ~remote /\ touchEvery <= CacheTTL + MaxDelay /\ accepted[t] <= Tolerance]_tvars

\* The store never takes a change back, be it a new token or a revocation, except in
\* one way: a process writes a file that it loaded before that change was written.
\* In particular no validation that begins its update after a revocation undoes it
\* (RevokeToken "marks a token as revoked", TouchLastUsed).
Undone(t) ==
  LET before == Content(file)[t]
      after == Content(file')[t] IN
  \/ before # "absent" /\ after = "absent"
  \/ before = "revoked" /\ after = "active"
UndoneOnlyInOverlap ==
  [][\A t \in Tokens : Undone(t) =>
       \E p \in Procs : loaded[p] # None /\ loaded'[p] = None /\ t \in behind[p]]_tvars
=============================================================================
