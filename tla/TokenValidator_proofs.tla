----------------------- MODULE TokenValidator_proofs -----------------------
(***************************************************************************)
(* Proofs about the token database of TokenValidator, for any sets of      *)
(* tokens, validations and commands, any lifetime of a cache entry, any    *)
(* touchEvery and any number of restarts of the daemon.                    *)
(*                                                                         *)
(* TypeInv is the type invariant with what makes it inductive: a clock     *)
(* reading is bounded because it is younger than the call it belongs to,   *)
(* and what a process writes is a database because it has loaded one.      *)
(*                                                                         *)
(* FileInv says how what a process has loaded relates to the file.  That a *)
(* new token is not yet in any database anyone has loaded is needed for    *)
(* CreateToken, which would otherwise overwrite a revocation; that the     *)
(* token RevokeToken works on is one that has been written is needed for   *)
(* this in turn.                                                           *)
(***************************************************************************)
EXTENDS TokenValidator, TLAPS

-----------------------------------------------------------------------------
(* Types.                                                                  *)

\* A validation that has read the clock read it after it was called, so that its
\* reading is bounded as the call is.
Clocks ==
  \A v \in Validations :
    ~remote /\ vpc[v] \in {"stamped", "save", "fill"} => now[v] <= since[v]

\* The processes between loadLocked and saveLocked have what they loaded.
Held ==
  /\ \A o \in Openers : opc[o] \in {"ensure", "create", "revoke"} => loaded[o] # None
  /\ \A v \in Validations : vpc[v] \in {"save", "resave"} => loaded[v] # None

TypeInv == TokenTypeOK /\ Clocks /\ Held

\* saveLocked writes a database and changes what its own process has loaded.
LEMMA SaveTyped ==
  ASSUME TokenTypeOK, NEW p \in Procs, NEW db \in Database, Save(p, db)
  PROVE  /\ file' \in Database /\ frontend' \in Database
         /\ loaded' \in [Procs -> Database \cup {None}]
         /\ dead' \in [Tokens -> Ages]
         /\ behind' \in [Procs -> SUBSET Tokens]
         /\ \A q \in Procs : q # p => loaded'[q] = loaded[q]
<1> USE DEF Save, TokenTypeOK
<1>1. 0 \in Ages
  BY TokenAssumption DEF Ages, MaxAge, Tolerance
<1>2. dead' \in [Tokens -> Ages]
  BY <1>1 DEF Dying
<1>3. behind' \in [Procs -> SUBSET Tokens]
  OBVIOUS
<1>4. QED
  BY <1>2, <1>3

\* loadLocked always returns a database, an empty one if there is no file.
LEMMA LoadTyped ==
  ASSUME TokenTypeOK, NEW p \in Procs, Load(p)
  PROVE  /\ file' \in Database \cup {None} /\ frontend' \in Database
         /\ loaded' \in [Procs -> Database \cup {None}]
         /\ dead' \in [Tokens -> Ages]
         /\ behind' \in [Procs -> SUBSET Tokens]
         /\ loaded'[p] # None
         /\ \A q \in Procs : q # p => loaded'[q] = loaded[q]
<1>1. EmptyDatabase \in Database
  BY DEF EmptyDatabase, Database
<1>2. Content(file) \in Database
  BY <1>1 DEF Content, TokenTypeOK
<1>3. QED
  BY <1>2, NoFileAssumption DEF Load, TokenTypeOK

\* An operation that fails leaves the file as it is.
LEMMA GiveUpTyped ==
  ASSUME TokenTypeOK, NEW p \in Procs, GiveUp(p)
  PROVE  /\ file' \in Database \cup {None} /\ frontend' \in Database
         /\ loaded' \in [Procs -> Database \cup {None}]
         /\ dead' \in [Tokens -> Ages]
         /\ behind' \in [Procs -> SUBSET Tokens]
         /\ \A q \in Procs : q # p => loaded'[q] = loaded[q]
BY DEF GiveUp, TokenTypeOK

\* Ensure keeps the types ...
LEMMA OpenTyped ==
  ASSUME TypeInv, NEW o \in Openers,
         EnsureFound(o) \/ EnsureMissing(o) \/ EnsureSave(o)
  PROVE  TypeInv'
<1> USE DEF TypeInv
<1>1. EmptyDatabase \in Database /\ o \in Procs /\ Openers \cap Validations = {}
  BY TokenAssumption DEF EmptyDatabase, Database, Procs, Openers
<1>2. CASE EnsureFound(o)
  BY <1>2 DEF EnsureFound, Step, Opened, store, daemon, config, TokenTypeOK, Clocks, Held
<1>3. CASE EnsureMissing(o)
  BY <1>1, <1>3, LoadTyped
  DEF EnsureMissing, Step, Opened, daemon, config, TokenTypeOK, Clocks, Held, Procs
<1>4. CASE EnsureSave(o)
  <2>1. Save(o, EmptyDatabase) /\ UNCHANGED <<daemon, config, issued, job, restarts>>
    BY <1>4 DEF EnsureSave
  <2>2. opc' = [opc EXCEPT ![o] = Opened(o)] /\ Opened(o) \in {"up", "ready"}
    BY <1>4 DEF EnsureSave, Step, Opened
  <2>3. TokenTypeOK'
    BY <1>1, <2>1, <2>2, SaveTyped DEF daemon, config, TokenTypeOK
  <2>4. Clocks' /\ Held'
    BY <1>1, <2>1, <2>2, SaveTyped DEF daemon, config, TokenTypeOK, Clocks, Held, Procs
  <2>5. QED
    BY <2>3, <2>4
<1>5. QED
  BY <1>2, <1>3, <1>4

\* ... and so do CreateToken and RevokeToken ...
LEMMA CommandTyped ==
  ASSUME TypeInv, NEW c \in Commands,
         \/ CreateLoad(c) \/ CreateSave(c) \/ RevokeLoad(c) \/ RevokeSave(c)
         \/ CommandFails(c)
  PROVE  TypeInv'
<1> USE DEF TypeInv, Step, daemon, config
<1>1. c \in Openers /\ c \in Procs /\ Openers \cap Validations = {}
  BY TokenAssumption DEF Openers, Procs
<1>2. CASE CreateLoad(c)
  <2>1. PICK t \in Tokens : issued' = issued \cup {t} /\ job' = [job EXCEPT ![c] = t]
    BY <1>2 DEF CreateLoad
  <2>2. issued' \in SUBSET Tokens /\ job' \in [Commands -> Tokens \cup {None}]
    BY <2>1 DEF TokenTypeOK
  <2>3. QED
    BY <1>1, <1>2, <2>2, LoadTyped DEF CreateLoad, TokenTypeOK, Clocks, Held, Procs
<1>3. CASE CreateSave(c)
  <2>1. [loaded[c] EXCEPT ![job[c]] = "active"] \in Database
    BY <1>1, <1>3 DEF CreateSave, Held, TokenTypeOK, Database
  <2>2. QED
    BY <1>1, <1>3, <2>1, SaveTyped DEF CreateSave, TokenTypeOK, Clocks, Held, Procs
<1>4. CASE RevokeLoad(c)
  BY <1>1, <1>4, LoadTyped DEF RevokeLoad, TokenTypeOK, Clocks, Held, Procs
<1>5. CASE RevokeSave(c)
  <2>1. [loaded[c] EXCEPT ![job[c]] = "revoked"] \in Database
    BY <1>1, <1>5 DEF RevokeSave, Held, TokenTypeOK, Database
  <2>2. QED
    BY <1>1, <1>5, <2>1, SaveTyped DEF RevokeSave, TokenTypeOK, Clocks, Held, Procs
<1>6. CASE CommandFails(c)
  BY <1>1, <1>6, GiveUpTyped DEF CommandFails, TokenTypeOK, Clocks, Held, Procs
<1>7. QED
  BY <1>2, <1>3, <1>4, <1>5, <1>6

\* Ages are numbers, and time keeps them below their cap.
LEMMA AgeFacts ==
  /\ Ages \subseteq Nat /\ 0 \in Ages /\ 0 \in 0..MaxDelay /\ 0..MaxDelay \subseteq Ages
  /\ \A a \in Ages : Older(a) \in Ages
BY TokenAssumption DEF Ages, MaxAge, Tolerance, Older

\* ... Validate ...
LEMMA ValidateTyped ==
  ASSUME TypeInv, NEW v \in Validations, Validate(v)
  PROVE  TypeInv'
<1> USE DEF TypeInv, Goto, Accept, Stays, store, config
<1>1. v \in Procs /\ v \notin Openers /\ None \notin Validations
  BY TokenAssumption DEF Openers, Procs
<1>2. ASSUME NEW t \in Tokens, Hit(v, t)
      PROVE  TypeInv'
  BY <1>1, <1>2, AgeFacts DEF Hit, TokenTypeOK, Clocks, Held
<1>3. ASSUME NEW t \in Tokens, Miss(v, t)
      PROVE  TypeInv'
  BY <1>1, <1>3, AgeFacts DEF Miss, TokenTypeOK, Clocks, Held
<1>4. CASE TouchNotNeeded(v)
  BY <1>1, <1>4, AgeFacts DEF TouchNotNeeded, TokenTypeOK, Clocks, Held
<1>5. CASE Renew(v)
  BY <1>1, <1>5, AgeFacts DEF Renew, TokenTypeOK, Clocks, Held
<1>6. CASE Find(v)
  BY <1>1, <1>6, AgeFacts DEF Find, TokenTypeOK, Clocks, Held
<1>7. CASE FindFails(v)
  BY <1>1, <1>7, AgeFacts DEF FindFails, TokenTypeOK, Clocks, Held
<1>8. CASE ReadClock(v)
  BY <1>1, <1>8, AgeFacts DEF ReadClock, TokenTypeOK, Clocks, Held
<1>9. CASE TouchLoad(v)
  BY <1>1, <1>9, LoadTyped DEF TouchLoad, TokenTypeOK, Clocks, Held, Procs
<1>10. CASE TouchSave(v)
  <2>1. loaded[v] \in Database
    BY <1>1, <1>10 DEF TouchSave, TokenTypeOK, Held
  <2>2. /\ vpc' \in [Validations -> {"idle", "touch", "renewed", "resave", "find", "found",
                          "stamped", "save", "fill", "accepted", "refused", "error"}]
        /\ accepted' \in [Tokens -> Ages]
        /\ vpc'[v] \in {"fill", "accepted"}
        /\ \A w \in Validations : w # v => vpc'[w] = vpc[w]
        /\ vpc'[v] = "fill" => vpc[v] = "save"
    BY <1>10, AgeFacts DEF TouchSave, TokenTypeOK
  <2>3. mu = v /\ mu' = None /\ \A w \in Validations : w # v => vpc[w] \notin {"save", "resave"}
    BY <1>10 DEF TouchSave, TokenTypeOK
  <2>4. Save(v, loaded[v]) /\ UNCHANGED <<token, since, now, cache, Stays>>
    BY <1>10 DEF TouchSave, Touched
  <2>5. TokenTypeOK'
    BY <1>1, <2>1, <2>2, <2>3, <2>4, SaveTyped DEF TokenTypeOK
  <2>6. Clocks' /\ Held'
    BY <1>1, <2>1, <2>2, <2>3, <2>4, SaveTyped DEF TokenTypeOK, Clocks, Held, Procs
  <2>7. QED
    BY <2>5, <2>6
<1>11. CASE TouchFails(v)
  <2>1. /\ vpc' \in [Validations -> {"idle", "touch", "renewed", "resave", "find", "found",
                          "stamped", "save", "fill", "accepted", "refused", "error"}]
        /\ accepted' \in [Tokens -> Ages]
        /\ vpc'[v] \in {"error", "accepted"}
        /\ \A w \in Validations : w # v => vpc'[w] = vpc[w]
    BY <1>11, AgeFacts DEF TouchFails, TokenTypeOK
  <2>2. GiveUp(v) /\ UNCHANGED <<token, since, now, cache, Stays>>
    BY <1>11 DEF TouchFails
  <2>3. /\ mu' \in Validations \cup {None} /\ mu' # v
        /\ \A w \in Validations : w # v => (mu' = w <=> mu = w)
    BY <1>1, <1>11 DEF TouchFails, TokenTypeOK
  <2>4. TokenTypeOK'
    BY <1>1, <2>1, <2>2, <2>3, GiveUpTyped DEF TokenTypeOK
  <2>5. Clocks' /\ Held'
    BY <1>1, <2>1, <2>2, GiveUpTyped DEF TokenTypeOK, Clocks, Held, Procs
  <2>6. QED
    BY <2>4, <2>5
<1>12. CASE Fill(v)
  BY <1>1, <1>12, AgeFacts DEF Fill, TokenTypeOK, Clocks, Held
<1>13. CASE Return(v)
  BY <1>1, <1>13, AgeFacts DEF Return, TokenTypeOK, Clocks, Held
<1>14. QED
  BY <1>2, <1>3, <1>4, <1>5, <1>6, <1>7, <1>8, <1>9, <1>10, <1>11, <1>12, <1>13 DEF Validate

\* ... and what happens around it.
LEMMA EnvironmentTyped ==
  ASSUME TypeInv, FrontendChanges \/ Tick \/ Restart
  PROVE  TypeInv'
<1> USE DEF TypeInv, Stays, daemon, config
<1>1. CASE FrontendChanges
  BY <1>1, AgeFacts DEF FrontendChanges, Dying, Database, TokenTypeOK, Clocks, Held
<1>2. CASE Tick
  <2>1. since' \in [Validations -> 0..MaxDelay]
    BY <1>2, TokenAssumption DEF Tick, Busy, TokenTypeOK
  <2>2. now' \in [Validations -> 0..MaxDelay] /\ Clocks'
    BY <1>2, TokenAssumption DEF Tick, Busy, TokenTypeOK, Clocks
  <2>3. /\ cache' \in [Tokens -> Ages \cup {None}]
        /\ dead' \in [Tokens -> Ages] /\ accepted' \in [Tokens -> Ages]
    BY <1>2, AgeFacts DEF Tick, TokenTypeOK
  <2>4. QED
    BY <1>2, <2>1, <2>2, <2>3 DEF Tick, TokenTypeOK, Held
<1>3. CASE Restart
  BY <1>3, AgeFacts, TokenAssumption DEF Restart, Openers, Procs, TokenTypeOK, Clocks, Held
<1>4. QED
  BY <1>1, <1>2, <1>3

-----------------------------------------------------------------------------
(* The file and what the processes have loaded.                            *)

\* What a process has loaded is what the file says, but for the changes it is behind.
UpToDate ==
  \A p \in Procs : loaded[p] # None =>
    \A t \in Tokens \ behind[p] : loaded[p][t] = Content(file)[t]

\* Ensure writes an empty database because it loaded one.
EnsuresEmpty == \A o \in Openers : opc[o] = "ensure" => loaded[o] = EmptyDatabase

\* A token is unwritten until CreateToken has saved it, and nobody knows it before.
Creating(c, t) == opc[c] = "create" /\ job[c] = t
Unwritten(t) == t \notin issued \/ \E c \in Commands : Creating(c, t)
UnwrittenAbsent ==
  \A t \in Tokens : Unwritten(t) =>
    /\ Content(file)[t] = "absent"
    /\ \A p \in Procs : loaded[p] # None => loaded[p][t] = "absent"

\* Each command creates a token of its own, or revokes one that has been written.
OneCreator ==
  \A c \in Commands : opc[c] = "create" =>
    /\ job[c] \in issued
    /\ \A d \in Commands : Creating(d, job[c]) => d = c
RevokesWritten ==
  \A c \in Commands : opc[c] = "revoke" => job[c] \in Tokens /\ ~Unwritten(job[c])

FileInv ==
  /\ UpToDate /\ EnsuresEmpty /\ UnwrittenAbsent
  /\ OneCreator /\ RevokesWritten

\* Most steps have nothing to do with the file.
LEMMA QuietKeepsFile ==
  ASSUME FileInv, UNCHANGED <<file, loaded, behind, issued, opc, job>>
  PROVE  FileInv'
BY DEF FileInv, UpToDate, EnsuresEmpty, UnwrittenAbsent, OneCreator, RevokesWritten,
       Creating, Unwritten, Content

\* A process that loads the file is up to date.
LEMMA LoadKeepsUpToDate ==
  ASSUME TokenTypeOK, UpToDate, NEW p \in Procs, Load(p)
  PROVE  UpToDate'
BY DEF Load, UpToDate, TokenTypeOK, Content

\* A process that saves puts all others behind what it changes.
LEMMA SaveKeepsUpToDate ==
  ASSUME TokenTypeOK, UpToDate, NEW p \in Procs, NEW db \in Database, Save(p, db)
  PROVE  UpToDate'
<1> SUFFICES ASSUME NEW q \in Procs, loaded'[q] # None, NEW t \in Tokens \ behind'[q]
             PROVE  loaded'[q][t] = Content(file')[t]
  BY DEF UpToDate, Content
<1>1. q # p /\ loaded'[q] = loaded[q]
  BY DEF Save, TokenTypeOK
<1>2. t \notin behind[q] /\ Content(file)[t] = db[t]
  BY DEF Save
<1>3. file' = db /\ Content(file') = db
  BY NoFileAssumption DEF Save, Content
<1>4. QED
  BY <1>1, <1>2, <1>3 DEF UpToDate

\* A process that forgets what it loaded writes nothing any more.
LEMMA LossKeepsUpToDate ==
  ASSUME UpToDate, UNCHANGED <<file, behind>>,
         \A p \in Procs : loaded'[p] \in {loaded[p], None}
  PROVE  UpToDate'
BY DEF UpToDate, Content

\* Nobody learns of an unwritten token from the file or from what others loaded.
LEMMA UnwrittenStays ==
  ASSUME UnwrittenAbsent,
         \A t \in Tokens : Unwritten(t)' => Unwritten(t) /\ Content(file')[t] = "absent",
         \A p \in Procs : loaded'[p] \in {loaded[p], Content(file), None}
  PROVE  UnwrittenAbsent'
BY DEF UnwrittenAbsent, Content

\* Ensure: it writes an empty database, which is what it loaded.
LEMMA OpenKeepsFile ==
  ASSUME TypeInv, FileInv, NEW o \in Openers,
         EnsureFound(o) \/ EnsureMissing(o) \/ EnsureSave(o)
  PROVE  FileInv'
<1> USE DEF TypeInv, FileInv
<1>1. EmptyDatabase \in Database /\ o \in Procs /\ Commands \subseteq Openers
  BY DEF EmptyDatabase, Database, Procs, Openers
<1>2. /\ opc' = [opc EXCEPT ![o] = opc'[o]] /\ UNCHANGED <<issued, job>>
      /\ opc'[o] \notin {"create", "revoke"} /\ opc[o] \notin {"create", "revoke"}
  BY DEF EnsureFound, EnsureMissing, EnsureSave, Step, Opened, TokenTypeOK
<1>3. \A t : Unwritten(t)' <=> Unwritten(t)
  BY <1>1, <1>2 DEF Unwritten, Creating, TokenTypeOK
<1>4. OneCreator' /\ RevokesWritten'
  BY <1>1, <1>2, <1>3 DEF OneCreator, RevokesWritten, Creating, TokenTypeOK
<1>5. CASE EnsureFound(o)
  BY <1>1, <1>2, <1>3, <1>4, <1>5
  DEF EnsureFound, Step, Opened, store, UpToDate, EnsuresEmpty, UnwrittenAbsent, Content,
      TokenTypeOK
<1>6. CASE EnsureMissing(o)
  <2>1. Load(o) /\ UNCHANGED file /\ Content(file) = EmptyDatabase
    BY <1>6 DEF EnsureMissing, Load, Content
  <2>2. UpToDate'
    BY <1>1, <2>1, LoadKeepsUpToDate
  <2>3. EnsuresEmpty'
    BY <1>1, <1>2, <2>1 DEF Load, EnsuresEmpty, TokenTypeOK, Procs
  <2>4. UnwrittenAbsent'
    <3>1. \A p \in Procs : loaded'[p] \in {loaded[p], Content(file), None}
      BY <2>1 DEF Load, TokenTypeOK
    <3>2. QED
      BY <1>3, <2>1, <3>1, UnwrittenStays DEF UnwrittenAbsent
  <2>5. QED
    BY <1>4, <2>2, <2>3, <2>4
<1>7. CASE EnsureSave(o)
  <2>1. Save(o, EmptyDatabase) /\ opc' = [opc EXCEPT ![o] = Opened(o)]
    BY <1>7 DEF EnsureSave, Step
  <2>2. UpToDate'
    BY <1>1, <2>1, SaveKeepsUpToDate
  <2>3. /\ \A p \in Procs : loaded'[p] \in {loaded[p], Content(file), None}
        /\ \A p \in Procs : p # o => loaded'[p] = loaded[p]
        /\ file' = EmptyDatabase
    BY <2>1 DEF Save, TokenTypeOK
  <2>4. EnsuresEmpty'
    BY <2>1, <2>3 DEF EnsuresEmpty, Opened, TokenTypeOK, Procs
  <2>5. UnwrittenAbsent'
    <3>1. \A t \in Tokens : Content(file')[t] = "absent"
      BY <2>3 DEF Content, EmptyDatabase
    <3>2. QED
      BY <1>3, <2>3, <3>1, UnwrittenStays
  <2>6. QED
    BY <1>4, <2>2, <2>4, <2>5
<1>8. QED
  BY <1>5, <1>6, <1>7

\* CreateToken: the id it draws is nobody else's, and is written only by its save.
LEMMA CreateKeepsFile ==
  ASSUME TypeInv, FileInv, NEW c \in Commands, CreateLoad(c) \/ CreateSave(c)
  PROVE  FileInv'
<1> USE DEF TypeInv, FileInv
<1>1. c \in Openers /\ c \in Procs /\ Commands \subseteq Openers
  BY DEF Openers, Procs
<1>2. CASE CreateLoad(c)
  <2>1. PICK t \in Tokens \ issued : issued' = issued \cup {t} /\ job' = [job EXCEPT ![c] = t]
    BY <1>2 DEF CreateLoad
  <2>2. Load(c) /\ opc[c] = "ready" /\ opc' = [opc EXCEPT ![c] = "create"]
    BY <1>2 DEF CreateLoad, Step
  <2>3. \A u : Unwritten(u)' <=> Unwritten(u)
    BY <1>1, <2>1, <2>2 DEF Unwritten, Creating, TokenTypeOK
  <2>4. /\ \A p \in Procs : loaded'[p] \in {loaded[p], Content(file), None}
        /\ \A p \in Procs : p # c => loaded'[p] = loaded[p]
        /\ UNCHANGED file
    BY <2>2 DEF Load, TokenTypeOK
  <2>5. UpToDate'
    BY <1>1, <2>2, LoadKeepsUpToDate
  <2>6. EnsuresEmpty'
    BY <1>1, <2>2, <2>4 DEF EnsuresEmpty, TokenTypeOK, Procs
  <2>7. UnwrittenAbsent'
    BY <2>3, <2>4, UnwrittenStays DEF UnwrittenAbsent
  <2>8. OneCreator'
    BY <1>1, <2>1, <2>2 DEF OneCreator, Creating, TokenTypeOK
  <2>9. RevokesWritten'
    BY <1>1, <2>1, <2>2, <2>3 DEF RevokesWritten, TokenTypeOK
  <2>10. QED
    BY <2>5, <2>6, <2>7, <2>8, <2>9
<1>3. CASE CreateSave(c)
  <2> DEFINE db == [loaded[c] EXCEPT ![job[c]] = "active"]
  <2>1. /\ Save(c, db) /\ opc[c] = "create" /\ opc' = [opc EXCEPT ![c] = "done"]
        /\ UNCHANGED <<issued, job>>
    BY <1>3 DEF CreateSave, Step
  <2>2. loaded[c] \in Database /\ loaded[c] # None /\ job[c] \in issued
    BY <1>1, <2>1 DEF Held, TokenTypeOK, OneCreator
  <2>3. db \in Database /\ \A t \in Tokens : t # job[c] => db[t] = loaded[c][t]
    BY <2>2 DEF Database
  <2>4. \A t : Unwritten(t)' => Unwritten(t) /\ t # job[c]
    BY <1>1, <2>1, <2>2 DEF OneCreator, Unwritten, Creating, TokenTypeOK
  <2>5. /\ \A p \in Procs : loaded'[p] \in {loaded[p], Content(file), None}
        /\ \A p \in Procs : p # c => loaded'[p] = loaded[p]
        /\ file' = db
    BY <2>1 DEF Save, TokenTypeOK
  <2>6. UpToDate'
    BY <1>1, <2>1, <2>3, SaveKeepsUpToDate
  <2>7. EnsuresEmpty'
    BY <1>1, <2>1, <2>5 DEF EnsuresEmpty, TokenTypeOK, Procs
  <2>8. UnwrittenAbsent'
    <3>1. Content(file') = db
      BY <2>3, <2>5, NoFileAssumption DEF Content
    <3>2. ASSUME NEW t \in Tokens, Unwritten(t)'
          PROVE  Content(file')[t] = "absent"
      <4>1. t # job[c] /\ Unwritten(t)
        BY <2>4, <3>2
      <4>2. loaded[c][t] = "absent"
        BY <1>1, <2>2, <4>1 DEF UnwrittenAbsent
      <4>3. QED
        BY <2>3, <3>1, <4>1, <4>2
    <3>3. QED
      BY <2>4, <2>5, <3>2, UnwrittenStays
  <2>9. OneCreator'
    BY <1>1, <2>1 DEF OneCreator, Creating, TokenTypeOK
  <2>10. RevokesWritten'
    BY <1>1, <2>1, <2>4 DEF RevokesWritten, TokenTypeOK
  <2>11. QED
    BY <2>6, <2>7, <2>8, <2>9, <2>10
<1>4. QED
  BY <1>2, <1>3

\* RevokeToken: the token it found in the file has been written.
LEMMA RevokeKeepsFile ==
  ASSUME TypeInv, FileInv, NEW c \in Commands,
         RevokeLoad(c) \/ RevokeSave(c) \/ CommandFails(c)
  PROVE  FileInv'
<1> USE DEF TypeInv, FileInv
<1>1. c \in Openers /\ c \in Procs /\ Commands \subseteq Openers
  BY DEF Openers, Procs
<1>2. CASE RevokeLoad(c)
  <2>1. PICK t \in issued : Content(file)[t] # "absent" /\ job' = [job EXCEPT ![c] = t]
    BY <1>2 DEF RevokeLoad
  <2>2. /\ Load(c) /\ opc[c] = "ready" /\ opc' = [opc EXCEPT ![c] = "revoke"]
        /\ UNCHANGED issued
    BY <1>2 DEF RevokeLoad, Step
  <2>3. \A u : Unwritten(u)' <=> Unwritten(u)
    BY <1>1, <2>1, <2>2 DEF Unwritten, Creating, TokenTypeOK
  <2>4. t \in Tokens /\ ~Unwritten(t)
    BY <2>1 DEF UnwrittenAbsent, TokenTypeOK
  <2>5. /\ \A p \in Procs : loaded'[p] \in {loaded[p], Content(file), None}
        /\ \A p \in Procs : p # c => loaded'[p] = loaded[p]
        /\ UNCHANGED file
    BY <2>2 DEF Load, TokenTypeOK
  <2>6. UpToDate'
    BY <1>1, <2>2, LoadKeepsUpToDate
  <2>7. EnsuresEmpty'
    BY <1>1, <2>2, <2>5 DEF EnsuresEmpty, TokenTypeOK, Procs
  <2>8. UnwrittenAbsent'
    BY <2>3, <2>5, UnwrittenStays DEF UnwrittenAbsent
  <2>9. OneCreator'
    BY <1>1, <2>1, <2>2 DEF OneCreator, Creating, TokenTypeOK
  <2>10. RevokesWritten'
    BY <1>1, <2>1, <2>2, <2>3, <2>4 DEF RevokesWritten, TokenTypeOK
  <2>11. QED
    BY <2>6, <2>7, <2>8, <2>9, <2>10
<1>3. CASE RevokeSave(c)
  <2> DEFINE db == [loaded[c] EXCEPT ![job[c]] = "revoked"]
  <2>1. /\ Save(c, db) /\ opc[c] = "revoke" /\ opc' = [opc EXCEPT ![c] = "done"]
        /\ UNCHANGED <<issued, job>>
    BY <1>3 DEF RevokeSave, Step
  <2>2. /\ loaded[c] \in Database /\ loaded[c] # None
        /\ job[c] \in Tokens /\ ~Unwritten(job[c])
    BY <1>1, <2>1 DEF Held, TokenTypeOK, RevokesWritten
  <2>3. db \in Database /\ \A t \in Tokens : t # job[c] => db[t] = loaded[c][t]
    BY <2>2 DEF Database
  <2>4. \A t : Unwritten(t)' <=> Unwritten(t)
    BY <1>1, <2>1 DEF Unwritten, Creating, TokenTypeOK
  <2>5. /\ \A p \in Procs : loaded'[p] \in {loaded[p], Content(file), None}
        /\ \A p \in Procs : p # c => loaded'[p] = loaded[p]
        /\ file' = db
    BY <2>1 DEF Save, TokenTypeOK
  <2>6. UpToDate'
    BY <1>1, <2>1, <2>3, SaveKeepsUpToDate
  <2>7. EnsuresEmpty'
    BY <1>1, <2>1, <2>5 DEF EnsuresEmpty, TokenTypeOK, Procs
  <2>8. UnwrittenAbsent'
    <3>1. Content(file') = db
      BY <2>3, <2>5, NoFileAssumption DEF Content
    <3>2. ASSUME NEW t \in Tokens, Unwritten(t)'
          PROVE  Content(file')[t] = "absent"
      <4>1. t # job[c] /\ Unwritten(t)
        BY <2>2, <2>4, <3>2
      <4>2. loaded[c][t] = "absent"
        BY <1>1, <2>2, <4>1 DEF UnwrittenAbsent
      <4>3. QED
        BY <2>3, <3>1, <4>1, <4>2
    <3>3. QED
      BY <2>4, <2>5, <3>2, UnwrittenStays
  <2>9. OneCreator'
    BY <1>1, <2>1 DEF OneCreator, Creating, TokenTypeOK
  <2>10. RevokesWritten'
    BY <1>1, <2>1, <2>4 DEF RevokesWritten, TokenTypeOK
  <2>11. QED
    BY <2>6, <2>7, <2>8, <2>9, <2>10
<1>4. CASE CommandFails(c)
  <2>1. /\ GiveUp(c) /\ opc' = [opc EXCEPT ![c] = "done"]
        /\ UNCHANGED <<issued, job>>
    BY <1>4 DEF CommandFails, Step
  <2>2. \A t : Unwritten(t)' => Unwritten(t)
    BY <1>1, <2>1 DEF Unwritten, Creating, TokenTypeOK
  <2>3. /\ \A p \in Procs : loaded'[p] \in {loaded[p], None}
        /\ \A p \in Procs : p # c => loaded'[p] = loaded[p]
        /\ UNCHANGED <<file, behind>>
    BY <2>1 DEF GiveUp, TokenTypeOK
  <2>4. UpToDate'
    BY <2>3, LossKeepsUpToDate
  <2>5. EnsuresEmpty'
    BY <1>1, <2>1, <2>3 DEF EnsuresEmpty, TokenTypeOK, Procs
  <2>6. UnwrittenAbsent'
    BY <2>2, <2>3, UnwrittenStays DEF UnwrittenAbsent
  <2>7. OneCreator'
    BY <1>1, <2>1 DEF OneCreator, Creating, TokenTypeOK
  <2>8. RevokesWritten'
    BY <1>1, <2>1, <2>2 DEF RevokesWritten, TokenTypeOK
  <2>9. QED
    BY <2>4, <2>5, <2>6, <2>7, <2>8
<1>5. QED
  BY <1>2, <1>3, <1>4

\* TouchLastUsed writes what it loaded, but for the time of the last use.
LEMMA ValidateKeepsFile ==
  ASSUME TypeInv, FileInv, NEW v \in Validations, Validate(v)
  PROVE  FileInv'
<1> USE DEF TypeInv, FileInv
<1>1. UNCHANGED <<issued, opc, job>>
  BY DEF Validate, Hit, Miss, TouchNotNeeded, Renew, Find, FindFails, ReadClock,
         TouchLoad, TouchSave, TouchFails, Fill, Return, Stays
<1>2. v \in Procs /\ v \notin Openers /\ Commands \subseteq Openers /\ Openers \subseteq Procs
  BY TokenAssumption DEF Openers, Procs
<1>3. OneCreator' /\ RevokesWritten' /\ \A t : Unwritten(t)' <=> Unwritten(t)
  BY <1>1 DEF OneCreator, RevokesWritten, Unwritten, Creating
<1>4. EnsuresEmpty'
  <2>1. \A o \in Openers : loaded'[o] = loaded[o]
    BY <1>2 DEF Validate, Hit, Miss, TouchNotNeeded, Renew, Find, FindFails, ReadClock,
                TouchLoad, TouchSave, TouchFails, Fill, Return, Stays, store,
                Load, Save, GiveUp, TokenTypeOK
  <2>2. QED
    BY <1>1, <2>1 DEF EnsuresEmpty
<1>5. CASE TouchLoad(v)
  <2>1. Load(v)
    BY <1>5 DEF TouchLoad
  <2>2. UNCHANGED file /\ \A p \in Procs : loaded'[p] \in {loaded[p], Content(file), None}
    BY <2>1 DEF Load, TokenTypeOK
  <2>3. QED
    BY <1>2, <1>3, <1>4, <2>1, <2>2, LoadKeepsUpToDate, UnwrittenStays DEF UnwrittenAbsent
<1>6. CASE TouchSave(v)
  <2>1. Save(v, loaded[v]) /\ loaded[v] \in Database /\ loaded[v] # None
    BY <1>2, <1>6 DEF TouchSave, Touched, Held, TokenTypeOK
  <2>2. /\ \A p \in Procs : loaded'[p] \in {loaded[p], Content(file), None}
        /\ file' = loaded[v] /\ Content(file') = loaded[v]
    BY <2>1, NoFileAssumption DEF Save, TokenTypeOK, Content
  <2>3. UnwrittenAbsent'
    BY <1>2, <1>3, <2>1, <2>2, UnwrittenStays DEF UnwrittenAbsent
  <2>4. QED
    BY <1>2, <1>3, <1>4, <2>1, <2>3, SaveKeepsUpToDate
<1>7. CASE TouchFails(v)
  <2>1. UNCHANGED <<file, behind>> /\ \A p \in Procs : loaded'[p] \in {loaded[p], None}
    BY <1>7 DEF TouchFails, GiveUp, TokenTypeOK
  <2>2. QED
    BY <1>3, <1>4, <2>1, LossKeepsUpToDate, UnwrittenStays DEF UnwrittenAbsent
<1>8. CASE UNCHANGED <<file, loaded, behind>>
  BY <1>1, <1>8, QuietKeepsFile
<1>9. QED
  BY <1>5, <1>6, <1>7, <1>8
  DEF Validate, Hit, Miss, TouchNotNeeded, Renew, Find, FindFails, ReadClock,
      Fill, Return, store

\* A restart of the daemon forgets what its validations had loaded.
LEMMA EnvironmentKeepsFile ==
  ASSUME TypeInv, FileInv, FrontendChanges \/ Tick \/ Restart
  PROVE  FileInv'
<1> USE DEF TypeInv, FileInv
<1>1. CASE FrontendChanges \/ Tick
  BY <1>1, QuietKeepsFile DEF FrontendChanges, Tick, Stays
<1>2. CASE Restart
  <2>1. /\ UNCHANGED <<file, behind, issued, job>>
        /\ opc[Daemon] = "up" /\ opc' = [opc EXCEPT ![Daemon] = "start"]
        /\ \A p \in Procs : loaded'[p] \in {loaded[p], None}
        /\ \A o \in Openers : loaded'[o] = loaded[o]
    BY <1>2, TokenAssumption DEF Restart, Openers, Procs
  <2>2. \A c \in Commands : opc'[c] = opc[c]
    BY <2>1, TokenAssumption DEF TokenTypeOK, Openers
  <2>3. OneCreator' /\ RevokesWritten' /\ \A t : Unwritten(t)' <=> Unwritten(t)
    BY <2>1, <2>2 DEF OneCreator, RevokesWritten, Unwritten, Creating
  <2>4. EnsuresEmpty'
    BY <2>1 DEF EnsuresEmpty, TokenTypeOK
  <2>5. QED
    BY <2>1, <2>3, <2>4, LossKeepsUpToDate, UnwrittenStays DEF UnwrittenAbsent
<1>3. QED
  BY <1>1, <1>2

-----------------------------------------------------------------------------
(* The theorems about the file.                                            *)

\* At first there is no file.
LEMMA InitFile == TokenInit => TypeInv /\ FileInv
<1> SUFFICES ASSUME TokenInit PROVE TypeInv /\ FileInv
  OBVIOUS
<1>1. EmptyDatabase \in Database /\ Openers \cap Validations = {}
  BY TokenAssumption DEF EmptyDatabase, Database, Openers
<1>2. MaxAge \in Ages /\ 0 \in 0..MaxDelay /\ 0 \in 0..MaxRestarts
  BY TokenAssumption DEF Ages, MaxAge, Tolerance
<1>3. TypeInv
  BY <1>1, <1>2, TokenAssumption DEF TokenInit, TypeInv, TokenTypeOK, Clocks, Held
<1>4. FileInv
  BY <1>1 DEF TokenInit, FileInv, UpToDate, EnsuresEmpty, UnwrittenAbsent, OneCreator,
              RevokesWritten, Creating, Unwritten, Content, EmptyDatabase, Openers
<1>5. QED
  BY <1>3, <1>4

\* Every step of every process keeps the invariant.
LEMMA NextFile == TypeInv /\ FileInv /\ [TokenNext]_tvars => TypeInv' /\ FileInv'
<1> SUFFICES ASSUME TypeInv, FileInv, [TokenNext]_tvars PROVE TypeInv' /\ FileInv'
  OBVIOUS
<1>1. ASSUME NEW o \in Openers, EnsureFound(o) \/ EnsureMissing(o) \/ EnsureSave(o)
      PROVE  TypeInv' /\ FileInv'
  BY <1>1, OpenTyped, OpenKeepsFile
<1>2. ASSUME NEW c \in Commands,
             \/ CreateLoad(c) \/ CreateSave(c) \/ RevokeLoad(c) \/ RevokeSave(c)
             \/ CommandFails(c)
      PROVE  TypeInv' /\ FileInv'
  BY <1>2, CommandTyped, CreateKeepsFile, RevokeKeepsFile
<1>3. ASSUME NEW v \in Validations, Validate(v)
      PROVE  TypeInv' /\ FileInv'
  BY <1>3, ValidateTyped, ValidateKeepsFile
<1>4. CASE FrontendChanges \/ Tick \/ Restart
  BY <1>4, EnvironmentTyped, EnvironmentKeepsFile
<1>5. CASE UNCHANGED tvars
  <2>1. TypeInv'
    BY <1>5 DEF tvars, store, daemon, config, TypeInv, TokenTypeOK, Clocks, Held
  <2>2. QED
    BY <1>5, <2>1, QuietKeepsFile DEF tvars, store
<1>6. QED
  BY <1>1, <1>2, <1>3, <1>4, <1>5 DEF TokenNext

\* In every reachable state, what each process has loaded differs from the file only
\* in what has been written since, and an unwritten token is nowhere (Store).
THEOREM FileInductive == TokenSpec => [](TypeInv /\ FileInv)
BY InitFile, NextFile, PTL DEF TokenSpec

\* Every variable has its type; Store.mu is held by the validation that is between
\* the load and the save of TouchLastUsed, and by nobody else.
THEOREM TokensTyped == TokenSpec => []TokenTypeOK
<1>1. TypeInv /\ FileInv => TokenTypeOK
  BY DEF TypeInv
<1>2. QED
  BY <1>1, FileInductive, PTL

\* A process that writes, for a token, what it loaded, or revokes it, or adds one that
\* is not in the file, takes back only a change it is behind.
LEMMA SaveUndoesOnlyBehind ==
  ASSUME TypeInv, FileInv, NEW p \in Procs, NEW db \in Database, Save(p, db),
         loaded[p] # None, NEW t \in Tokens, Undone(t),
         \/ db[t] = loaded[p][t]
         \/ db[t] = "revoked"
         \/ Content(file)[t] = "absent"
  PROVE  loaded[p] # None /\ loaded'[p] = None /\ t \in behind[p]
<1>1. file' = db /\ Content(file') = db /\ loaded'[p] = None
  BY NoFileAssumption DEF Save, Content, TypeInv, TokenTypeOK
<1>2. Content(file)[t] # "absent" /\ db[t] # "revoked" /\ db[t] # Content(file)[t]
  BY <1>1 DEF Undone
<1>3. db[t] = loaded[p][t]
  BY <1>2
<1>4. QED
  BY <1>1, <1>2, <1>3 DEF FileInv, UpToDate

\* Each of the four operations that write the file does one of these.
LEMMA UndoneStep ==
  ASSUME TypeInv, FileInv, [TokenNext]_tvars, NEW t \in Tokens, Undone(t)
  PROVE  \E p \in Procs : loaded[p] # None /\ loaded'[p] = None /\ t \in behind[p]
<1>1. file' # file
  BY DEF Undone, Content
<1>2. CASE \E o \in Openers : EnsureSave(o)
  <2>1. PICK o \in Openers : EnsureSave(o)
    BY <1>2
  <2>2. /\ Save(o, EmptyDatabase) /\ EmptyDatabase \in Database /\ o \in Procs
        /\ loaded[o] = EmptyDatabase /\ loaded[o] # None
    BY <2>1, NoFileAssumption
    DEF EnsureSave, Procs, FileInv, EnsuresEmpty, EmptyDatabase, Database
  <2>3. QED
    BY <2>2, SaveUndoesOnlyBehind
<1>3. CASE \E c \in Commands : CreateSave(c)
  <2>1. PICK c \in Commands : CreateSave(c)
    BY <1>3
  <2> DEFINE db == [loaded[c] EXCEPT ![job[c]] = "active"]
  <2>2. /\ Save(c, db) /\ c \in Procs /\ loaded[c] # None /\ loaded[c] \in Database
        /\ Unwritten(job[c]) /\ job[c] \in Tokens
    BY <2>1 DEF CreateSave, Procs, Openers, TypeInv, Held, TokenTypeOK, FileInv, OneCreator,
                Unwritten, Creating
  <2>3. db \in Database /\ \A u \in Tokens : u # job[c] => db[u] = loaded[c][u]
    BY <2>2 DEF Database
  <2>4. Content(file)[job[c]] = "absent"
    BY <2>2 DEF FileInv, UnwrittenAbsent
  <2>5. db[t] = loaded[c][t] \/ Content(file)[t] = "absent"
    BY <2>3, <2>4
  <2>6. QED
    BY <2>2, <2>3, <2>5, SaveUndoesOnlyBehind
<1>4. CASE \E c \in Commands : RevokeSave(c)
  <2>1. PICK c \in Commands : RevokeSave(c)
    BY <1>4
  <2> DEFINE db == [loaded[c] EXCEPT ![job[c]] = "revoked"]
  <2>2. Save(c, db) /\ c \in Procs /\ loaded[c] # None /\ loaded[c] \in Database
    BY <2>1 DEF RevokeSave, Procs, Openers, TypeInv, Held, TokenTypeOK
  <2>3. db \in Database /\ \A u \in Tokens : db[u] = loaded[c][u] \/ db[u] = "revoked"
    BY <2>2 DEF Database
  <2>4. QED
    BY <2>2, <2>3, SaveUndoesOnlyBehind
<1>5. CASE \E v \in Validations : TouchSave(v)
  <2>1. PICK v \in Validations : TouchSave(v)
    BY <1>5
  <2>2. Save(v, loaded[v]) /\ v \in Procs /\ loaded[v] # None /\ loaded[v] \in Database
    BY <2>1 DEF TouchSave, Touched, Procs, TypeInv, Held, TokenTypeOK
  <2>3. QED
    BY <2>2, SaveUndoesOnlyBehind
<1>6. QED
  BY <1>1, <1>2, <1>3, <1>4, <1>5
  DEF TokenNext, EnsureFound, EnsureMissing, CreateLoad, RevokeLoad, CommandFails,
      FrontendChanges, Tick, Restart, Validate, Hit, Miss, TouchNotNeeded, Renew, Find,
      FindFails, ReadClock, TouchLoad, TouchFails, Fill, Return, Load, GiveUp, Stays,
      store, tvars

\* Whatever the processes do, a new token or a revocation is taken back only by a
\* process that loaded the file before that change was written and writes it after:
\* one operation at a time, the store loses nothing (CreateToken, RevokeToken,
\* TouchLastUsed, Ensure).
THEOREM UndoneOnlyInOverlapHolds == TokenSpec => UndoneOnlyInOverlap
<1>1. TypeInv /\ FileInv /\ [TokenNext]_tvars =>
        [\A t \in Tokens : Undone(t) =>
           \E p \in Procs : loaded[p] # None /\ loaded'[p] = None /\ t \in behind[p]]_tvars
  BY UndoneStep
<1>2. QED
  BY <1>1, FileInductive, PTL DEF TokenSpec, UndoneOnlyInOverlap

-----------------------------------------------------------------------------
(***************************************************************************)
(* How stale an acceptance may be: a proof that the caches of the two      *)
(* validators let no token live longer than a cache entry, up to the       *)
(* duration of the validations involved, for any number of them.           *)
(*                                                                         *)
(* The inductive invariant AgeInv bounds, for every validation under way   *)
(* and for every cache entry, how long ago the source called its token     *)
(* active.  Renewals are what make it hard: an entry that was renewed has  *)
(* no such bound of its own.  It rests on the acceptance that follows the  *)
(* renewal or, until then, on the validation that renewed it and is still  *)
(* under way.  A second validation may use the entry in between, so what   *)
(* vouches for it may be another validation.                               *)
(*                                                                         *)
(* The theorem assumes that a validation takes no longer than a cache      *)
(* entry lives: only then is an entry that was written while a validation  *)
(* was under way as young as the one it found.                             *)
(***************************************************************************)


\* Active, or no longer than k ago; or, if entries are renewed, accepted k ago.
Alive(t, k) == Source[t] = "active" \/ dead[t] <= k
Renews == ~remote /\ touchEvery <= CacheTTL + MaxDelay
Backed(t, k) == Alive(t, k) \/ (Renews /\ accepted[t] <= k)

\* A validation that has renewed an entry and will accept the token.
Deadline(v) == CacheTTL + MaxDelay + since[v]
Renewer(v, t) ==
  token[v] = t /\ vpc[v] \in {"renewed", "resave"} /\ Backed(t, Deadline(v))
Renewing(t) == \E v \in Validations : Renewer(v, t)

\* What a validation under way relies on, by where it is.
Vouched(v) ==
  /\ Busy(v) => token[v] \in Tokens
  /\ vpc[v] \in {"found", "stamped", "save", "fill"} => Alive(token[v], since[v])
  /\ vpc[v] \in {"touch", "renewed", "resave"} =>
       Backed(token[v], Deadline(v)) \/ Renewing(token[v])
  /\ vpc[v] \in {"renewed", "resave"} => Renews
  /\ vpc[v] = "touch" =>
       /\ ~remote
       /\ cache[token[v]] # None => cache[token[v]] <= CacheTTL + since[v]
\* What a cache entry relies on.
EntryVouched(t) ==
  cache[t] # None =>
    \/ Alive(t, cache[t] + MaxDelay)
    \/ Renews /\ accepted[t] <= cache[t]
    \/ Renewing(t)

AgeInv ==
  /\ \A v \in Validations : Vouched(v)
  /\ \A t \in Tokens : EntryVouched(t)

-----------------------------------------------------------------------------
(* What keeps a token alive.                                               *)

\* Only time makes a token older: whatever else happens, it is no longer ago that
\* the source called it active.
LEMMA SaveKeepsAlive ==
  ASSUME TokenTypeOK, NEW p \in Procs, NEW db \in Database, Save(p, db), UNCHANGED remote,
         NEW t \in Tokens, NEW k \in Nat, Alive(t, k)
  PROVE  Alive(t, k)'
<1>1. Content(file') = db
  BY NoFileAssumption DEF Save, Content
<1>2. CASE remote
  BY <1>2 DEF Save, Alive, Source
<1>3. CASE ~remote
  <2>1. Source' = db
    BY <1>1, <1>3 DEF Source
  <2>2. dead'[t] = IF Source[t] = "active" /\ db[t] # "active" THEN 0 ELSE dead[t]
    BY <1>3 DEF Save, Dying
  <2>3. Alive(t, k)' <=> (db[t] = "active" \/ dead'[t] <= k)
    BY <2>1 DEF Alive
  <2>4. QED
    BY <2>2, <2>3 DEF Alive
<1>4. QED
  BY <1>2, <1>3

\* The same when nobody writes.
LEMMA StillKeepsAlive ==
  ASSUME UNCHANGED <<file, frontend, remote, dead>>, NEW t, NEW k, Alive(t, k)
  PROVE  Alive(t, k)'
BY DEF Alive, Source, Content

\* Ensure, CreateToken, RevokeToken ...
LEMMA OpenersKeepAlive ==
  ASSUME TypeInv, NEW t \in Tokens, NEW k \in Nat, Alive(t, k),
         \/ \E o \in Openers : EnsureFound(o) \/ EnsureMissing(o) \/ EnsureSave(o)
         \/ \E c \in Commands :
              \/ CreateLoad(c) \/ CreateSave(c) \/ RevokeLoad(c) \/ RevokeSave(c)
              \/ CommandFails(c)
  PROVE  Alive(t, k)'
<1> USE DEF TypeInv
<1>1. UNCHANGED remote
  BY DEF EnsureFound, EnsureMissing, EnsureSave, CreateLoad, CreateSave, RevokeLoad,
         RevokeSave, CommandFails, config
<1>2. CASE \E o \in Openers : EnsureSave(o)
  <2>1. PICK o \in Openers : EnsureSave(o)
    BY <1>2
  <2>2. o \in Procs /\ EmptyDatabase \in Database /\ Save(o, EmptyDatabase)
    BY <2>1 DEF EnsureSave, Procs, EmptyDatabase, Database
  <2>3. QED
    BY <1>1, <2>2, SaveKeepsAlive
<1>3. CASE \E c \in Commands : CreateSave(c) \/ RevokeSave(c)
  <2>1. PICK c \in Commands : CreateSave(c) \/ RevokeSave(c)
    BY <1>3
  <2>2. c \in Procs /\ loaded[c] \in Database
    BY <2>1 DEF CreateSave, RevokeSave, Procs, Openers, Held, TokenTypeOK
  <2>3. \E s \in {"active", "revoked"} : Save(c, [loaded[c] EXCEPT ![job[c]] = s])
    BY <2>1 DEF CreateSave, RevokeSave
  <2>4. PICK s \in {"active", "revoked"} : Save(c, [loaded[c] EXCEPT ![job[c]] = s])
    BY <2>3
  <2>5. [loaded[c] EXCEPT ![job[c]] = s] \in Database
    BY <2>2 DEF Database
  <2>6. QED
    BY <1>1, <2>2, <2>4, <2>5, SaveKeepsAlive
<1>4. CASE UNCHANGED <<file, frontend, dead>>
  BY <1>1, <1>4, StillKeepsAlive
<1>5. QED
  BY <1>2, <1>3, <1>4
  DEF EnsureFound, EnsureMissing, CreateLoad, RevokeLoad, CommandFails, Load, GiveUp, store

\* ... Validate, whose TouchLastUsed may even revive a token ...
LEMMA ValidateKeepsAlive ==
  ASSUME TypeInv, NEW v \in Validations, Validate(v),
         NEW t \in Tokens, NEW k \in Nat, Alive(t, k)
  PROVE  Alive(t, k)'
<1> USE DEF TypeInv
<1>1. CASE TouchSave(v)
  <2>1. Save(v, loaded[v]) /\ loaded[v] \in Database /\ v \in Procs /\ UNCHANGED remote
    BY <1>1 DEF TouchSave, Touched, Held, TokenTypeOK, Procs, Stays, config
  <2>2. QED
    BY <2>1, SaveKeepsAlive
<1>2. CASE UNCHANGED <<file, frontend, dead, remote>>
  BY <1>2, StillKeepsAlive
<1>3. QED
  BY <1>1, <1>2
  DEF Validate, Hit, Miss, TouchNotNeeded, Renew, Find, FindFails, ReadClock,
      TouchLoad, TouchFails, Fill, Return, Load, GiveUp, Stays, store, config

\* ... and the frontend.
LEMMA FrontendKeepsAlive ==
  ASSUME TokenTypeOK, FrontendChanges, NEW t \in Tokens, NEW k \in Nat, Alive(t, k)
  PROVE  Alive(t, k)'
<1>1. PICK u \in Tokens, s \in {"active", "revoked"} :
        frontend' = [frontend EXCEPT ![u] = s] /\ Dying(frontend')
  BY DEF FrontendChanges
<1>2. remote /\ UNCHANGED remote
  BY DEF FrontendChanges, Stays, config
<1>3. Source = frontend /\ Source' = frontend'
  BY <1>2 DEF Source
<1>4. /\ dead'[t] = IF frontend[t] = "active" /\ frontend'[t] # "active" THEN 0 ELSE dead[t]
      /\ Alive(t, k) <=> (frontend[t] = "active" \/ dead[t] <= k)
      /\ Alive(t, k)' <=> (frontend'[t] = "active" \/ dead'[t] <= k)
  BY <1>1, <1>3 DEF Alive, Dying
<1>5. QED
  BY <1>4

-----------------------------------------------------------------------------
(* Steps of a validation.                                                  *)

\* What a step of one validation leaves to the others.
LEMMA ValidateFrame ==
  ASSUME TypeInv, NEW v \in Validations, Validate(v)
  PROVE  /\ UNCHANGED <<touchEvery, remote, frontend>>
         /\ \A w \in Validations : w # v =>
              vpc'[w] = vpc[w] /\ token'[w] = token[w] /\ since'[w] = since[w]
         /\ \A t \in Tokens : accepted'[t] \in {accepted[t], 0}
         /\ vpc[v] \in {"renewed", "resave"} =>
              /\ token'[v] = token[v] /\ since'[v] = since[v]
              /\ \/ vpc'[v] \in {"renewed", "resave"}
                 \/ token[v] \in Tokens => accepted'[token[v]] = 0
<1> USE DEF TypeInv, Stays, config, store, Goto, Accept
<1>1. UNCHANGED <<touchEvery, remote, frontend>>
  BY DEF Validate, Hit, Miss, TouchNotNeeded, Renew, Find, FindFails, ReadClock,
         TouchLoad, TouchSave, TouchFails, Fill, Return, Load, Save, GiveUp
<1>2. \A w \in Validations : w # v =>
        vpc'[w] = vpc[w] /\ token'[w] = token[w] /\ since'[w] = since[w]
  BY DEF Validate, Hit, Miss, TouchNotNeeded, Renew, Find, FindFails, ReadClock,
         TouchLoad, TouchSave, TouchFails, Fill, Return, TokenTypeOK
<1>3. \A t \in Tokens : accepted'[t] \in {accepted[t], 0}
  BY DEF Validate, Hit, Miss, TouchNotNeeded, Renew, Find, FindFails, ReadClock,
         TouchLoad, TouchSave, TouchFails, Fill, Return, TokenTypeOK
<1>4. ASSUME vpc[v] \in {"renewed", "resave"}
      PROVE  /\ token'[v] = token[v] /\ since'[v] = since[v]
             /\ \/ vpc'[v] \in {"renewed", "resave"}
                \/ token[v] \in Tokens => accepted'[token[v]] = 0
  <2>1. TouchLoad(v) \/ TouchSave(v) \/ TouchFails(v)
    BY <1>4 DEF Validate, Hit, Miss, TouchNotNeeded, Renew, Find, FindFails, ReadClock,
                Fill, Return
  <2>2. CASE TouchLoad(v)
    BY <1>4, <2>2 DEF TouchLoad, TokenTypeOK
  <2>3. CASE TouchSave(v)
    BY <1>4, <2>3 DEF TouchSave, TokenTypeOK
  <2>4. CASE TouchFails(v)
    BY <1>4, <2>4 DEF TouchFails, TokenTypeOK
  <2>5. QED
    BY <2>1, <2>2, <2>3, <2>4
<1>5. QED
  BY <1>1, <1>2, <1>3, <1>4

\* Numbers the bounds below rest on.
LEMMA Bounds ==
  ASSUME TypeInv
  PROVE  /\ CacheTTL \in Nat /\ MaxDelay \in Nat
         /\ \A v \in Validations : since[v] \in 0..MaxDelay /\ Deadline(v) \in Nat
         /\ \A t \in Tokens : cache[t] # None => cache[t] \in Nat
         /\ \A t \in Tokens : dead[t] \in Nat /\ accepted[t] \in Nat
<1> USE DEF TypeInv, TokenTypeOK
<1>1. CacheTTL \in Nat /\ MaxDelay \in Nat
  BY TokenAssumption
<1>2. ASSUME NEW v \in Validations
      PROVE  since[v] \in 0..MaxDelay /\ Deadline(v) \in Nat
  <2>1. since[v] \in 0..MaxDelay
    OBVIOUS
  <2>2. QED
    BY <1>1, <2>1 DEF Deadline
<1>3. /\ \A t \in Tokens : cache[t] # None => cache[t] \in Nat
      /\ \A t \in Tokens : dead[t] \in Nat /\ accepted[t] \in Nat
  BY AgeFacts
<1>4. QED
  BY <1>1, <1>2, <1>3

\* A backing is kept by a step of a validation ...
LEMMA BackedStays ==
  ASSUME TypeInv, NEW v \in Validations, Validate(v),
         NEW t \in Tokens, NEW k \in Nat, Backed(t, k)
  PROVE  Backed(t, k)'
<1>1. accepted[t] \in Nat /\ accepted'[t] \in {accepted[t], 0}
  BY Bounds, ValidateFrame
<1>2. Renews' <=> Renews
  BY ValidateFrame DEF Renews
<1>3. CASE Alive(t, k)
  BY <1>3, ValidateKeepsAlive DEF Backed
<1>4. CASE Renews /\ accepted[t] <= k
  BY <1>1, <1>2, <1>4 DEF Backed
<1>5. QED
  BY <1>3, <1>4 DEF Backed

\* ... and one that renews an entry either goes on or accepts the token.
LEMMA RenewerStays ==
  ASSUME TypeInv, AgeInv, NEW v \in Validations, Validate(v),
         NEW t \in Tokens, Renewing(t)
  PROVE  Renewing(t)' \/ (Renews /\ accepted'[t] = 0)
<1>1. PICK u \in Validations : Renewer(u, t)
  BY DEF Renewing
<1>2. Renews
  BY <1>1 DEF Renewer, AgeInv, Vouched
<1>3. CASE vpc'[u] \in {"renewed", "resave"}
  <2>1. token'[u] = t /\ since'[u] = since[u]
    BY <1>1, ValidateFrame DEF Renewer
  <2>2. PICK k \in Nat : k = Deadline(u)
    BY Bounds
  <2>3. Backed(t, k)' /\ k = Deadline(u)'
    BY <1>1, <2>1, <2>2, BackedStays DEF Renewer, Deadline
  <2>4. Renewer(u, t)'
    BY <1>3, <2>1, <2>3 DEF Renewer, Backed, Alive
  <2>5. QED
    BY <2>4 DEF Renewing
<1>4. CASE vpc'[u] \notin {"renewed", "resave"}
  BY <1>1, <1>2, <1>4, ValidateFrame DEF Renewer
<1>5. QED
  BY <1>3, <1>4

\* The entries a validation writes are no older than one validation lasts.
LEMMA EntryWritten ==
  ASSUME TypeInv, NEW v \in Validations, Validate(v), NEW t \in Tokens
  PROVE  cache'[t] \in {cache[t], None} \cup 0..MaxDelay
<1> USE TokenAssumption
    DEF TypeInv, TokenTypeOK, Stays, config, store
<1>1. CASE \E u \in Tokens : Miss(v, u)
  BY <1>1 DEF Miss
<1>2. CASE Renew(v)
  BY <1>2 DEF Renew
<1>3. CASE Fill(v)
  BY <1>3 DEF Fill
<1>4. CASE UNCHANGED cache
  BY <1>4
<1>5. QED
  BY <1>1, <1>2, <1>3, <1>4
  DEF Validate, Hit, TouchNotNeeded, Find, FindFails, ReadClock,
      TouchLoad, TouchSave, TouchFails, Return

\* A step of one validation leaves vouched for whatever goes on validating: the others,
\* and itself once it has found the token in the store or in the cache ...
LEMMA StaysVouched ==
  ASSUME MaxDelay <= CacheTTL, TypeInv, AgeInv, NEW v \in Validations, Validate(v),
         NEW w \in Validations,
         token'[w] = token[w], since'[w] = since[w],
         Busy(w)' => Busy(w),
         vpc'[w] \in {"found", "stamped", "save", "fill"} =>
           vpc[w] \in {"found", "stamped", "save", "fill"},
         vpc'[w] \in {"touch", "renewed", "resave"} =>
           vpc[w] \in {"touch", "renewed", "resave"},
         vpc'[w] \in {"renewed", "resave"} => vpc[w] # "touch" \/ Renews,
         vpc'[w] = "touch" => vpc[w] = "touch"
  PROVE  Vouched(w)'
<1>1. UNCHANGED <<touchEvery, remote>>
  BY ValidateFrame
<1>2. Vouched(w)
  BY DEF AgeInv
<1>3. CASE ~Busy(w)'
  BY <1>3 DEF Vouched, Busy
<1>4. CASE Busy(w)'
  <2>1. PICK t \in Tokens : t = token[w]
    BY <1>2, <1>4 DEF Vouched
  <2>2. PICK s \in 0..MaxDelay, k \in Nat : s = since[w] /\ k = Deadline(w)
    BY Bounds
  <2>3. s = since'[w] /\ k = Deadline(w)' /\ t = token'[w] /\ s \in Nat
    BY <2>1, <2>2, Bounds DEF Deadline
  <2>4. vpc'[w] \in {"found", "stamped", "save", "fill"} => Alive(t, s)'
    BY <1>2, <2>1, <2>2, <2>3, ValidateKeepsAlive DEF Vouched, Alive
  <2>5. vpc'[w] \in {"touch", "renewed", "resave"} => Backed(t, k)' \/ Renewing(t)'
    <3>1. CASE Backed(t, k)
      BY <3>1, BackedStays
    <3>2. CASE Renewing(t)
      <4>1. Renewing(t)' \/ (Renews' /\ accepted'[t] = 0)
        BY <1>1, <3>2, RenewerStays DEF Renews
      <4>2. QED
        BY <4>1 DEF Backed
    <3>3. QED
      BY <1>2, <2>1, <2>2, <3>1, <3>2 DEF Vouched, Backed, Alive, Renewing
  <2>6. vpc'[w] \in {"renewed", "resave"} => Renews'
    BY <1>1, <1>2 DEF Vouched, Renews
  <2>7. vpc'[w] = "touch" => ~remote' /\ (cache'[t] # None => cache'[t] <= CacheTTL + s)
    BY <1>1, <1>2, <2>1, <2>2, <2>3, EntryWritten, Bounds DEF Vouched
  <2>8. QED
    BY <2>1, <2>3, <2>4, <2>5, <2>6, <2>7 DEF Vouched, Alive, Backed, Renewing
<1>5. QED
  BY <1>3, <1>4

\* ... and so the entries it does not write.
LEMMA EntryStays ==
  ASSUME TypeInv, AgeInv, NEW v \in Validations, Validate(v),
         NEW t \in Tokens, cache'[t] = cache[t]
  PROVE  EntryVouched(t)'
<1> SUFFICES ASSUME cache[t] # None PROVE EntryVouched(t)'
  BY DEF EntryVouched
<1>1. PICK a \in Nat : a = cache[t]
  BY Bounds
<1>2. a + MaxDelay \in Nat
  BY Bounds
<1>3. CASE Alive(t, a + MaxDelay)
  <2>1. Alive(t, a + MaxDelay)'
    BY <1>2, <1>3, ValidateKeepsAlive
  <2>2. QED
    BY <1>1, <2>1 DEF EntryVouched, Alive
<1>4. CASE Renews /\ accepted[t] <= a
  BY <1>1, <1>4, ValidateFrame, Bounds DEF EntryVouched, Renews
<1>5. CASE Renewing(t)
  <2>1. Renewing(t)' \/ (Renews' /\ accepted'[t] = 0)
    BY <1>5, RenewerStays, ValidateFrame DEF Renews
  <2>2. QED
    BY <1>1, <2>1 DEF EntryVouched, Renewing
<1>6. QED
  BY <1>1, <1>3, <1>4, <1>5 DEF AgeInv, EntryVouched, Alive

\* The validation that took the step is vouched for.
LEMMA SelfVouched ==
  ASSUME MaxDelay <= CacheTTL, TypeInv, AgeInv, NEW v \in Validations, Validate(v)
  PROVE  Vouched(v)'
<1> USE DEF TypeInv, TokenTypeOK, Goto, Accept, Stays, config
<1>1. ASSUME NEW t \in Tokens, Hit(v, t)
      PROVE  Vouched(v)'
  <2>1. CASE remote
    BY <1>1, <2>1 DEF Hit, Vouched, Busy
  <2>2. CASE ~remote
    <3>1. /\ vpc'[v] = "touch" /\ token'[v] = t /\ since'[v] = 0
          /\ cache[t] # None /\ cache[t] <= CacheTTL
          /\ UNCHANGED <<cache, remote, touchEvery>>
      BY <1>1, <2>2 DEF Hit, Fresh
    <3>2. PICK k \in Nat : k = CacheTTL + MaxDelay
      BY Bounds
    <3>3. Backed(t, k) \/ Renewing(t)
      <4>1. EntryVouched(t)
        BY DEF AgeInv
      <4>2. QED
        BY <3>1, <3>2, <4>1, Bounds DEF EntryVouched, Backed, Alive
    <3>4. Backed(t, k)' \/ Renewing(t)'
      <4>1. CASE Backed(t, k)
        BY <4>1, BackedStays
      <4>2. CASE Renewing(t)
        BY <3>1, <4>2, RenewerStays DEF Renews, Backed
      <4>3. QED
        BY <3>3, <4>1, <4>2
    <3>5. Deadline(v)' = k
      BY <3>1, <3>2, Bounds DEF Deadline
    <3>6. QED
      BY <2>2, <3>1, <3>4, <3>5, Bounds DEF Vouched, Backed, Alive, Renewing
  <2>3. QED
    BY <2>1, <2>2
<1>2. ASSUME NEW t \in Tokens, Miss(v, t)
      PROVE  Vouched(v)'
  BY <1>2 DEF Miss, Vouched
<1>3. CASE Renew(v)
  <2>1. Renews
    <3>1. /\ vpc[v] = "touch" /\ token[v] \in Tokens /\ Vouched(v)
          /\ cache[token[v]] # None /\ cache[token[v]] >= touchEvery
      BY <1>3 DEF Renew, Due, AgeInv, Vouched, Busy
    <3>2. ~remote /\ cache[token[v]] <= CacheTTL + since[v]
      BY <3>1 DEF Vouched
    <3>3. touchEvery \in Nat
      BY TokenAssumption
    <3>4. QED
      BY <3>1, <3>2, <3>3, Bounds DEF Renews
  <2>2. /\ vpc[v] = "touch" /\ vpc'[v] = "renewed"
        /\ token'[v] = token[v] /\ since'[v] = since[v]
    BY <1>3 DEF Renew
  <2>3. QED
    BY <2>1, <2>2, StaysVouched DEF Busy
<1>4. CASE Find(v)
  <2>1. /\ vpc[v] = "find" /\ token'[v] = token[v] /\ since'[v] = since[v]
        /\ UNCHANGED <<file, frontend, dead, remote>>
        /\ \/ vpc'[v] = "refused"
           \/ vpc'[v] \in {"fill", "found"} /\ Source[token[v]] = "active"
    <3>1. CASE Source[token[v]] = "active"
      BY <1>4, <3>1 DEF Find, store
    <3>2. CASE Source[token[v]] # "active"
      BY <1>4, <3>2 DEF Find, store
    <3>3. QED
      BY <3>1, <3>2
  <2>2. token[v] \in Tokens
    BY <2>1 DEF AgeInv, Vouched, Busy
  <2>3. Source' = Source
    BY <2>1 DEF Source, Content
  <2>4. QED
    BY <2>1, <2>2, <2>3 DEF Vouched, Alive, Busy
<1>5. CASE ReadClock(v)
  <2>1. /\ vpc[v] = "found" /\ vpc'[v] = "stamped"
        /\ token'[v] = token[v] /\ since'[v] = since[v]
    BY <1>5 DEF ReadClock
  <2>2. QED
    BY <2>1, StaysVouched DEF Busy
<1>6. CASE TouchLoad(v)
  <2>1. /\ \/ vpc[v] = "stamped" /\ vpc'[v] = "save"
           \/ vpc[v] = "renewed" /\ vpc'[v] = "resave"
        /\ token'[v] = token[v] /\ since'[v] = since[v]
    BY <1>6 DEF TouchLoad
  <2>2. QED
    BY <2>1, StaysVouched DEF Busy
<1>7. CASE TouchSave(v)
  <2>1. /\ \/ vpc[v] = "save" /\ vpc'[v] = "fill"
           \/ vpc[v] = "resave" /\ vpc'[v] = "accepted"
        /\ token'[v] = token[v] /\ since'[v] = since[v]
    BY <1>7 DEF TouchSave
  <2>2. QED
    BY <2>1, StaysVouched DEF Busy
<1>8. CASE vpc'[v] \in {"idle", "accepted", "refused", "error"}
  BY <1>8 DEF Vouched, Busy
<1>9. QED
  BY <1>1, <1>2, <1>3, <1>4, <1>5, <1>6, <1>7, <1>8
  DEF Validate, TouchNotNeeded, FindFails, TouchFails, Fill, Return

\* The entries it writes are vouched for.
LEMMA EntriesVouched ==
  ASSUME MaxDelay <= CacheTTL, TypeInv, AgeInv, NEW v \in Validations, Validate(v),
         NEW t \in Tokens
  PROVE  EntryVouched(t)'
<1> USE DEF TypeInv, TokenTypeOK, Goto, Accept, Stays, config
<1>1. CASE cache'[t] \in {cache[t], None}
  BY <1>1, EntryStays DEF EntryVouched
<1>2. CASE Renew(v) /\ token[v] = t
  <2>1. /\ cache'[t] = 0 /\ vpc[v] = "touch"
        /\ vpc'[v] = "renewed" /\ token'[v] = t /\ since'[v] = since[v]
    BY <1>2 DEF Renew
  <2>2. Vouched(v) /\ Vouched(v)'
    BY <1>2, SelfVouched DEF AgeInv
  <2>3. Backed(t, Deadline(v))' \/ Renewing(t)'
    BY <2>1, <2>2 DEF Vouched
  <2>4. Renewing(t)'
    BY <2>1, <2>3 DEF Renewing, Renewer
  <2>5. QED
    BY <2>4 DEF EntryVouched
<1>3. CASE Fill(v) /\ token[v] = t
  <2>1. vpc[v] = "fill" /\ cache'[t] \in Nat
    BY <1>3, Bounds DEF Fill
  <2>2. PICK s \in 0..MaxDelay, k \in Nat : s = since[v] /\ k = cache'[t] + MaxDelay
    BY <2>1, Bounds
  <2>3. Alive(t, s)
    BY <1>3, <2>1, <2>2 DEF AgeInv, Vouched
  <2>4. s <= k /\ dead[t] \in Nat /\ s \in Nat
    BY <2>1, <2>2, Bounds
  <2>5. Alive(t, k)
    BY <2>3, <2>4 DEF Alive
  <2>6. Alive(t, k)'
    BY <2>4, <2>5, ValidateKeepsAlive
  <2>7. QED
    BY <2>2, <2>6, Bounds DEF EntryVouched, Alive
<1>4. QED
  BY <1>1, <1>2, <1>3
  DEF Validate, Hit, Miss, TouchNotNeeded, Renew, Find, FindFails, ReadClock,
      TouchLoad, TouchSave, TouchFails, Fill, Return

\* Together: Validate keeps the invariant.
LEMMA ValidateKeepsAges ==
  ASSUME MaxDelay <= CacheTTL, TypeInv, AgeInv, NEW v \in Validations, Validate(v)
  PROVE  AgeInv'
<1>1. ASSUME NEW w \in Validations
      PROVE  Vouched(w)'
  <2>1. CASE w = v
    BY <2>1, SelfVouched
  <2>2. CASE w # v
    BY <2>2, ValidateFrame, StaysVouched DEF Busy
  <2>3. QED
    BY <2>1, <2>2
<1>2. QED
  BY <1>1, EntriesVouched DEF AgeInv

-----------------------------------------------------------------------------
(* Steps of the others, and of time.                                       *)

\* Other processes change what the source says, and that keeps every bound.
LEMMA OthersKeepAges ==
  ASSUME TypeInv, AgeInv,
         UNCHANGED <<vpc, token, since, cache, accepted, touchEvery, remote>>,
         \A t \in Tokens, k \in Nat : Alive(t, k) => Alive(t, k)'
  PROVE  AgeInv'
<1>1. Renews' <=> Renews
  BY DEF Renews
<1>2. \A t \in Tokens, k \in Nat : Backed(t, k) => Backed(t, k)'
  BY <1>1 DEF Backed
<1>3. ASSUME NEW t \in Tokens, Renewing(t)
      PROVE  Renewing(t)'
  <2>1. PICK u \in Validations : Renewer(u, t)
    BY <1>3 DEF Renewing
  <2>2. PICK k \in Nat : k = Deadline(u) /\ k = Deadline(u)'
    BY Bounds DEF Deadline
  <2>3. Backed(t, k)'
    BY <1>2, <2>1, <2>2 DEF Renewer
  <2>4. Renewer(u, t)'
    BY <2>1, <2>2, <2>3 DEF Renewer, Backed, Alive
  <2>5. QED
    BY <2>4 DEF Renewing
<1>4. ASSUME NEW w \in Validations
      PROVE  Vouched(w)'
  <2>1. Vouched(w)
    BY DEF AgeInv
  <2>2. CASE ~Busy(w)
    BY <2>2 DEF Vouched, Busy
  <2>3. CASE Busy(w)
    <3>1. PICK t \in Tokens : t = token[w] /\ t = token'[w]
      BY <2>1, <2>3 DEF Vouched
    <3>2. PICK s \in Nat, k \in Nat : /\ s = since[w] /\ s = since'[w]
                                      /\ k = Deadline(w) /\ k = Deadline(w)'
      BY Bounds DEF Deadline
    <3>3. vpc[w] \in {"found", "stamped", "save", "fill"} => Alive(t, s)'
      BY <2>1, <3>1, <3>2 DEF Vouched
    <3>4. vpc[w] \in {"touch", "renewed", "resave"} => Backed(t, k)' \/ Renewing(t)'
      BY <1>2, <1>3, <2>1, <3>1, <3>2 DEF Vouched
    <3>5. QED
      BY <1>1, <2>1, <3>1, <3>2, <3>3, <3>4 DEF Vouched, Alive, Backed, Renewing, Busy
  <2>4. QED
    BY <2>2, <2>3
<1>5. ASSUME NEW t \in Tokens
      PROVE  EntryVouched(t)'
  <2> SUFFICES ASSUME cache[t] # None PROVE EntryVouched(t)'
    BY DEF EntryVouched
  <2>1. PICK k \in Nat : k = cache[t] + MaxDelay /\ k = cache'[t] + MaxDelay
    BY Bounds
  <2>2. Alive(t, k) => Alive(t, k)'
    OBVIOUS
  <2>3. QED
    BY <1>1, <1>3, <2>1, <2>2 DEF AgeInv, EntryVouched, Alive, Renewing
<1>6. QED
  BY <1>4, <1>5 DEF AgeInv

\* When time passes, every bound grows with the age it bounds.
LEMMA TickKeepsAges ==
  ASSUME TypeInv, AgeInv, Tick
  PROVE  AgeInv'
<1>1. UNCHANGED <<file, frontend, vpc, token, touchEvery, remote>>
  BY DEF Tick, Stays, config
<1>2. /\ \A a \in Ages : Older(a) \in Ages /\ Older(a) <= a + 1
      /\ \A a \in Ages : a <= MaxAge
      /\ Ages \subseteq Nat /\ MaxAge \in Nat /\ MaxDelay \in Nat /\ CacheTTL \in Nat
  BY TokenAssumption DEF Ages, Older, MaxAge, Tolerance
<1>3. \A t \in Tokens : dead[t] \in Ages /\ accepted[t] \in Ages
  BY DEF TypeInv, TokenTypeOK
<1>4. \A t \in Tokens :
        /\ dead'[t] = IF Source[t] = "active" THEN dead[t] ELSE Older(dead[t])
        /\ accepted'[t] = Older(accepted[t])
        /\ cache'[t] = IF cache[t] = None THEN None ELSE Older(cache[t])
  BY DEF Tick
<1>5. Source' = Source /\ (Renews' <=> Renews)
  BY <1>1 DEF Source, Content, Renews
<1>6. ASSUME NEW t \in Tokens, NEW k \in Nat
      PROVE  /\ Alive(t, k) => Alive(t, k + 1)'
             /\ Backed(t, k) => Backed(t, k + 1)'
  <2>1. /\ dead[t] \in Nat /\ dead'[t] \in Nat /\ dead'[t] <= dead[t] + 1
        /\ accepted[t] \in Nat /\ accepted'[t] \in Nat /\ accepted'[t] <= accepted[t] + 1
    <3>1. /\ dead[t] \in Nat /\ Older(dead[t]) \in Nat /\ Older(dead[t]) <= dead[t] + 1
          /\ accepted[t] \in Nat /\ Older(accepted[t]) \in Nat
          /\ Older(accepted[t]) <= accepted[t] + 1
      BY <1>2, <1>3
    <3>2. dead[t] <= dead[t] + 1
      BY <3>1
    <3>3. QED
      BY <1>4, <3>1, <3>2
  <2>2. Alive(t, k) => Alive(t, k + 1)'
    BY <1>5, <2>1 DEF Alive
  <2>3. Renews /\ accepted[t] <= k => (Renews' /\ accepted'[t] <= k + 1)
    BY <1>5, <2>1
  <2>4. QED
    BY <2>2, <2>3 DEF Backed
<1>7. ASSUME NEW v \in Validations, Busy(v)
      PROVE  /\ since'[v] = since[v] + 1 /\ since[v] \in Nat /\ Deadline(v) \in Nat
             /\ Deadline(v)' = Deadline(v) + 1
  <2>1. since'[v] = since[v] + 1
    BY <1>7 DEF Tick
  <2>2. since[v] \in Nat /\ Deadline(v) \in Nat
    BY Bounds
  <2>3. QED
    BY <1>2, <2>1, <2>2 DEF Deadline
<1>8. ASSUME NEW t \in Tokens, Renewing(t)
      PROVE  Renewing(t)'
  <2>1. PICK u \in Validations : Renewer(u, t)
    BY <1>8 DEF Renewing
  <2>2. Busy(u)
    BY <2>1 DEF Renewer, Busy
  <2>3. PICK k \in Nat : k = Deadline(u) /\ k + 1 = Deadline(u)'
    BY <1>7, <2>2
  <2>4. Backed(t, k + 1)'
    BY <1>6, <2>1, <2>3 DEF Renewer
  <2>5. Renewer(u, t)'
    BY <1>1, <2>1, <2>3, <2>4 DEF Renewer, Backed, Alive
  <2>6. QED
    BY <2>5 DEF Renewing
<1>9. ASSUME NEW w \in Validations
      PROVE  Vouched(w)'
  <2>1. Vouched(w)
    BY DEF AgeInv
  <2>2. CASE ~Busy(w)
    BY <1>1, <2>2 DEF Vouched, Busy
  <2>3. CASE Busy(w)
    <3>1. PICK t \in Tokens : t = token[w] /\ t = token'[w]
      BY <1>1, <2>1, <2>3 DEF Vouched
    <3>2. PICK s \in Nat, k \in Nat : /\ s = since[w] /\ s + 1 = since'[w]
                                      /\ k = Deadline(w) /\ k + 1 = Deadline(w)'
      BY <1>7, <2>3
    <3>3. vpc[w] \in {"found", "stamped", "save", "fill"} => Alive(t, s + 1)'
      BY <1>6, <2>1, <3>1, <3>2 DEF Vouched
    <3>4. vpc[w] \in {"touch", "renewed", "resave"} => Backed(t, k + 1)' \/ Renewing(t)'
      BY <1>6, <1>8, <2>1, <3>1, <3>2 DEF Vouched
    <3>5. vpc[w] = "touch" => ~remote /\ (cache'[t] # None => cache'[t] <= CacheTTL + (s + 1))
      <4>1. cache[t] # None => cache[t] \in Ages
        BY DEF TypeInv, TokenTypeOK
      <4>2. cache[t] # None =>
              /\ cache[t] \in Nat /\ Older(cache[t]) \in Nat
              /\ Older(cache[t]) <= cache[t] + 1
        BY <1>2, <4>1
      <4>3. vpc[w] = "touch" => ~remote /\ (cache[t] # None => cache[t] <= CacheTTL + s)
        BY <2>1, <3>1, <3>2 DEF Vouched
      <4>4. cache'[t] = IF cache[t] = None THEN None ELSE Older(cache[t])
        BY <1>4
      <4>5. QED
        BY <1>2, <3>2, <4>2, <4>3, <4>4
    <3>6. QED
      BY <1>1, <1>5, <2>1, <3>1, <3>2, <3>3, <3>4, <3>5
      DEF Vouched, Alive, Backed, Renewing, Busy
  <2>4. QED
    BY <2>2, <2>3
<1>10. ASSUME NEW t \in Tokens
       PROVE  EntryVouched(t)'
  <2> SUFFICES ASSUME cache[t] # None PROVE EntryVouched(t)'
    BY <1>4 DEF EntryVouched
  <2>1. cache[t] \in Ages /\ cache'[t] = Older(cache[t])
    BY <1>4 DEF TypeInv, TokenTypeOK
  <2>2. EntryVouched(t)
    BY DEF AgeInv
  <2>3. Older(cache[t]) = cache[t] + 1 \/ Older(cache[t]) = MaxAge
    BY <1>2, <2>1 DEF Older, Ages
  <2>4. dead'[t] \in Ages /\ accepted'[t] \in Ages
    BY <1>2, <1>3, <1>4
  <2>5. CASE Older(cache[t]) = MaxAge
    <3>1. dead'[t] \in Nat /\ dead'[t] <= MaxAge
      BY <1>2, <2>4
    <3>2. dead'[t] <= cache'[t] + MaxDelay
      BY <1>2, <2>1, <2>5, <3>1
    <3>3. QED
      BY <1>2, <3>2 DEF EntryVouched, Alive
  <2>6. CASE Older(cache[t]) = cache[t] + 1
    <3>1. cache[t] \in Nat /\ cache'[t] = cache[t] + 1
      BY <1>2, <2>1, <2>6
    <3>2. PICK k \in Nat : k = cache[t] + MaxDelay /\ k + 1 = cache'[t] + MaxDelay
      <4>1. cache[t] + MaxDelay \in Nat /\ (cache[t] + MaxDelay) + 1 = cache'[t] + MaxDelay
        BY <1>2, <3>1
      <4>2. QED
        BY <4>1
    <3>3. Alive(t, k) => Alive(t, k + 1)'
      BY <1>6
    <3>4. accepted[t] <= cache[t] => accepted'[t] <= cache'[t]
      <4>1. /\ accepted[t] \in Nat /\ Older(accepted[t]) \in Nat
            /\ Older(accepted[t]) <= accepted[t] + 1
        BY <1>2, <1>3
      <4>2. accepted'[t] = Older(accepted[t])
        BY <1>4
      <4>3. QED
        BY <3>1, <4>1, <4>2
    <3>5. QED
      BY <1>5, <1>8, <2>2, <3>2, <3>3, <3>4 DEF EntryVouched, Alive, Renewing
  <2>7. QED
    BY <2>3, <2>5, <2>6
<1>11. QED
  BY <1>9, <1>10 DEF AgeInv

-----------------------------------------------------------------------------
(* The theorem.                                                            *)

\* At first nothing is validated and nothing is cached.
LEMMA InitAges == TokenInit => AgeInv
BY DEF TokenInit, AgeInv, Vouched, EntryVouched, Busy

\* Every step of every process keeps the invariant.
LEMMA NextAges ==
  ASSUME MaxDelay <= CacheTTL
  PROVE  TypeInv /\ AgeInv /\ [TokenNext]_tvars => AgeInv'
<1> SUFFICES ASSUME TypeInv, AgeInv, [TokenNext]_tvars PROVE AgeInv'
  OBVIOUS
<1>1. CASE \/ \E o \in Openers : EnsureFound(o) \/ EnsureMissing(o) \/ EnsureSave(o)
           \/ \E c \in Commands :
                \/ CreateLoad(c) \/ CreateSave(c) \/ RevokeLoad(c) \/ RevokeSave(c)
                \/ CommandFails(c)
  <2>1. UNCHANGED <<vpc, token, since, cache, accepted, touchEvery, remote>>
    BY <1>1 DEF EnsureFound, EnsureMissing, EnsureSave, CreateLoad, CreateSave,
                RevokeLoad, RevokeSave, CommandFails, daemon, config
  <2>2. \A t \in Tokens, k \in Nat : Alive(t, k) => Alive(t, k)'
    BY <1>1, OpenersKeepAlive
  <2>3. QED
    BY <2>1, <2>2, OthersKeepAges
<1>2. CASE FrontendChanges
  <2>1. UNCHANGED <<vpc, token, since, cache, accepted, touchEvery, remote>>
    BY <1>2 DEF FrontendChanges, daemon, config, Stays
  <2>2. \A t \in Tokens, k \in Nat : Alive(t, k) => Alive(t, k)'
    BY <1>2, FrontendKeepsAlive DEF TypeInv
  <2>3. QED
    BY <2>1, <2>2, OthersKeepAges
<1>3. CASE \E v \in Validations : Validate(v)
  BY <1>3, ValidateKeepsAges
<1>4. CASE Tick
  BY <1>4, TickKeepsAges
<1>5. CASE Restart
  BY <1>5 DEF Restart, AgeInv, Vouched, EntryVouched, Busy
<1>6. CASE UNCHANGED tvars
  <2>1. UNCHANGED <<vpc, token, since, cache, accepted, touchEvery, remote>>
    BY <1>6 DEF tvars, daemon, config
  <2>2. \A t \in Tokens, k \in Nat : Alive(t, k) => Alive(t, k)'
    BY <1>6, StillKeepsAlive DEF tvars, store, config
  <2>3. QED
    BY <2>1, <2>2, OthersKeepAges
<1>7. QED
  BY <1>1, <1>2, <1>3, <1>4, <1>5, <1>6 DEF TokenNext

\* A step that accepts a token is one of a validation that is vouched for.
LEMMA AcceptStep ==
  ASSUME TypeInv, AgeInv, [TokenNext]_tvars,
         NEW v \in Validations, vpc[v] # "accepted", vpc'[v] = "accepted"
  PROVE  \/ Source[token'[v]] = "active"
         \/ dead[token'[v]] <= Tolerance
         \/ ~remote /\ touchEvery <= CacheTTL + MaxDelay /\ accepted[token'[v]] <= Tolerance
<1> USE DEF TypeInv, TokenTypeOK, Goto, Accept, Stays, config
<1>1. Validate(v)
  <2>1. PICK w \in Validations : Validate(w)
    BY DEF TokenNext, tvars, daemon, EnsureFound, EnsureMissing, EnsureSave, CreateLoad,
           CreateSave, RevokeLoad, RevokeSave, CommandFails, FrontendChanges, Tick, Restart
  <2>2. v = w
    BY <2>1, ValidateFrame
  <2>3. QED
    BY <2>1, <2>2
<1>2. SUFFICES \E t \in Tokens : t = token'[v] /\ Backed(t, Tolerance)
  BY DEF Backed, Alive, Renews
<1>3. Tolerance = CacheTTL + MaxDelay + MaxDelay /\ Tolerance \in Nat
  BY Bounds DEF Tolerance
<1>4. ASSUME NEW t \in Tokens, NEW k \in Nat, k <= Tolerance, Backed(t, k)
      PROVE  Backed(t, Tolerance)
  BY <1>3, <1>4, Bounds DEF Backed, Alive
<1>5. ASSUME NEW u \in Validations
      PROVE  Deadline(u) \in Nat /\ Deadline(u) <= Tolerance
  BY <1>3, Bounds DEF Deadline
<1>6. ASSUME NEW t \in Tokens, Renewing(t)
      PROVE  Renews /\ Backed(t, Tolerance)
  <2>1. PICK u \in Validations : Renewer(u, t)
    BY <1>6 DEF Renewing
  <2>2. Backed(t, Tolerance)
    BY <1>4, <1>5, <2>1 DEF Renewer
  <2>3. Renews
    BY <2>1 DEF Renewer, AgeInv, Vouched
  <2>4. QED
    BY <2>2, <2>3
<1>7. ASSUME NEW t \in Tokens, Hit(v, t)
      PROVE  t = token'[v] /\ Backed(t, Tolerance)
  <2>1. /\ remote /\ t = token'[v] /\ cache[t] # None /\ cache[t] <= CacheTTL
    BY <1>7 DEF Hit, Fresh
  <2>2. Alive(t, cache[t] + MaxDelay)
    BY <1>6, <2>1 DEF AgeInv, EntryVouched, Renews
  <2>3. cache[t] + MaxDelay \in Nat /\ cache[t] + MaxDelay <= Tolerance
    BY <1>3, <2>1, Bounds
  <2>4. QED
    BY <1>4, <2>1, <2>2, <2>3 DEF Backed
<1>8. CASE vpc[v] \in {"touch", "renewed", "resave"} /\ token'[v] = token[v]
  <2>1. token[v] \in Tokens /\ (Backed(token[v], Deadline(v)) \/ Renewing(token[v]))
    BY <1>8 DEF AgeInv, Vouched, Busy
  <2>2. QED
    BY <1>4, <1>5, <1>6, <1>8, <2>1
<1>9. CASE vpc[v] = "fill" /\ token'[v] = token[v]
  <2>1. token[v] \in Tokens /\ Alive(token[v], since[v])
    BY <1>9 DEF AgeInv, Vouched, Busy
  <2>2. since[v] \in Nat /\ since[v] <= Tolerance
    BY <1>3, Bounds
  <2>3. QED
    BY <1>4, <1>9, <2>1, <2>2 DEF Backed
<1>10. QED
  BY <1>1, <1>7, <1>8, <1>9
  DEF Validate, Miss, TouchNotNeeded, Renew, Find, FindFails, ReadClock,
      TouchLoad, TouchSave, TouchFails, Fill, Return

\* A token is accepted only if its source called it active within the lifetime of a
\* cache entry and twice the duration of a validation, or, when touchEvery is so short
\* that used entries are renewed, if it was accepted within that time
\* (Validator.Validate, touchIfNeeded, RemoteValidator.Validate).
THEOREM AcceptedWasActiveHolds ==
  ASSUME MaxDelay <= CacheTTL
  PROVE  TokenSpec => AcceptedWasActive
<1>1. TypeInv /\ AgeInv /\ [TokenNext]_tvars =>
        [\A v \in Validations : vpc[v] # "accepted" /\ vpc'[v] = "accepted" =>
           LET t == token'[v] IN
             \/ Source[t] = "active"
             \/ dead[t] <= Tolerance
             \/ ~remote /\ touchEvery <= CacheTTL + MaxDelay /\ accepted[t] <= Tolerance]_tvars
  BY AcceptStep
<1>2. TypeInv /\ AgeInv /\ [TokenNext]_tvars => AgeInv'
  BY NextAges
<1>3. QED
  BY <1>1, <1>2, InitAges, FileInductive, PTL DEF TokenSpec, AcceptedWasActive
=============================================================================
