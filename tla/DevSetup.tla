-------------------------------- MODULE DevSetup --------------------------------
(***************************************************************************)
(* The development setup of an Entry.  .dev/setup installs the tools that  *)
(* the settings ask for and exports their environment as two scripts and a *)
(* document; a provider state says whether the export is ready, for which  *)
(* inputs and by which publication.  A change of the settings makes it     *)
(* unavailable, and .dev/setup/check tells a dependent command whether it  *)
(* may use it.  Three locks: one setup at a time, one change of the        *)
(* settings at a time, and the provider state.                             *)
(*                                                                         *)
(* Settings are a tool's version and the spelling of a value that the      *)
(* input revision ignores.  A file is the publication token it was         *)
(* written for.  Tokens are random identifiers, of which only equality is  *)
(* used: a new one is any that nothing holds any more.                     *)
(***************************************************************************)
EXTENDS Naturals, FiniteSets

CONSTANTS Setups, Checkers,           \* processes
          VersionEditors, SpellingEditors,  \* processes that change that setting
          Casts,       \* bound: which processes take part together
          Versions,    \* inputs of a setup
          Spellings,   \* what the input revision ignores
          Tokens,      \* publication tokens
          FaultCases,  \* the faults that may happen: "crash", "io", "install"
          FaultyCast,  \* bound: how many take part at most when faults may happen
          Nobody, Missing

Editors == VersionEditors \cup SpellingEditors
Actors == Setups \cup Editors \cup Checkers

ASSUME CastsAssumption == Casts \subseteq SUBSET Actors
\* A process does one thing.
ASSUME KindAssumption ==
  /\ Setups \cap Editors = {} /\ Setups \cap Checkers = {} /\ Editors \cap Checkers = {}
ASSUME NobodyAssumption == Nobody \notin Actors /\ Missing \notin Tokens
\* Random tokens do not run out: there are more than can be held at a time.
ASSUME TokensAssumption ==
  /\ IsFiniteSet(Actors) /\ IsFiniteSet(Tokens)
  /\ Cardinality(Tokens) > 2 * Cardinality(Actors) + 1

VARIABLES faults,     \* the faults that may still happen
          cast,       \* the processes of this behaviour
          settings,   \* the settings document
          state,      \* the provider state
          file,       \* the exported files
          lock,       \* the three locks
          op          \* what each process does

vars == <<faults, cast, settings, state, file, lock, op>>

Addresses == {"version", "spelling"}
Settings == [version: Versions, spelling: Spellings]
Files == {"cmd", "ps1", "export"}
Locks == {"setup", "settings", "state"}

\* The revision of what a setup depends on.
InputRevision(s) == s.version

Provider(status, input, token) == [status |-> status, input |-> input, token |-> token]
Unset == Provider("missing", Missing, Missing)
States == {Unset} \cup [status: {"unavailable", "ready"}, input: Versions, token: Tokens]

NoOp == [pc |-> "idle", read |-> Missing, next |-> Missing, before |-> Unset,
         token |-> Missing]

SetupSteps == {"setup lock", "current", "start", "install",
               "cmd", "ps1", "export", "compare", "complete"}
EditSteps == {"change", "invalidate", "publish", "restore", "drop"}
CheckSteps == {"before", "document", "env.cmd", "env.ps1", "after", "ready"}
StepsOf(a) == IF a \in Setups THEN SetupSteps
              ELSE IF a \in Editors THEN EditSteps ELSE CheckSteps

Operations == [pc: {"idle"} \cup SetupSteps \cup EditSteps \cup CheckSteps,
               read: {Missing} \cup Settings \cup Versions,
               next: {Missing} \cup Settings,
               before: States, token: {Missing} \cup Tokens]

TypeOK ==
  /\ faults \subseteq UNION FaultCases
  /\ cast \in Casts
  /\ settings \in Settings
  /\ state \in States
  /\ file \in [Files -> Tokens \cup {Missing}]
  /\ lock \in [Locks -> Actors \cup {Nobody}]
  /\ op \in [Actors -> Operations]
  /\ \A a \in Actors :
       /\ op[a].pc \in {"idle"} \cup StepsOf(a)
       /\ op[a].read \in {Missing} \cup IF a \in Editors THEN Settings ELSE Versions

FirstToken == CHOOSE t \in Tokens : TRUE

\* Nothing was set up yet, or an earlier setup was completed.
Init ==
  /\ cast \in Casts
  /\ faults \in FaultCases
  /\ faults # {} => Cardinality(cast) <= FaultyCast
  /\ settings \in Settings
  /\ \/ state = Unset /\ file = [f \in Files |-> Missing]
     \/ /\ state = Provider("ready", InputRevision(settings), FirstToken)
        /\ file = [f \in Files |-> FirstToken]
  /\ lock = [l \in Locks |-> Nobody]
  /\ op = [a \in Actors |-> NoOp]

At(a, l) == a \in cast /\ op[a].pc = l
Goto(a, l) == op' = [op EXCEPT ![a].pc = l]

\* fresh_token.  A file of a publication that nothing refers to any more is as
\* good as missing, and counted as such when a token is made.
Held == {state.token} \cup UNION {{op[a].token, op[a].before.token} : a \in Actors}
Fresh == CHOOSE t \in Tokens : t \notin Held
Remembered == [f \in Files |-> IF file[f] \in Held THEN file[f] ELSE Missing]

\* The command ends, and its locks are released.
Return(a) ==
  /\ op' = [op EXCEPT ![a] = NoOp]
  /\ lock' = [l \in Locks |-> IF lock[l] = a THEN Nobody ELSE lock[l]]

Fails(a, fault) == fault \in faults /\ Return(a)

Hold(a, l) == lock' = [lock EXCEPT ![l] = a]

\* The lock a process waits for.
Awaits(a) ==
  CASE op[a].pc = "setup lock" -> "setup"
    [] op[a].pc = "change" -> "settings"
    [] op[a].pc \in {"current", "compare", "invalidate"} -> "state"
    [] OTHER -> "none"

Free(a) == Awaits(a) # "none" /\ lock[Awaits(a)] = Nobody

\* ExclusiveFileLock::acquire waits for a limited time.
LockTimeout(a) ==
  /\ a \in cast /\ Awaits(a) # "none" /\ ~Free(a)
  /\ Return(a)
  /\ UNCHANGED <<faults, cast, settings, state, file>>

Release(l) == lock' = [lock EXCEPT ![l] = Nobody]
-----------------------------------------------------------------------------
(***************************************************************************)
(* .dev/setup.  The settings are read when the command starts.  start      *)
(* checks under the state lock that they are still the current ones and    *)
(* publishes a new token; complete makes the state ready if it still holds *)
(* that token.                                                             *)
(***************************************************************************)
Setup(s) ==
  /\ At(s, "idle")
  /\ op' = [op EXCEPT ![s] = [@ EXCEPT !.read = InputRevision(settings), !.pc = "setup lock"]]
  /\ UNCHANGED <<faults, cast, settings, state, file, lock>>

EnterSetup(s) ==
  /\ At(s, "setup lock")
  /\ Hold(s, "setup") /\ Goto(s, "current")
  /\ UNCHANGED <<faults, cast, settings, state, file>>

LockSetup(s) == Free(s) /\ EnterSetup(s)

\* Seeded fault: the settings the command was started with are taken as current.
SkipCurrent(s) ==
  /\ At(s, "current") /\ Free(s)
  /\ Hold(s, "state") /\ Goto(s, "start")
  /\ UNCHANGED <<faults, cast, settings, state, file>>

RequireCurrent(s) ==
  /\ At(s, "current") /\ Free(s)
  /\ IF InputRevision(settings) = op[s].read
     THEN Hold(s, "state") /\ Goto(s, "start")
     ELSE Return(s)
  /\ UNCHANGED <<faults, cast, settings, state, file>>

\* Seeded fault: the publication has no token of its own.
StartUntokened(s) ==
  /\ At(s, "start")
  /\ state' = Provider("unavailable", op[s].read, op[s].token)
  /\ Goto(s, "install")
  /\ Release("state")
  /\ UNCHANGED <<faults, cast, settings, file>>

Start(s) ==
  /\ At(s, "start")
  /\ \/ /\ state' = Provider("unavailable", op[s].read, Fresh)
        /\ op' = [op EXCEPT ![s] = [@ EXCEPT !.token = Fresh, !.pc = "install"]]
        /\ Release("state")
        /\ file' = Remembered
     \/ Fails(s, "io") /\ UNCHANGED <<state, file>>
  /\ UNCHANGED <<faults, cast, settings>>

\* The tools are installed (ToolInstall) and the environment is collected.
Install(s) ==
  /\ At(s, "install")
  /\ \/ Goto(s, "cmd") /\ UNCHANGED lock
     \/ Fails(s, "install")
  /\ UNCHANGED <<faults, cast, settings, state, file>>

Write(s, f, next) ==
  /\ At(s, f)
  /\ \/ file' = [file EXCEPT ![f] = op[s].token] /\ Goto(s, next) /\ UNCHANGED lock
     \/ Fails(s, "io") /\ UNCHANGED file
  /\ UNCHANGED <<faults, cast, settings, state>>

PublishScripts(s) == Write(s, "cmd", "ps1") \/ Write(s, "ps1", "export")
PublishExport(s) == Write(s, "export", "compare")

Compare(s) ==
  /\ At(s, "compare") /\ Free(s)
  /\ IF state = Provider("unavailable", op[s].read, op[s].token)
     THEN Hold(s, "state") /\ Goto(s, "complete")
     ELSE Return(s)
  /\ UNCHANGED <<faults, cast, settings, state, file>>

Complete(s) ==
  /\ At(s, "complete")
  /\ \/ state' = Provider("ready", op[s].read, op[s].token)
     \/ "io" \in faults /\ UNCHANGED state
  /\ Return(s)
  /\ UNCHANGED <<faults, cast, settings, file>>

SetupStep(s) ==
  \/ LockSetup(s) \/ RequireCurrent(s) \/ Start(s) \/ Install(s)
  \/ PublishScripts(s) \/ PublishExport(s) \/ Compare(s) \/ Complete(s)
-----------------------------------------------------------------------------
(***************************************************************************)
(* The change of a setting.  If it changes the inputs, the state is made   *)
(* unavailable and its lock is kept until the settings are published; if   *)
(* that fails, the state is put back.                                      *)
(***************************************************************************)
\* A change may be asked for by the revision it was decided for.
Edit(e) ==
  /\ At(e, "idle")
  /\ \E expected \in {settings, Missing} :
       op' = [op EXCEPT ![e] = [@ EXCEPT !.read = expected, !.pc = "change"]]
  /\ UNCHANGED <<faults, cast, settings, state, file, lock>>

\* The settings are read under the lock; a value that is there already, or a
\* revision that is not the current one any more, ends the command.
ChangeUnlocked(e) ==
  /\ At(e, "change")
  /\ \/ /\ op[e].read \in {Missing, settings}
        /\ \E next \in Settings :
             /\ next # settings
             /\ e \in VersionEditors => next.spelling = settings.spelling
             /\ e \in SpellingEditors => next.version = settings.version
             /\ op' = [op EXCEPT ![e] = [@ EXCEPT
                    !.next = next, !.read = Missing,
                    !.pc = IF InputRevision(next) # InputRevision(settings)
                              THEN "invalidate" ELSE "publish"]]
        /\ Hold(e, "settings")
     \/ Return(e)
  /\ UNCHANGED <<faults, cast, settings, state, file>>

Change(e) == Free(e) /\ ChangeUnlocked(e)

Unavailable(e) ==
  /\ state' = Provider("unavailable", InputRevision(op[e].next), Fresh)
  /\ op' = [op EXCEPT ![e] = [@ EXCEPT !.before = state, !.token = Fresh, !.pc = "publish"]]
  /\ file' = Remembered

\* Seeded fault: the state lock is given up with the invalidation.
InvalidateAndRelease(e) ==
  /\ At(e, "invalidate") /\ Free(e)
  /\ Unavailable(e)
  /\ UNCHANGED <<faults, cast, settings, lock>>

\* begin_unavailable
Invalidate(e) ==
  /\ At(e, "invalidate") /\ Free(e)
  /\ \/ Unavailable(e) /\ Hold(e, "state")
     \/ Fails(e, "io") /\ UNCHANGED <<state, file>>
  /\ UNCHANGED <<faults, cast, settings>>

PublishSettings(e) ==
  /\ At(e, "publish")
  /\ \/ settings' = op[e].next /\ Return(e)
     \/ /\ "io" \in faults
        /\ IF op[e].token = Missing THEN Return(e) ELSE Goto(e, "restore") /\ UNCHANGED lock
        /\ UNCHANGED settings
  /\ UNCHANGED <<faults, cast, state, file>>

\* Seeded fault: the attempts to put the state back go on until one succeeds.
RestoreRepeatedly(e) ==
  /\ \/ op[e].pc \in {"restore", "drop"} /\ state' = op[e].before /\ Return(e)
     \/ At(e, "restore") /\ "io" \in faults /\ Goto(e, "drop") /\ UNCHANGED <<state, lock>>
     \/ At(e, "drop") /\ Goto(e, "restore") /\ UNCHANGED <<state, lock>>
  /\ UNCHANGED <<faults, cast, settings, file>>

\* rollback, and the second attempt when the invalidation is dropped.
Restore(e) ==
  /\ \/ At(e, "restore") /\ state' = op[e].before /\ Return(e)
     \/ At(e, "restore") /\ "io" \in faults /\ Goto(e, "drop") /\ UNCHANGED <<state, lock>>
     \/ At(e, "drop") /\ state' \in {op[e].before} \cup {state} /\ Return(e)
  /\ UNCHANGED <<faults, cast, settings, file>>

EditStep(e) ==
  Change(e) \/ Invalidate(e) \/ PublishSettings(e) \/ Restore(e)
-----------------------------------------------------------------------------
(***************************************************************************)
(* .dev/setup/check.  Nothing is locked: the state is read before and      *)
(* after the files, and every file must be the one its publication wrote.  *)
(***************************************************************************)
Check(c) ==
  /\ At(c, "idle")
  /\ op' = [op EXCEPT ![c] = [@ EXCEPT !.read = InputRevision(settings), !.pc = "before"]]
  /\ UNCHANGED <<faults, cast, settings, state, file, lock>>

\* read_ready
IsReady(c) == state.status = "ready" /\ state.input = op[c].read

ReadBefore(c) ==
  /\ At(c, "before")
  /\ IF IsReady(c)
     THEN /\ op' = [op EXCEPT ![c] = [@ EXCEPT !.token = state.token, !.pc = "document"]]
          /\ UNCHANGED lock
     ELSE Return(c)
  /\ UNCHANGED <<faults, cast, settings, state, file>>

RequireFile(c, from, f, next) ==
  /\ At(c, from)
  /\ IF file[f] = op[c].token THEN Goto(c, next) /\ UNCHANGED lock ELSE Return(c)
  /\ UNCHANGED <<faults, cast, settings, state, file>>

ReadFiles(c) ==
  \/ RequireFile(c, "document", "export", "env.cmd")
  \/ RequireFile(c, "env.cmd", "cmd", "env.ps1")
  \/ RequireFile(c, "env.ps1", "ps1", "after")

\* Seeded fault: the state is not read again.
SkipAfter(c) ==
  /\ At(c, "after")
  /\ Goto(c, "ready")
  /\ UNCHANGED <<faults, cast, settings, state, file, lock>>

ReadAfter(c) ==
  /\ At(c, "after")
  /\ IF IsReady(c) /\ state.token = op[c].token
     THEN Goto(c, "ready") /\ UNCHANGED lock
     ELSE Return(c)
  /\ UNCHANGED <<faults, cast, settings, state, file>>

\* The command answers that the environment is ready.
Report(c) ==
  /\ At(c, "ready")
  /\ Return(c)
  /\ UNCHANGED <<faults, cast, settings, state, file>>

CheckStep(c) == ReadBefore(c) \/ ReadFiles(c) \/ ReadAfter(c) \/ Report(c)
-----------------------------------------------------------------------------
Step(a) ==
  \/ LockTimeout(a)
  \/ a \in Setups /\ SetupStep(a)
  \/ a \in Editors /\ EditStep(a)
  \/ a \in Checkers /\ CheckStep(a)

Request(a) ==
  \/ a \in Setups /\ Setup(a)
  \/ a \in Editors /\ Edit(a)
  \/ a \in Checkers /\ Check(a)

\* The process ends; its handles, and with them its locks, are closed.
\* Bound: one crash.
Crash(a) ==
  /\ "crash" \in faults /\ a \in cast /\ ~At(a, "idle")
  /\ faults' = faults \ {"crash"}
  /\ Return(a)
  /\ UNCHANGED <<cast, settings, state, file>>

Next == \E a \in Actors : Request(a) \/ Step(a) \/ Crash(a)

Spec == Init /\ [][Next]_vars
FairSpec == Spec /\ \A a \in Actors : WF_vars(Step(a))
-----------------------------------------------------------------------------
Whole(token) == \A f \in Files : file[f] = token

\* A ready state vouches for files of one publication, its own, whatever
\* setups and changes were interrupted, refused or rolled back before.
ReadyIsWhole == state.status = "ready" => Whole(state.token)

\* A ready state is about the settings as they are.
ReadyMatchesSettings ==
  state.status = "ready" => state.input = InputRevision(settings)

\* As long as a change of the settings may put the earlier state back, the
\* state is the one it wrote itself: no publication is overwritten.
InvalidationIsHeld ==
  \A e \in Editors :
    (op[e].pc \in {"publish", "restore", "drop"} /\ op[e].token # Missing)
    => state.token = op[e].token

\* A check that finds the environment ready has seen the publication that is
\* the current one at that moment, for the settings of that moment.
ReportIsCurrent ==
  [][\A c \in Checkers :
       (op[c].pc # "ready" /\ op'[c].pc = "ready")
       => /\ state.status = "ready" /\ Whole(op[c].token)
          /\ state.input = InputRevision(settings)]_vars

\* A change of one setting leaves the others as they are when it is published.
ChangesOneSetting ==
  [][Cardinality({x \in Addresses : settings'[x] # settings[x]}) <= 1]_vars

\* Every command returns, whichever locks it finds taken and whatever fails.
SetupReturns == \A a \in Actors : op[a].pc # "idle" ~> op[a].pc = "idle"

\* Besides the types: a ready state vouches for the files and the settings as
\* they are, and a state that may still be put back is not overwritten.
SetupSafety == TypeOK /\ ReadyIsWhole /\ ReadyMatchesSettings /\ InvalidationIsHeld

\* Nobody reports or writes from what he read before it changed.
NothingIsStale == ReportIsCurrent /\ ChangesOneSetting
=============================================================================
