-------------------------- MODULE DevSetupProofs --------------------------
(***************************************************************************)
(* The theorems about DevSetup, for any setups, changes and checks at a    *)
(* time, any settings and every combination of faults: what is said to be  *)
(* ready belongs to the settings as they are and to one setup, and a check *)
(* that says so is right when it says it.                                  *)
(*                                                                         *)
(* The inductive invariant ties each command's place to the locks it holds *)
(* and to what it knows of the state.  The state alone does not do: a      *)
(* change may put back what it has found, so that it must also be known    *)
(* of that record that a setup at work cannot have made it worthless.      *)
(***************************************************************************)
EXTENDS DevSetup, FiniteSetTheorems, TLAPS

\* The steps at which a setup has a token and the setup lock, ...
Working(s) == op[s].pc \in SetupSteps \ {"setup lock", "current", "start"}

\* ... and at which a change has made the state unavailable and may put it back.
Holding(e) == op[e].pc \in {"publish", "restore", "drop"} /\ op[e].token # Missing

\* What a setup may rely on: its locks and the settings it has compared, ...
SetupLocks(s) ==
  /\ op[s].pc \in SetupSteps => op[s].read \in Versions
  /\ op[s].pc \in SetupSteps \ {"setup lock"} => lock["setup"] = s
  /\ op[s].pc \in {"start", "complete"} =>
       lock["state"] = s /\ op[s].read = InputRevision(settings)

\* ... the files it has written, ...
SetupFiles(s) ==
  /\ op[s].pc \in {"ps1", "export", "compare", "complete"} => file["cmd"] = op[s].token
  /\ op[s].pc \in {"export", "compare", "complete"} => file["ps1"] = op[s].token
  /\ op[s].pc \in {"compare", "complete"} => file["export"] = op[s].token

\* ... that nothing is ready while it writes, and that the state, if it still
\* has the setup's token, is the one that the setup has published.
SetupState(s) ==
  /\ Working(s) =>
       /\ op[s].token \in Tokens
       /\ state.status # "ready"
       /\ state.token = op[s].token =>
            /\ state = Provider("unavailable", op[s].read, op[s].token)
            /\ op[s].read = InputRevision(settings)
  /\ op[s].pc = "complete" => state.token = op[s].token

SetupInv(s) == SetupLocks(s) /\ SetupFiles(s) /\ SetupState(s)

\* What a change may rely on: its locks, that the settings are the ones it has
\* changed in one place, and that the state is the one it has written.
EditInv(e) ==
  /\ op[e].pc \in {"change", "invalidate"} => op[e].token = Missing
  /\ op[e].pc \in {"restore", "drop"} => op[e].token # Missing
  /\ op[e].pc \in EditSteps \ {"change"} =>
       /\ lock["settings"] = e
       /\ op[e].next \in Settings
       /\ \/ op[e].next.version = settings.version
          \/ op[e].next.spelling = settings.spelling
  /\ op[e].pc = "publish" /\ op[e].token = Missing =>
       op[e].next.version = settings.version
  /\ Holding(e) =>
       /\ lock["state"] = e
       /\ state.status = "unavailable" /\ state.token = op[e].token
       /\ op[e].before.status = "ready" =>
            /\ \A f \in Files : file[f] = op[e].before.token
            /\ op[e].before.input = InputRevision(settings)

\* What may be put back is not ready while a setup writes, and if it has the
\* setup's token, it is what the setup has published.
MeetInv(s, e) ==
  Working(s) /\ Holding(e) =>
    /\ op[e].token # op[s].token
    /\ op[e].before.status # "ready"
    /\ op[e].before.token = op[s].token =>
         /\ op[e].before = Provider("unavailable", op[s].read, op[s].token)
         /\ op[s].read = InputRevision(settings)

IdleInv(a) == op[a].pc = "idle" => op[a] = NoOp

DevInv ==
  /\ TypeOK
  /\ ReadyIsWhole /\ ReadyMatchesSettings
  /\ \A a \in Actors : IdleInv(a)
  /\ \A s \in Setups : SetupInv(s)
  /\ \A e \in Editors : EditInv(e)
  /\ \A s \in Setups, e \in Editors : MeetInv(s, e)
-----------------------------------------------------------------------------
(* Frames *)

\* A process changes its own operation and no lock of another.
Local(a) ==
  /\ cast' = cast /\ faults' \subseteq faults
  /\ op' \in [Actors -> Operations]
  /\ \A b \in Actors : b # a => op'[b] = op[b]
  /\ op'[a].pc \in {"idle"} \cup StepsOf(a)
  /\ op'[a].read \in {Missing} \cup IF a \in Editors THEN Settings ELSE Versions
  /\ lock' \in [Locks -> Actors \cup {Nobody}]
  /\ \A l \in Locks : lock[l] \notin {a, Nobody} => lock'[l] = lock[l]

\* Nothing else changes.
Quiet == settings' = settings /\ state' = state /\ file' = file

\* The process has ended its command.
Ended(a) == op'[a] = NoOp /\ Local(a)

\* What a process itself has to keep.
Own(a) ==
  /\ IdleInv(a)
  /\ a \in Setups => SetupInv(a) /\ \A e \in Editors : MeetInv(a, e)
  /\ a \in Editors => EditInv(a) /\ \A s \in Setups : MeetInv(s, a)

USE DEF Locks, Files

LEMMA Kinds ==
  ASSUME NEW a \in Actors
  PROVE  /\ a \in Setups => a \notin Editors /\ a \notin Checkers
         /\ a \in Editors => a \notin Setups /\ a \notin Checkers
         /\ a \in Checkers => a \notin Editors /\ a \notin Setups
         /\ a # Nobody
BY KindAssumption, NobodyAssumption

LEMMA NoOpType == NoOp \in Operations /\ Unset \in States
BY DEF NoOp, Operations, States

LEMMA StateParts ==
  ASSUME NEW x \in States
  PROVE  /\ x = Provider(x.status, x.input, x.token)
         /\ x.status \in {"missing", "unavailable", "ready"}
         /\ x.token \in Tokens \cup {Missing}
         /\ x.status # "missing" => x.input \in Versions /\ x.token \in Tokens
         /\ x.status = "missing" => x = Unset
BY DEF States, Unset, Provider

LEMMA ProviderType ==
  ASSUME NEW status \in {"unavailable", "ready"}, NEW input \in Versions,
         NEW token \in Tokens
  PROVE  /\ Provider(status, input, token) \in States
         /\ Provider(status, input, token).status = status
         /\ Provider(status, input, token).input = input
         /\ Provider(status, input, token).token = token
BY DEF States, Provider

\* An ended command holds nothing.
LEMMA ReturnEnds ==
  ASSUME TypeOK, NEW a \in Actors, Return(a), cast' = cast, faults' \subseteq faults
  PROVE  Ended(a)
<1>1. op' \in [Actors -> Operations] /\ op'[a] = NoOp
  BY NoOpType DEF TypeOK, Return
<1>2. \A b \in Actors : b # a => op'[b] = op[b]
  BY DEF TypeOK, Return
<1>3. lock' \in [Locks -> Actors \cup {Nobody}]
  BY DEF TypeOK, Return
<1>4. \A l \in Locks : lock[l] \notin {a, Nobody} => lock'[l] = lock[l]
  BY DEF TypeOK, Return
<1>. QED BY <1>1, <1>2, <1>3, <1>4 DEF Ended, Local, NoOp

\* A command goes on to its next step.
LEMMA GotoStep ==
  ASSUME TypeOK, NEW a \in Actors, NEW l \in StepsOf(a), Goto(a, l)
  PROVE  /\ op' \in [Actors -> Operations]
         /\ \A b \in Actors : b # a => op'[b] = op[b]
         /\ op'[a].pc = l /\ op'[a].read = op[a].read /\ op'[a].next = op[a].next
         /\ op'[a].before = op[a].before /\ op'[a].token = op[a].token
         /\ op'[a].pc \in {"idle"} \cup StepsOf(a)
         /\ op'[a].read \in {Missing} \cup IF a \in Editors THEN Settings ELSE Versions
<1>. DEFINE o == [op[a] EXCEPT !.pc = l]
<1>1. op[a] \in Operations
  BY DEF TypeOK
<1>2. l \in SetupSteps \cup EditSteps \cup CheckSteps
  BY DEF StepsOf
<1>3. o \in Operations
  BY <1>1, <1>2 DEF Operations
<1>4. op' = [op EXCEPT ![a] = o]
  BY DEF Goto
<1>5. /\ o.pc = l /\ o.read = op[a].read /\ o.next = op[a].next
      /\ o.before = op[a].before /\ o.token = op[a].token
  BY <1>1 DEF Operations
<1>. HIDE DEF o
<1>6. op'[a] = o /\ \A b \in Actors : b # a => op'[b] = op[b]
  BY <1>4 DEF TypeOK
<1>7. op' \in [Actors -> Operations]
  BY <1>3, <1>4 DEF TypeOK
<1>8. op[a].read \in {Missing} \cup IF a \in Editors THEN Settings ELSE Versions
  BY DEF TypeOK
<1>. QED BY <1>5, <1>6, <1>7, <1>8

LEMMA HoldStep ==
  ASSUME TypeOK, NEW a \in Actors, NEW l \in Locks, lock[l] = Nobody, Hold(a, l)
  PROVE  /\ lock' \in [Locks -> Actors \cup {Nobody}]
         /\ lock'[l] = a
         /\ \A k \in Locks : k # l => lock'[k] = lock[k]
         /\ \A k \in Locks : lock[k] \notin {a, Nobody} => lock'[k] = lock[k]
BY DEF TypeOK, Hold

LEMMA ReleaseStep ==
  ASSUME TypeOK, NEW a \in Actors, NEW l \in Locks, lock[l] = a, Release(l)
  PROVE  /\ lock' \in [Locks -> Actors \cup {Nobody}]
         /\ \A k \in Locks : k # l => lock'[k] = lock[k]
         /\ \A k \in Locks : lock[k] \notin {a, Nobody} => lock'[k] = lock[k]
BY DEF TypeOK, Release

\* Whoever waits for a lock that is free knows which.
LEMMA FreeLock ==
  ASSUME NEW a \in Actors, Free(a)
  PROVE  /\ op[a].pc = "setup lock" => lock["setup"] = Nobody
         /\ op[a].pc = "change" => lock["settings"] = Nobody
         /\ op[a].pc \in {"current", "compare", "invalidate"} => lock["state"] = Nobody
BY DEF Free, Awaits
-----------------------------------------------------------------------------
(* Tokens *)

\* There is a token that nothing holds: a process holds at most two, the state
\* one.
LEMMA FreshToken ==
  ASSUME TypeOK
  PROVE  Fresh \in Tokens /\ Fresh \notin Held
<1>. DEFINE A == {op[a].token : a \in Actors}
            B == {op[a].before.token : a \in Actors}
            f == [a \in Actors |-> op[a].token]
            g == [a \in Actors |-> op[a].before.token]
<1>1. f \in Surjection(Actors, A) /\ g \in Surjection(Actors, B)
  BY DEF Surjection
<1>2. IsFiniteSet(A) /\ Cardinality(A) <= Cardinality(Actors)
  <2>. HIDE DEF A, B, f, g
  <2>. QED BY <1>1, FS_Surjection, TokensAssumption
<1>3. IsFiniteSet(B) /\ Cardinality(B) <= Cardinality(Actors)
  <2>. HIDE DEF A, B, f, g
  <2>. QED BY <1>1, FS_Surjection, TokensAssumption
<1>4. Held = {state.token} \cup (A \cup B)
  BY DEF Held
<1>. HIDE DEF A, B
<1>5. /\ IsFiniteSet(A \cup B)
      /\ Cardinality(A \cup B) = Cardinality(A) + Cardinality(B) - Cardinality(A \cap B)
  BY <1>2, <1>3, FS_Union
<1>6. IsFiniteSet(A \cap B) /\ Cardinality(A \cap B) \in Nat
  BY <1>2, FS_Subset, FS_CardinalityType
<1>7. /\ Cardinality(A) \in Nat /\ Cardinality(B) \in Nat
      /\ Cardinality(A \cup B) \in Nat /\ Cardinality(Actors) \in Nat
      /\ Cardinality(Tokens) \in Nat
  BY <1>2, <1>3, <1>5, FS_CardinalityType, TokensAssumption
<1>8. Cardinality(A \cup B) <= 2 * Cardinality(Actors)
  BY <1>2, <1>3, <1>5, <1>6, <1>7
<1>9. IsFiniteSet(Held) /\ Cardinality(Held) <= Cardinality(A \cup B) + 1
  <2>1. /\ IsFiniteSet((A \cup B) \cup {state.token})
        /\ Cardinality((A \cup B) \cup {state.token}) =
             IF state.token \in A \cup B THEN Cardinality(A \cup B)
             ELSE Cardinality(A \cup B) + 1
    BY <1>5, FS_AddElement
  <2>2. Held = (A \cup B) \cup {state.token}
    BY <1>4
  <2>. QED BY <2>1, <2>2, <1>7
<1>10. Cardinality(Held) \in Nat /\ Cardinality(Held) < Cardinality(Tokens)
  BY <1>7, <1>8, <1>9, FS_CardinalityType, TokensAssumption
<1>11. ~(Tokens \subseteq Held)
  BY <1>7, <1>9, <1>10, FS_Subset
<1>12. \E t \in Tokens : t \notin Held
  BY <1>11
<1>. QED BY <1>12 DEF Fresh

\* What somebody holds is remembered.
LEMMA RememberedHeld ==
  ASSUME TypeOK, file' = Remembered
  PROVE  /\ file' \in [Files -> Tokens \cup {Missing}]
         /\ \A h \in Files : file[h] = state.token => file'[h] = state.token
         /\ \A a \in Actors, h \in Files :
              /\ file[h] = op[a].token => file'[h] = op[a].token
              /\ file[h] = op[a].before.token => file'[h] = op[a].before.token
BY DEF TypeOK, Remembered, Held

LEMMA HeldTokens ==
  /\ state.token \in Held
  /\ \A a \in Actors : op[a].token \in Held /\ op[a].before.token \in Held
BY DEF Held
-----------------------------------------------------------------------------
(* Steps that change nothing but the process itself *)

LEMMA LocalTypes ==
  ASSUME TypeOK, NEW a \in Actors, Local(a), settings' \in Settings,
         state' \in States, file' \in [Files -> Tokens \cup {Missing}]
  PROVE  TypeOK'
<1>1. \A b \in Actors :
        /\ op'[b].pc \in {"idle"} \cup StepsOf(b)
        /\ op'[b].read \in {Missing} \cup IF b \in Editors THEN Settings ELSE Versions
  BY DEF TypeOK, Local
<1>2. cast' \in Casts /\ faults' \subseteq UNION FaultCases
  BY DEF TypeOK, Local
<1>. QED BY <1>1, <1>2 DEF TypeOK, Local

\* The others keep what they rely on.
LEMMA OthersKeep ==
  ASSUME DevInv, NEW a \in Actors, Local(a), Quiet, NEW b \in Actors, b # a
  PROVE  /\ IdleInv(b)'
         /\ b \in Setups => SetupInv(b)'
         /\ b \in Editors => EditInv(b)'
<1>1. op'[b] = op[b] /\ b # Nobody
  BY Kinds DEF Local
<1>2. \A l \in Locks : lock[l] = b => lock'[l] = b
  BY <1>1 DEF Local
<1>3. IdleInv(b)'
  BY <1>1 DEF DevInv, IdleInv
<1>4. ASSUME b \in Setups PROVE SetupInv(b)'
  <2>. SetupLocks(b) /\ SetupFiles(b) /\ SetupState(b)
    BY <1>4 DEF DevInv, SetupInv
  <2>1. SetupLocks(b)'
    BY <1>1, <1>2 DEF SetupLocks, Quiet, InputRevision
  <2>2. SetupFiles(b)'
    BY <1>1 DEF SetupFiles, Quiet
  <2>3. SetupState(b)'
    BY <1>1 DEF SetupState, Working, Quiet, InputRevision
  <2>. QED BY <2>1, <2>2, <2>3 DEF SetupInv
<1>5. ASSUME b \in Editors PROVE EditInv(b)'
  BY <1>1, <1>2, <1>5 DEF DevInv, EditInv, Holding, Quiet
<1>. QED BY <1>3, <1>4, <1>5

LEMMA OwnKeeps ==
  ASSUME DevInv, NEW a \in Actors, Local(a), Quiet, Own(a)'
  PROVE  DevInv'
<1>1. TypeOK'
  BY LocalTypes DEF DevInv, TypeOK, Quiet
<1>2. ReadyIsWhole' /\ ReadyMatchesSettings'
  BY DEF DevInv, ReadyIsWhole, ReadyMatchesSettings, Whole, Quiet, InputRevision
<1>3. \A b \in Actors : IdleInv(b)'
  BY OthersKeep DEF Own
<1>4. \A s \in Setups : SetupInv(s)'
  BY OthersKeep DEF Own, Actors
<1>5. \A e \in Editors : EditInv(e)'
  BY OthersKeep DEF Own, Actors
<1>6. ASSUME NEW s \in Setups, NEW e \in Editors PROVE MeetInv(s, e)'
  <2>1. CASE s = a
    BY <2>1 DEF Own
  <2>2. CASE e = a
    BY <2>2 DEF Own
  <2>3. CASE s # a /\ e # a
    <3>1. op'[s] = op[s] /\ op'[e] = op[e]
      BY <2>3 DEF Local, Actors
    <3>2. MeetInv(s, e) /\ settings' = settings
      BY DEF DevInv, Quiet
    <3>. QED BY <3>1, <3>2 DEF MeetInv, Working, Holding, InputRevision
  <2>. QED BY <2>1, <2>2, <2>3
<1>. QED BY <1>1, <1>2, <1>3, <1>4, <1>5, <1>6 DEF DevInv

\* Who has ended has nothing to keep.
LEMMA EndedOwn ==
  ASSUME NEW a \in Actors, Ended(a)
  PROVE  Own(a)'
<1>1. op'[a] = NoOp /\ NoOp.pc = "idle"
  BY DEF Ended, NoOp
<1>2. IdleInv(a)'
  BY <1>1 DEF IdleInv
<1>3. SetupInv(a)' /\ \A e \in Editors : MeetInv(a, e)'
  BY <1>1 DEF SetupInv, SetupLocks, SetupFiles, SetupState, MeetInv, Working, SetupSteps
<1>4. EditInv(a)' /\ \A s \in Setups : MeetInv(s, a)'
  BY <1>1 DEF EditInv, MeetInv, Holding, EditSteps
<1>. QED BY <1>2, <1>3, <1>4 DEF Own

LEMMA ReturnKeeps ==
  ASSUME DevInv, NEW a \in Actors, Return(a), faults' \subseteq faults,
         UNCHANGED <<cast, settings, state, file>>
  PROVE  DevInv'
<1>1. Ended(a)
  BY ReturnEnds DEF DevInv
<1>. QED BY <1>1, EndedOwn, OwnKeeps DEF Ended, Quiet

\* A step of a setup that is not at work afterwards, or was already.
LEMMA SetupKeeps ==
  ASSUME DevInv, NEW s \in Setups, Local(s), Quiet, SetupInv(s)',
         op'[s].pc # "idle",
         Working(s)' => /\ Working(s) /\ op'[s].token = op[s].token
                        /\ op'[s].read = op[s].read
  PROVE  DevInv'
<1>1. s \in Actors /\ s \notin Editors
  BY Kinds DEF Actors
<1>2. ASSUME NEW e \in Editors PROVE MeetInv(s, e)'
  <2>1. op'[e] = op[e]
    BY <1>1 DEF Local, Actors
  <2>2. MeetInv(s, e) /\ settings' = settings
    BY DEF DevInv, Quiet
  <2>. QED BY <2>1, <2>2 DEF MeetInv, Working, Holding, InputRevision
<1>3. Own(s)'
  BY <1>1, <1>2 DEF Own, IdleInv
<1>. QED BY <1>1, <1>3, OwnKeeps

\* A step of a change that holds nothing afterwards, or did already.
LEMMA EditKeeps ==
  ASSUME DevInv, NEW e \in Editors, Local(e), Quiet, EditInv(e)',
         op'[e].pc # "idle",
         Holding(e)' => /\ Holding(e) /\ op'[e].token = op[e].token
                        /\ op'[e].before = op[e].before
  PROVE  DevInv'
<1>1. e \in Actors /\ e \notin Setups
  BY Kinds DEF Actors
<1>2. ASSUME NEW s \in Setups PROVE MeetInv(s, e)'
  <2>1. op'[s] = op[s]
    BY <1>1 DEF Local, Actors
  <2>2. MeetInv(s, e) /\ settings' = settings
    BY DEF DevInv, Quiet
  <2>. QED BY <2>1, <2>2 DEF MeetInv, Working, Holding, InputRevision
<1>3. Own(e)'
  BY <1>1, <1>2 DEF Own, IdleInv
<1>. QED BY <1>1, <1>3, OwnKeeps

\* A check has nothing to keep.
LEMMA CheckKeeps ==
  ASSUME DevInv, NEW c \in Checkers, Local(c), Quiet, op'[c].pc # "idle"
  PROVE  DevInv'
<1>1. c \in Actors /\ c \notin Setups /\ c \notin Editors
  BY Kinds DEF Actors
<1>2. Own(c)'
  BY <1>1 DEF Own, IdleInv
<1>. QED BY <1>1, <1>2, OwnKeeps
-----------------------------------------------------------------------------
(* The steps of a setup *)

\* A setup that goes on by itself, with or without taking a lock.
LEMMA SetupGoes ==
  ASSUME DevInv, NEW s \in Setups, NEW l \in SetupSteps, Goto(s, l),
         cast' = cast, faults' = faults,
         lock' \in [Locks -> Actors \cup {Nobody}],
         \A k \in Locks : lock[k] \notin {s, Nobody} => lock'[k] = lock[k]
  PROVE  /\ s \in Actors /\ Local(s) /\ op'[s].pc = l
         /\ op'[s].read = op[s].read /\ op'[s].token = op[s].token
<1>1. s \in Actors /\ l \in StepsOf(s)
  BY DEF Actors, StepsOf
<1>. QED BY <1>1, GotoStep DEF DevInv, Local

LEMMA SetupRequest ==
  ASSUME DevInv, NEW s \in Setups, Setup(s)
  PROVE  DevInv'
<1>. DEFINE o == [op[s] EXCEPT !.read = InputRevision(settings), !.pc = "setup lock"]
<1>1. s \in Actors /\ s \notin Editors
  BY Kinds DEF Actors
<1>2. op[s] \in Operations /\ settings.version \in Versions
  BY <1>1 DEF DevInv, TypeOK, Settings
<1>3. /\ o \in Operations /\ o.pc = "setup lock" /\ o.read = settings.version
      /\ o.token = op[s].token
  BY <1>2 DEF Operations, SetupSteps, InputRevision
<1>4. op' = [op EXCEPT ![s] = o]
  BY <1>1 DEF Setup, DevInv, TypeOK
<1>. HIDE DEF o
<1>5. op' \in [Actors -> Operations] /\ op'[s] = o
      /\ \A b \in Actors : b # s => op'[b] = op[b]
  BY <1>1, <1>3, <1>4 DEF DevInv, TypeOK
<1>6. Local(s) /\ Quiet
  <2>1. Quiet /\ cast' = cast /\ faults' = faults /\ lock' = lock
    BY DEF Setup, Quiet
  <2>2. lock \in [Locks -> Actors \cup {Nobody}]
    BY DEF DevInv, TypeOK
  <2>3. op'[s].pc \in StepsOf(s)
    BY <1>3, <1>5 DEF StepsOf, SetupSteps
  <2>4. op'[s].read \in Versions
    BY <1>2, <1>3, <1>5
  <2>. QED BY <1>1, <1>5, <2>1, <2>2, <2>3, <2>4 DEF Local
<1>7. SetupInv(s)'
  BY <1>2, <1>3, <1>5 DEF SetupInv, SetupLocks, SetupFiles, SetupState, Working, SetupSteps
<1>8. op'[s].pc # "idle" /\ ~Working(s)'
  BY <1>3, <1>5 DEF Working
<1>. QED BY <1>6, <1>7, <1>8, SetupKeeps

LEMMA SetupLock ==
  ASSUME DevInv, NEW s \in Setups, LockSetup(s)
  PROVE  DevInv'
<1>1. s \in Actors /\ op[s].pc = "setup lock" /\ lock["setup"] = Nobody
  BY FreeLock DEF Actors, LockSetup, EnterSetup, At
<1>2. /\ Hold(s, "setup") /\ Goto(s, "current") /\ Quiet
      /\ cast' = cast /\ faults' = faults
  BY DEF LockSetup, EnterSetup, Quiet
<1>3. /\ lock' \in [Locks -> Actors \cup {Nobody}] /\ lock'["setup"] = s
      /\ \A k \in Locks : lock[k] \notin {s, Nobody} => lock'[k] = lock[k]
  BY <1>1, <1>2, HoldStep DEF DevInv
<1>4. Local(s) /\ op'[s].pc = "current" /\ op'[s].read = op[s].read
  BY <1>2, <1>3, SetupGoes DEF SetupSteps
<1>5. op[s].read \in Versions
  BY <1>1 DEF DevInv, SetupInv, SetupLocks, SetupSteps
<1>6. SetupInv(s)' /\ ~Working(s)'
  BY <1>3, <1>4, <1>5 DEF SetupInv, SetupLocks, SetupFiles, SetupState, Working, SetupSteps
<1>. QED BY <1>2, <1>4, <1>6, SetupKeeps

LEMMA SetupCurrent ==
  ASSUME DevInv, NEW s \in Setups, RequireCurrent(s)
  PROVE  DevInv'
<1>1. s \in Actors /\ op[s].pc = "current" /\ lock["state"] = Nobody
  BY FreeLock DEF Actors, RequireCurrent, At
<1>2. Quiet /\ cast' = cast /\ faults' = faults
  BY DEF RequireCurrent, Quiet
<1>3. op[s].read \in Versions /\ lock["setup"] = s
  BY <1>1 DEF DevInv, SetupInv, SetupLocks, SetupSteps
<1>4. ASSUME InputRevision(settings) = op[s].read, Hold(s, "state"), Goto(s, "start")
      PROVE  DevInv'
  <2>1. /\ lock' \in [Locks -> Actors \cup {Nobody}] /\ lock'["state"] = s
        /\ lock'["setup"] = s
        /\ \A k \in Locks : lock[k] \notin {s, Nobody} => lock'[k] = lock[k]
    BY <1>1, <1>3, <1>4, HoldStep DEF DevInv
  <2>2. Local(s) /\ op'[s].pc = "start" /\ op'[s].read = op[s].read
    BY <1>2, <1>4, <2>1, SetupGoes DEF SetupSteps
  <2>3. SetupInv(s)' /\ ~Working(s)'
    BY <1>2, <1>3, <1>4, <2>1, <2>2
    DEF SetupInv, SetupLocks, SetupFiles, SetupState, Working, SetupSteps, Quiet,
        InputRevision
  <2>. QED BY <1>2, <2>2, <2>3, SetupKeeps
<1>. QED BY <1>1, <1>4, ReturnKeeps DEF RequireCurrent

LEMMA SetupInstall ==
  ASSUME DevInv, NEW s \in Setups, Install(s)
  PROVE  DevInv'
<1>1. s \in Actors /\ op[s].pc = "install"
  BY DEF Actors, Install, At
<1>2. ASSUME Goto(s, "cmd"), lock' = lock PROVE DevInv'
  <2>1. Quiet /\ cast' = cast /\ faults' = faults
    BY DEF Install, Quiet
  <2>2. /\ Local(s) /\ op'[s].pc = "cmd" /\ op'[s].read = op[s].read
        /\ op'[s].token = op[s].token
    BY <1>2, <2>1, SetupGoes DEF SetupSteps, DevInv, TypeOK
  <2>3. SetupInv(s) /\ Working(s)
    BY <1>1 DEF DevInv, Working, SetupSteps
  <2>4. SetupInv(s)'
    BY <1>1, <1>2, <2>1, <2>2, <2>3
    DEF SetupInv, SetupLocks, SetupFiles, SetupState, Working, SetupSteps, Quiet,
        InputRevision
  <2>. QED BY <2>1, <2>2, <2>3, <2>4, SetupKeeps
<1>. QED BY <1>1, <1>2, ReturnKeeps DEF Install, Fails

LEMMA SetupCompare ==
  ASSUME DevInv, NEW s \in Setups, Compare(s)
  PROVE  DevInv'
<1>1. s \in Actors /\ op[s].pc = "compare" /\ lock["state"] = Nobody
  BY FreeLock DEF Actors, Compare, At
<1>2. Quiet /\ cast' = cast /\ faults' = faults
  BY DEF Compare, Quiet
<1>3. SetupInv(s) /\ Working(s)
  BY <1>1 DEF DevInv, Working, SetupSteps
<1>4. ASSUME state = Provider("unavailable", op[s].read, op[s].token),
             Hold(s, "state"), Goto(s, "complete")
      PROVE  DevInv'
  <2>1. /\ lock' \in [Locks -> Actors \cup {Nobody}] /\ lock'["state"] = s
        /\ lock'["setup"] = s
        /\ \A k \in Locks : lock[k] \notin {s, Nobody} => lock'[k] = lock[k]
    BY <1>1, <1>3, <1>4, HoldStep DEF DevInv, SetupInv, SetupLocks, SetupSteps
  <2>2. /\ Local(s) /\ op'[s].pc = "complete" /\ op'[s].read = op[s].read
        /\ op'[s].token = op[s].token
    BY <1>2, <1>4, <2>1, SetupGoes DEF SetupSteps
  <2>3. state.token = op[s].token /\ op[s].read = InputRevision(settings)
    BY <1>3, <1>4 DEF Provider, SetupInv, SetupState
  <2>4. SetupInv(s)'
    BY <1>1, <1>2, <1>3, <2>1, <2>2, <2>3
    DEF SetupInv, SetupLocks, SetupFiles, SetupState, Working, SetupSteps, Quiet,
        InputRevision
  <2>. QED BY <1>2, <1>3, <2>2, <2>4, SetupKeeps
<1>. QED BY <1>1, <1>4, ReturnKeeps DEF Compare
\* The state is made unavailable under a token that nobody else has.
LEMMA SetupStart ==
  ASSUME DevInv, NEW s \in Setups, Start(s)
  PROVE  DevInv'
<1>1. s \in Actors /\ op[s].pc = "start" /\ s \notin Editors
  BY Kinds DEF Actors, Start, At
<1>2. /\ op[s].read \in Versions /\ lock["setup"] = s /\ lock["state"] = s
      /\ op[s].read = InputRevision(settings)
  BY <1>1 DEF DevInv, SetupInv, SetupLocks, SetupSteps
<1>3. Fresh \in Tokens /\ Fresh \notin Held
  BY FreshToken DEF DevInv
<1>4. ASSUME state' = Provider("unavailable", op[s].read, Fresh),
             op' = [op EXCEPT ![s] = [@ EXCEPT !.token = Fresh, !.pc = "install"]],
             Release("state"), file' = Remembered
      PROVE  DevInv'
  <2>. DEFINE o == [op[s] EXCEPT !.token = Fresh, !.pc = "install"]
              x == Provider("unavailable", op[s].read, Fresh)
  <2>1. op[s] \in Operations
    BY <1>1 DEF DevInv, TypeOK
  <2>2. /\ o \in Operations /\ o.pc = "install" /\ o.read = op[s].read
        /\ o.token = Fresh
    BY <1>3, <2>1 DEF Operations, SetupSteps
  <2>3. op' = [op EXCEPT ![s] = o]
    BY <1>1, <1>4 DEF DevInv, TypeOK
  <2>4. /\ x \in States /\ x.status = "unavailable" /\ x.input = op[s].read
        /\ x.token = Fresh
    BY <1>2, <1>3, ProviderType
  <2>. HIDE DEF o
  <2>5. /\ op' \in [Actors -> Operations] /\ op'[s] = o
        /\ \A b \in Actors : b # s => op'[b] = op[b]
    BY <1>1, <2>2, <2>3 DEF DevInv, TypeOK
  <2>6. /\ lock' \in [Locks -> Actors \cup {Nobody}] /\ lock'["setup"] = s
        /\ \A k \in Locks : lock[k] \notin {s, Nobody} => lock'[k] = lock[k]
    BY <1>1, <1>2, <1>4, ReleaseStep DEF DevInv
  <2>7. settings' = settings /\ cast' = cast /\ faults' = faults /\ state' = x
    BY <1>4 DEF Start
  <2>. HIDE DEF x
  <2>8. Local(s)
    BY <1>1, <1>2, <2>2, <2>5, <2>6, <2>7 DEF Local, StepsOf, SetupSteps
  <2>9. TypeOK'
    <3>1. settings' \in Settings /\ file' \in [Files -> Tokens \cup {Missing}]
      BY <1>4, <2>7, RememberedHeld DEF DevInv, TypeOK
    <3>. QED BY <1>1, <2>4, <2>7, <2>8, <3>1, LocalTypes DEF DevInv
  <2>10. ReadyIsWhole' /\ ReadyMatchesSettings'
    BY <2>4, <2>7 DEF ReadyIsWhole, ReadyMatchesSettings
  <2>11. ASSUME NEW b \in Actors PROVE IdleInv(b)'
    BY <2>2, <2>5 DEF DevInv, IdleInv
  <2>12. ASSUME NEW e \in Editors PROVE ~Holding(e) /\ ~Holding(e)' /\ EditInv(e)'
    <3>1. e \in Actors /\ e # s /\ op'[e] = op[e] /\ EditInv(e)
      BY <1>1, <2>5 DEF DevInv, Actors
    <3>2. ~Holding(e)
      BY <1>2, <3>1 DEF EditInv
    <3>3. ~Holding(e)'
      BY <3>1, <3>2 DEF Holding
    <3>4. lock["settings"] = e => lock'["settings"] = e
      BY <2>6, <3>1, Kinds
    <3>. QED BY <2>7, <3>1, <3>2, <3>3, <3>4 DEF EditInv
  <2>13. ASSUME NEW b \in Setups PROVE SetupInv(b)'
    <3>1. CASE b = s
      <4>1. SetupLocks(s)'
        BY <1>2, <2>2, <2>5, <2>6 DEF SetupLocks, SetupSteps
      <4>2. SetupFiles(s)'
        BY <2>2, <2>5 DEF SetupFiles
      <4>3. SetupState(s)'
        BY <1>2, <1>3, <1>4, <2>2, <2>4, <2>5, <2>7 DEF SetupState, InputRevision
      <4>. QED BY <3>1, <4>1, <4>2, <4>3 DEF SetupInv
    <3>2. CASE b # s
      <4>1. op[b].pc \notin SetupSteps \ {"setup lock"}
        BY <1>2, <3>2 DEF DevInv, SetupInv, SetupLocks
      <4>2. op'[b] = op[b] /\ SetupLocks(b)
        BY <2>5, <3>2 DEF Actors, DevInv, SetupInv
      <4>. QED BY <4>1, <4>2
               DEF SetupInv, SetupLocks, SetupFiles, SetupState, Working, SetupSteps
    <3>. QED BY <3>1, <3>2
  <2>14. ASSUME NEW b \in Setups, NEW e \in Editors PROVE MeetInv(b, e)'
    BY <2>12 DEF MeetInv
  <2>. QED BY <2>9, <2>10, <2>11, <2>12, <2>13, <2>14 DEF DevInv
<1>. QED BY <1>1, <1>4, ReturnKeeps DEF Start, Fails

\* Nothing is ready while a setup writes.
LEMMA SetupWrite ==
  ASSUME DevInv, NEW s \in Setups,
         Write(s, "cmd", "ps1") \/ Write(s, "ps1", "export")
           \/ Write(s, "export", "compare")
  PROVE  DevInv'
<1>1. PICK f \in Files, next \in SetupSteps :
        /\ Write(s, f, next)
        /\ \/ f = "cmd" /\ next = "ps1"
           \/ f = "ps1" /\ next = "export"
           \/ f = "export" /\ next = "compare"
  BY DEF SetupSteps
<1>2. s \in Actors /\ op[s].pc = f /\ s \notin Editors /\ s # Nobody
  BY <1>1, Kinds DEF Actors, Write, At
<1>3. SetupInv(s) /\ Working(s) /\ lock["setup"] = s
  BY <1>1, <1>2 DEF DevInv, Working, SetupInv, SetupLocks, SetupSteps
<1>4. ASSUME file' = [file EXCEPT ![f] = op[s].token], Goto(s, next), lock' = lock
      PROVE  DevInv'
  <2>1. settings' = settings /\ state' = state /\ cast' = cast /\ faults' = faults
    BY <1>1 DEF Write
  <2>2. /\ Local(s) /\ op'[s].pc = next /\ op'[s].read = op[s].read
        /\ op'[s].token = op[s].token
    BY <1>4, <2>1, SetupGoes DEF DevInv, TypeOK
  <2>3. op[s].token \in Tokens /\ state.status # "ready"
    BY <1>3 DEF SetupInv, SetupState
  <2>4. /\ file' \in [Files -> Tokens \cup {Missing}] /\ file'[f] = op[s].token
        /\ \A h \in Files : h # f => file'[h] = file[h]
    BY <1>4, <2>3 DEF DevInv, TypeOK
  <2>5. TypeOK'
    BY <1>2, <2>1, <2>2, <2>4, LocalTypes DEF DevInv, TypeOK
  <2>6. ReadyIsWhole' /\ ReadyMatchesSettings'
    BY <2>1, <2>3 DEF ReadyIsWhole, ReadyMatchesSettings
  <2>7. ASSUME NEW b \in Actors, b # s PROVE op'[b] = op[b]
    BY <2>2, <2>7 DEF Local
  <2>8. ASSUME NEW b \in Actors PROVE IdleInv(b)'
    BY <2>2, <2>7 DEF DevInv, IdleInv, SetupSteps
  <2>9. ASSUME NEW e \in Editors PROVE EditInv(e)'
    <3>1. op'[e] = op[e] /\ EditInv(e) /\ MeetInv(s, e)
      BY <1>2, <2>7 DEF DevInv, Actors
    <3>2. Holding(e) => op[e].before.status # "ready"
      BY <1>3, <3>1 DEF MeetInv
    <3>. QED BY <1>4, <2>1, <3>1, <3>2 DEF EditInv, Holding
  <2>10. ASSUME NEW b \in Setups PROVE SetupInv(b)'
    <3>1. CASE b = s
      <4>1. SetupLocks(s)'
        BY <1>1, <1>2, <1>3, <1>4, <2>1, <2>2
        DEF SetupInv, SetupLocks, SetupSteps, InputRevision
      <4>2. SetupFiles(s)'
        BY <1>1, <1>2, <1>3, <2>2, <2>4 DEF SetupInv, SetupFiles
      <4>3. SetupState(s)'
        BY <1>1, <1>2, <1>3, <2>1, <2>2 DEF SetupInv, SetupState, InputRevision
      <4>. QED BY <3>1, <4>1, <4>2, <4>3 DEF SetupInv
    <3>2. CASE b # s
      <4>1. op[b].pc \notin SetupSteps \ {"setup lock"}
        BY <1>3, <3>2 DEF DevInv, SetupInv, SetupLocks
      <4>2. op'[b] = op[b] /\ SetupLocks(b)
        BY <2>7, <3>2 DEF Actors, DevInv, SetupInv
      <4>. QED BY <4>1, <4>2
               DEF SetupInv, SetupLocks, SetupFiles, SetupState, Working, SetupSteps
    <3>. QED BY <3>1, <3>2
  <2>11. ASSUME NEW b \in Setups, NEW e \in Editors PROVE MeetInv(b, e)'
    <3>1. op'[e] = op[e] /\ MeetInv(b, e)
      BY <1>2, <2>7 DEF DevInv, Actors
    <3>2. CASE b = s
      BY <1>3, <2>1, <2>2, <3>1, <3>2 DEF MeetInv, Holding, InputRevision
    <3>3. CASE b # s
      <4>1. op'[b] = op[b]
        BY <2>7, <3>3 DEF Actors
      <4>. QED BY <2>1, <3>1, <4>1 DEF MeetInv, Working, Holding, InputRevision
    <3>. QED BY <3>2, <3>3
  <2>. QED BY <2>5, <2>6, <2>8, <2>9, <2>10, <2>11 DEF DevInv
<1>. QED BY <1>1, <1>2, <1>4, ReturnKeeps DEF Write, Fails
\* What is made ready is the setup's own, and whole.
LEMMA SetupComplete ==
  ASSUME DevInv, NEW s \in Setups, Complete(s)
  PROVE  DevInv'
<1>1. s \in Actors /\ op[s].pc = "complete" /\ s \notin Editors /\ s # Nobody
  BY Kinds DEF Actors, Complete, At
<1>2. /\ op[s].read \in Versions /\ op[s].token \in Tokens
      /\ lock["setup"] = s /\ lock["state"] = s
      /\ op[s].read = InputRevision(settings)
      /\ \A f \in Files : file[f] = op[s].token
  BY <1>1 DEF DevInv, SetupInv, SetupLocks, SetupFiles, SetupState, Working, SetupSteps
<1>3. Return(s) /\ settings' = settings /\ file' = file /\ cast' = cast /\ faults' = faults
  BY DEF Complete
<1>4. ASSUME state' = Provider("ready", op[s].read, op[s].token) PROVE DevInv'
  <2>1. Ended(s) /\ Local(s) /\ op'[s] = NoOp
    BY <1>1, <1>3, ReturnEnds DEF DevInv, Ended
  <2>2. /\ state' \in States /\ state'.status = "ready" /\ state'.input = op[s].read
        /\ state'.token = op[s].token
    BY <1>2, <1>4, ProviderType
  <2>3. TypeOK'
    BY <1>1, <1>3, <2>1, <2>2, LocalTypes DEF DevInv, TypeOK
  <2>4. ReadyIsWhole' /\ ReadyMatchesSettings'
    BY <1>2, <1>3, <2>2 DEF ReadyIsWhole, ReadyMatchesSettings, Whole, InputRevision
  <2>5. ASSUME NEW b \in Actors, b # s PROVE op'[b] = op[b]
    BY <2>1, <2>5 DEF Local
  <2>6. Own(s)'
    BY <1>1, <2>1, EndedOwn
  <2>7. ASSUME NEW b \in Actors PROVE IdleInv(b)'
    BY <2>5, <2>6 DEF DevInv, IdleInv, Own
  <2>8. ASSUME NEW e \in Editors PROVE EditInv(e)' /\ ~Holding(e)'
    <3>1. op'[e] = op[e] /\ EditInv(e) /\ e # s /\ e # Nobody /\ e \in Actors
      BY <1>1, <2>5, Kinds DEF DevInv, Actors
    <3>2. ~Holding(e)
      BY <1>2, <3>1 DEF EditInv
    <3>3. ~Holding(e)'
      BY <3>1, <3>2 DEF Holding
    <3>4. lock["settings"] = e => lock'["settings"] = e
      BY <2>1, <3>1 DEF Local
    <3>. QED BY <1>3, <3>1, <3>2, <3>3, <3>4 DEF EditInv
  <2>9. ASSUME NEW b \in Setups PROVE SetupInv(b)'
    <3>1. CASE b = s
      BY <1>1, <2>6, <3>1 DEF Own
    <3>2. CASE b # s
      <4>1. op[b].pc \notin SetupSteps \ {"setup lock"}
        BY <1>2, <3>2 DEF DevInv, SetupInv, SetupLocks
      <4>2. op'[b] = op[b] /\ SetupLocks(b)
        BY <2>5, <3>2 DEF Actors, DevInv, SetupInv
      <4>. QED BY <4>1, <4>2
               DEF SetupInv, SetupLocks, SetupFiles, SetupState, Working, SetupSteps
    <3>. QED BY <3>1, <3>2
  <2>10. ASSUME NEW b \in Setups, NEW e \in Editors PROVE MeetInv(b, e)'
    BY <2>8 DEF MeetInv
  <2>. QED BY <2>3, <2>4, <2>7, <2>8, <2>9, <2>10 DEF DevInv
<1>. QED BY <1>1, <1>3, <1>4, ReturnKeeps DEF Complete
-----------------------------------------------------------------------------
(* The steps of a change *)

LEMMA EditRequest ==
  ASSUME DevInv, NEW e \in Editors, Edit(e)
  PROVE  DevInv'
<1>1. PICK expected \in {settings, Missing} :
        op' = [op EXCEPT ![e] = [@ EXCEPT !.read = expected, !.pc = "change"]]
  BY DEF Edit
<1>. DEFINE o == [op[e] EXCEPT !.read = expected, !.pc = "change"]
<1>2. e \in Actors /\ e \notin Setups /\ op[e] = NoOp
  BY Kinds DEF Actors, DevInv, IdleInv, Edit, At
<1>3. op[e] \in Operations /\ settings \in Settings
  BY <1>2 DEF DevInv, TypeOK
<1>4. /\ o \in Operations /\ o.pc = "change" /\ o.read = expected /\ o.token = Missing
  <2>1. op[e].token = Missing
    BY <1>2 DEF NoOp
  <2>2. expected \in {Missing} \cup Settings
    BY <1>3
  <2>. QED BY <1>3, <2>1, <2>2 DEF Operations, EditSteps
<1>5. op' = [op EXCEPT ![e] = o]
  BY <1>1, <1>2 DEF DevInv, TypeOK
<1>. HIDE DEF o
<1>6. op' \in [Actors -> Operations] /\ op'[e] = o
      /\ \A b \in Actors : b # e => op'[b] = op[b]
  BY <1>2, <1>4, <1>5 DEF DevInv, TypeOK
<1>7. Local(e) /\ Quiet
  <2>1. Quiet /\ cast' = cast /\ faults' = faults /\ lock' = lock
    BY DEF Edit, Quiet
  <2>2. lock \in [Locks -> Actors \cup {Nobody}]
    BY DEF DevInv, TypeOK
  <2>3. op'[e].pc \in StepsOf(e)
    BY <1>2, <1>4, <1>6 DEF StepsOf, EditSteps
  <2>4. op'[e].read \in {Missing} \cup Settings
    BY <1>3, <1>4, <1>6
  <2>. QED BY <1>2, <1>6, <2>1, <2>2, <2>3, <2>4 DEF Local
<1>8. EditInv(e)' /\ ~Holding(e)' /\ op'[e].pc # "idle"
  BY <1>4, <1>6 DEF EditInv, Holding
<1>. QED BY <1>7, <1>8, EditKeeps

LEMMA EditChange ==
  ASSUME DevInv, NEW e \in Editors, Change(e)
  PROVE  DevInv'
<1>1. e \in Actors /\ op[e].pc = "change" /\ lock["settings"] = Nobody /\ e \notin Setups
  BY FreeLock, Kinds DEF Actors, Change, ChangeUnlocked, At
<1>2. Quiet /\ cast' = cast /\ faults' = faults
  BY DEF Change, ChangeUnlocked, Quiet
<1>3. ASSUME NEW next \in Settings,
             e \in VersionEditors => next.spelling = settings.spelling,
             e \in SpellingEditors => next.version = settings.version,
             op' = [op EXCEPT ![e] = [@ EXCEPT
                 !.next = next, !.read = Missing,
                 !.pc = IF InputRevision(next) # InputRevision(settings)
                           THEN "invalidate" ELSE "publish"]],
             Hold(e, "settings")
      PROVE  DevInv'
  <2>. DEFINE l == IF InputRevision(next) # InputRevision(settings)
                   THEN "invalidate" ELSE "publish"
              o == [op[e] EXCEPT !.next = next, !.read = Missing, !.pc = l]
  <2>1. op[e] \in Operations /\ op[e].token = Missing
    BY <1>1 DEF DevInv, TypeOK, EditInv
  <2>2. op' = [op EXCEPT ![e] = o]
    BY <1>1, <1>3 DEF DevInv, TypeOK
  <2>3. l \in {"invalidate", "publish"} /\ (l = "publish" => next.version = settings.version)
    BY DEF InputRevision
  <2>. HIDE DEF l
  <2>4. /\ o \in Operations /\ o.pc = l /\ o.next = next /\ o.read = Missing
        /\ o.token = Missing
    BY <2>1, <2>3 DEF Operations, EditSteps
  <2>. HIDE DEF o
  <2>5. op' \in [Actors -> Operations] /\ op'[e] = o
        /\ \A b \in Actors : b # e => op'[b] = op[b]
    BY <1>1, <2>2, <2>4 DEF DevInv, TypeOK
  <2>6. /\ lock' \in [Locks -> Actors \cup {Nobody}] /\ lock'["settings"] = e
        /\ \A k \in Locks : lock[k] \notin {e, Nobody} => lock'[k] = lock[k]
    BY <1>1, <1>3, HoldStep DEF DevInv
  <2>7. op'[e].pc \in StepsOf(e)
    BY <1>1, <2>3, <2>4, <2>5 DEF StepsOf, EditSteps
  <2>8. Local(e)
    BY <1>1, <1>2, <2>4, <2>5, <2>6, <2>7 DEF Local
  <2>9. next.version = settings.version \/ next.spelling = settings.spelling
    BY <1>3 DEF Editors
  <2>10. settings' = settings
    BY <1>2 DEF Quiet
  <2>11. ~Holding(e)' /\ op'[e].pc # "idle"
    BY <2>3, <2>4, <2>5 DEF Holding
  <2>12. EditInv(e)'
    BY <2>3, <2>4, <2>5, <2>6, <2>9, <2>10, <2>11 DEF EditInv
  <2>. QED BY <1>2, <2>8, <2>11, <2>12, EditKeeps
<1>. QED BY <1>1, <1>3, ReturnKeeps DEF Change, ChangeUnlocked

\* The state is made unavailable, and the one before is remembered.
LEMMA EditInvalidate ==
  ASSUME DevInv, NEW e \in Editors, Invalidate(e)
  PROVE  DevInv'
<1>1. e \in Actors /\ op[e].pc = "invalidate" /\ lock["state"] = Nobody /\ e \notin Setups
  BY FreeLock, Kinds DEF Actors, Invalidate, At
<1>2. /\ lock["settings"] = e /\ op[e].next \in Settings
      /\ op[e].next.version = settings.version \/ op[e].next.spelling = settings.spelling
  BY <1>1 DEF DevInv, EditInv, EditSteps
<1>3. Fresh \in Tokens /\ Fresh \notin Held
  BY FreshToken DEF DevInv
<1>4. ASSUME Unavailable(e), Hold(e, "state") PROVE DevInv'
  <2>. DEFINE o == [op[e] EXCEPT !.before = state, !.token = Fresh, !.pc = "publish"]
              x == Provider("unavailable", InputRevision(op[e].next), Fresh)
  <2>1. op[e] \in Operations /\ state \in States
    BY <1>1 DEF DevInv, TypeOK
  <2>2. /\ o \in Operations /\ o.pc = "publish" /\ o.read = op[e].read
        /\ o.token = Fresh /\ o.before = state /\ o.next = op[e].next
    BY <1>3, <2>1 DEF Operations, EditSteps
  <2>3. op' = [op EXCEPT ![e] = o]
    BY <1>1, <1>4 DEF DevInv, TypeOK, Unavailable
  <2>4. /\ x \in States /\ x.status = "unavailable" /\ x.token = Fresh
    <3>1. InputRevision(op[e].next) \in Versions
      BY <1>2 DEF Settings, InputRevision
    <3>. QED BY <1>3, <3>1, ProviderType
  <2>. HIDE DEF o
  <2>5. /\ op' \in [Actors -> Operations] /\ op'[e] = o
        /\ \A b \in Actors : b # e => op'[b] = op[b]
    BY <1>1, <2>2, <2>3 DEF DevInv, TypeOK
  <2>6. /\ lock' \in [Locks -> Actors \cup {Nobody}] /\ lock'["state"] = e
        /\ lock'["settings"] = e
        /\ \A k \in Locks : lock[k] \notin {e, Nobody} => lock'[k] = lock[k]
    BY <1>1, <1>2, <1>4, HoldStep DEF DevInv
  <2>7. /\ settings' = settings /\ cast' = cast /\ faults' = faults
        /\ state' = x /\ file' = Remembered
    BY <1>4 DEF Invalidate, Unavailable
  <2>. HIDE DEF x
  <2>8. Local(e)
    <3>1. op'[e].pc \in StepsOf(e)
      BY <1>1, <2>2, <2>5 DEF StepsOf, EditSteps
    <3>2. op'[e].read \in {Missing} \cup Settings
      BY <1>1, <2>2, <2>5 DEF DevInv, TypeOK
    <3>. QED BY <2>5, <2>6, <2>7, <3>1, <3>2 DEF Local
  <2>9. TypeOK'
    <3>1. settings' \in Settings /\ file' \in [Files -> Tokens \cup {Missing}]
      BY <2>7, RememberedHeld DEF DevInv, TypeOK
    <3>. QED BY <1>1, <2>4, <2>7, <2>8, <3>1, LocalTypes DEF DevInv
  <2>10. ReadyIsWhole' /\ ReadyMatchesSettings'
    BY <2>4, <2>7 DEF ReadyIsWhole, ReadyMatchesSettings
  <2>11. ASSUME NEW b \in Actors PROVE IdleInv(b)'
    BY <2>2, <2>5 DEF DevInv, IdleInv
  <2>12. ASSUME NEW b \in Editors PROVE EditInv(b)' /\ (b # e => ~Holding(b)')
    <3>1. CASE b = e
      <4>1. state.status = "ready" =>
              /\ \A f \in Files : file'[f] = state.token
              /\ state.input = InputRevision(settings)
        BY <2>7, RememberedHeld DEF DevInv, ReadyIsWhole, ReadyMatchesSettings, Whole
      <4>. QED BY <1>2, <1>3, <2>2, <2>4, <2>5, <2>6, <2>7, <3>1, <4>1, NobodyAssumption
               DEF EditInv, InputRevision
    <3>2. CASE b # e
      <4>1. /\ op'[b] = op[b] /\ EditInv(b) /\ b # Nobody
            /\ op[b].pc \notin EditSteps \ {"change"}
        BY <1>2, <2>5, <3>2, Kinds DEF DevInv, Actors, EditInv
      <4>. QED BY <4>1 DEF EditInv, Holding, EditSteps
    <3>. QED BY <3>1, <3>2
  <2>13. ASSUME NEW s \in Setups PROVE SetupInv(s)' /\ MeetInv(s, e)'
    <3>1. s \in Actors /\ s # e /\ s # Nobody /\ op'[s] = op[s] /\ SetupInv(s)
      BY <1>1, <2>5, Kinds DEF DevInv, Actors
    <3>2. op[s].pc \notin {"start", "complete"}
      BY <1>1, <3>1 DEF SetupInv, SetupLocks
    <3>3. Fresh # op[s].token
      BY <1>3, <3>1, HeldTokens
    <3>4. SetupLocks(s)'
      BY <2>6, <3>1, <3>2 DEF SetupInv, SetupLocks
    <3>5. SetupFiles(s)'
      BY <2>7, <3>1, RememberedHeld DEF DevInv, SetupInv, SetupFiles
    <3>6. SetupState(s)'
      BY <2>4, <2>7, <3>1, <3>2, <3>3 DEF SetupInv, SetupState, Working
    <3>7. MeetInv(s, e)'
      BY <2>2, <2>5, <2>7, <3>1, <3>3
      DEF SetupInv, SetupState, MeetInv, Working, InputRevision
    <3>. QED BY <3>4, <3>5, <3>6, <3>7 DEF SetupInv
  <2>14. ASSUME NEW s \in Setups, NEW b \in Editors PROVE MeetInv(s, b)'
    BY <2>12, <2>13 DEF MeetInv
  <2>. QED BY <2>9, <2>10, <2>11, <2>12, <2>13, <2>14 DEF DevInv
<1>. QED BY <1>1, <1>4, ReturnKeeps DEF Invalidate, Fails
\* The settings are replaced by the ones that were decided on; nothing ready and
\* nothing that may become ready is of the former ones.
LEMMA EditPublish ==
  ASSUME DevInv, NEW e \in Editors, PublishSettings(e)
  PROVE  DevInv'
<1>1. e \in Actors /\ op[e].pc = "publish" /\ e \notin Setups /\ e # Nobody
  BY Kinds DEF Actors, PublishSettings, At
<1>2. EditInv(e)
  BY DEF DevInv
<1>3. /\ lock["settings"] = e /\ op[e].next \in Settings
      /\ op[e].token = Missing => op[e].next.version = settings.version
      /\ op[e].token # Missing => Holding(e)
  BY <1>1, <1>2 DEF EditInv, EditSteps, Holding
<1>4. cast' = cast /\ faults' = faults /\ state' = state /\ file' = file
  BY DEF PublishSettings
<1>5. ASSUME settings' = op[e].next, Return(e) PROVE DevInv'
  <2>1. Ended(e) /\ Local(e) /\ op'[e] = NoOp
    BY <1>1, <1>4, <1>5, ReturnEnds DEF DevInv, Ended
  <2>2. TypeOK'
    BY <1>1, <1>3, <1>4, <1>5, <2>1, LocalTypes DEF DevInv, TypeOK
  <2>3. \/ settings'.version = settings.version
        \/ Holding(e) /\ lock["state"] = e /\ state.status = "unavailable"
           /\ state.token = op[e].token
    BY <1>2, <1>3, <1>5 DEF EditInv
  <2>4. ReadyIsWhole' /\ ReadyMatchesSettings'
    BY <1>4, <2>3
    DEF DevInv, ReadyIsWhole, ReadyMatchesSettings, Whole, InputRevision
  <2>5. ASSUME NEW b \in Actors, b # e PROVE op'[b] = op[b]
    BY <2>1, <2>5 DEF Local
  <2>6. Own(e)'
    BY <1>1, <2>1, EndedOwn
  <2>7. ASSUME NEW b \in Actors PROVE IdleInv(b)'
    BY <2>5, <2>6 DEF DevInv, IdleInv, Own
  <2>8. ASSUME NEW b \in Editors PROVE EditInv(b)' /\ ~Holding(b)'
    <3>1. CASE b = e
      BY <2>1, <2>6, <3>1 DEF Own, Holding, NoOp
    <3>2. CASE b # e
      <4>1. /\ op'[b] = op[b] /\ EditInv(b)
            /\ op[b].pc \notin EditSteps \ {"change"}
        BY <1>3, <2>5, <3>2 DEF DevInv, Actors, EditInv
      <4>. QED BY <4>1 DEF EditInv, Holding, EditSteps
    <3>. QED BY <3>1, <3>2
  <2>9. ASSUME NEW s \in Setups PROVE SetupInv(s)'
    <3>1. s \in Actors /\ s # e /\ s # Nobody /\ op'[s] = op[s] /\ SetupInv(s)
      BY <1>1, <2>5, Kinds DEF DevInv, Actors
    <3>2. lock["state"] = s => settings'.version = settings.version
      BY <2>3, <3>1
    <3>3. Working(s) /\ state.token = op[s].token
            => settings'.version = settings.version
      BY <2>3 DEF DevInv, MeetInv
    <3>4. \A k \in Locks : lock[k] = s => lock'[k] = s
      BY <2>1, <3>1 DEF Local
    <3>5. SetupLocks(s)'
      BY <3>1, <3>2, <3>4 DEF SetupInv, SetupLocks, InputRevision
    <3>6. SetupFiles(s)'
      BY <1>4, <3>1 DEF SetupInv, SetupFiles
    <3>7. SetupState(s)'
      BY <1>4, <3>1, <3>3 DEF SetupInv, SetupState, Working, InputRevision
    <3>. QED BY <3>5, <3>6, <3>7 DEF SetupInv
  <2>10. ASSUME NEW s \in Setups, NEW b \in Editors PROVE MeetInv(s, b)'
    BY <2>8 DEF MeetInv
  <2>. QED BY <2>2, <2>4, <2>7, <2>8, <2>9, <2>10 DEF DevInv
<1>6. ASSUME op[e].token # Missing, Goto(e, "restore"), lock' = lock, settings' = settings
      PROVE  DevInv'
  <2>1. "restore" \in StepsOf(e)
    BY <1>1 DEF StepsOf, EditSteps
  <2>2. /\ Local(e) /\ op'[e].pc = "restore" /\ op'[e].next = op[e].next
        /\ op'[e].before = op[e].before /\ op'[e].token = op[e].token
    BY <1>1, <1>4, <1>6, <2>1, GotoStep DEF DevInv, TypeOK, Local
  <2>3. EditInv(e)' /\ Holding(e)
    BY <1>1, <1>2, <1>3, <1>4, <1>6, <2>2 DEF EditInv, Holding, EditSteps, InputRevision
  <2>. QED BY <1>4, <1>6, <2>2, <2>3, EditKeeps DEF Quiet
<1>. QED BY <1>1, <1>4, <1>5, <1>6, ReturnKeeps DEF PublishSettings

\* What is put back is what was there, and nobody has made it worthless.
LEMMA PutBack ==
  ASSUME DevInv, NEW e \in Editors, op[e].pc \in {"restore", "drop"}, Return(e),
         state' = op[e].before, UNCHANGED <<faults, cast, settings, file>>
  PROVE  DevInv'
<1>1. e \in Actors /\ e \notin Setups /\ e # Nobody /\ EditInv(e)
  BY Kinds DEF Actors, DevInv
<1>2. Holding(e) /\ lock["state"] = e
  BY <1>1 DEF EditInv, Holding
<1>3. Ended(e) /\ Local(e) /\ op'[e] = NoOp
  BY <1>1, ReturnEnds DEF DevInv, Ended
<1>4. op[e].before \in States
  BY <1>1 DEF DevInv, TypeOK, Operations
<1>5. TypeOK'
  BY <1>1, <1>3, <1>4, LocalTypes DEF DevInv, TypeOK
<1>6. ReadyIsWhole' /\ ReadyMatchesSettings'
  BY <1>1, <1>2 DEF EditInv, ReadyIsWhole, ReadyMatchesSettings, Whole, InputRevision
<1>7. ASSUME NEW b \in Actors, b # e PROVE op'[b] = op[b]
  BY <1>3, <1>7 DEF Local
<1>8. Own(e)'
  BY <1>1, <1>3, EndedOwn
<1>9. ASSUME NEW b \in Actors PROVE IdleInv(b)'
  BY <1>7, <1>8 DEF DevInv, IdleInv, Own
<1>10. ASSUME NEW b \in Editors PROVE EditInv(b)' /\ ~Holding(b)'
  <2>1. CASE b = e
    BY <1>1, <1>3, <1>8, <2>1 DEF Own, Holding, NoOp
  <2>2. CASE b # e
    <3>1. op'[b] = op[b] /\ EditInv(b) /\ b # Nobody /\ b \in Actors
      BY <1>7, <2>2, Kinds DEF DevInv, Actors
    <3>2. ~Holding(b)
      BY <1>2, <2>2, <3>1 DEF EditInv
    <3>3. ~Holding(b)'
      BY <3>1, <3>2 DEF Holding
    <3>4. lock["settings"] = b => lock'["settings"] = b
      BY <1>3, <2>2, <3>1 DEF Local
    <3>. QED BY <3>1, <3>2, <3>3, <3>4 DEF EditInv
  <2>. QED BY <2>1, <2>2
<1>11. ASSUME NEW s \in Setups PROVE SetupInv(s)'
  <2>1. /\ s \in Actors /\ s # e /\ s # Nobody /\ op'[s] = op[s] /\ SetupInv(s)
        /\ MeetInv(s, e)
    BY <1>1, <1>7, Kinds DEF DevInv, Actors
  <2>2. op[s].pc \notin {"start", "complete"}
    BY <1>2, <2>1 DEF SetupInv, SetupLocks
  <2>3. SetupLocks(s)'
    BY <1>3, <2>1, <2>2 DEF SetupInv, SetupLocks, Local
  <2>4. SetupFiles(s)'
    BY <2>1 DEF SetupInv, SetupFiles
  <2>5. SetupState(s)'
    BY <1>2, <2>1, <2>2 DEF SetupInv, SetupState, MeetInv, Working, InputRevision
  <2>. QED BY <2>3, <2>4, <2>5 DEF SetupInv
<1>12. ASSUME NEW s \in Setups, NEW b \in Editors PROVE MeetInv(s, b)'
  BY <1>10 DEF MeetInv
<1>. QED BY <1>5, <1>6, <1>9, <1>10, <1>11, <1>12 DEF DevInv

LEMMA EditRestore ==
  ASSUME DevInv, NEW e \in Editors, Restore(e)
  PROVE  DevInv'
<1>1. e \in Actors /\ e \notin Setups /\ EditInv(e)
  BY Kinds DEF Actors, DevInv
<1>2. op[e].pc \in {"restore", "drop"} /\ UNCHANGED <<faults, cast, settings, file>>
  BY DEF Restore, At
<1>3. CASE state' = op[e].before /\ Return(e)
  BY <1>2, <1>3, PutBack
<1>4. CASE state' = state /\ Return(e)
  BY <1>1, <1>2, <1>4, ReturnKeeps
<1>5. CASE op[e].pc = "restore" /\ Goto(e, "drop") /\ UNCHANGED <<state, lock>>
  <2>1. "drop" \in StepsOf(e)
    BY <1>1 DEF StepsOf, EditSteps
  <2>2. /\ Local(e) /\ op'[e].pc = "drop" /\ op'[e].next = op[e].next
        /\ op'[e].before = op[e].before /\ op'[e].token = op[e].token
    BY <1>1, <1>2, <1>5, <2>1, GotoStep DEF DevInv, TypeOK, Local
  <2>3. EditInv(e)' /\ Holding(e)
    BY <1>1, <1>2, <1>5, <2>2 DEF EditInv, Holding, EditSteps, InputRevision
  <2>. QED BY <1>2, <1>5, <2>2, <2>3, EditKeeps DEF Quiet
<1>. QED BY <1>3, <1>4, <1>5 DEF Restore, At
-----------------------------------------------------------------------------
(* The steps of a check *)

LEMMA CheckKeepsInv ==
  ASSUME DevInv, NEW c \in Checkers, Check(c) \/ CheckStep(c)
  PROVE  DevInv'
<1>1. c \in Actors /\ c \notin Setups /\ c \notin Editors
  BY Kinds DEF Actors
<1>2. Quiet /\ cast' = cast /\ faults' = faults
  BY DEF Check, CheckStep, ReadBefore, ReadFiles, RequireFile, ReadAfter, Report, Quiet
<1>3. lock \in [Locks -> Actors \cup {Nobody}] /\ op[c] \in Operations
      /\ settings.version \in Versions /\ state \in States
      /\ op[c].read \in {Missing} \cup Versions
  BY <1>1 DEF DevInv, TypeOK, Settings
<1>4. ASSUME NEW l \in CheckSteps, Goto(c, l), lock' = lock PROVE DevInv'
  <2>1. l \in StepsOf(c) /\ l # "idle"
    BY <1>1 DEF StepsOf, CheckSteps
  <2>2. Local(c) /\ op'[c].pc # "idle"
    BY <1>1, <1>2, <1>3, <1>4, <2>1, GotoStep DEF DevInv, Local
  <2>. QED BY <1>2, <2>2, CheckKeeps
<1>5. ASSUME NEW o \in Operations, op' = [op EXCEPT ![c] = o], lock' = lock,
             o.pc \in CheckSteps, o.read \in {Missing} \cup Versions
      PROVE  DevInv'
  <2>1. op' \in [Actors -> Operations] /\ op'[c] = o
        /\ \A b \in Actors : b # c => op'[b] = op[b]
    BY <1>1, <1>5 DEF DevInv, TypeOK
  <2>2. Local(c) /\ op'[c].pc # "idle"
    BY <1>1, <1>2, <1>3, <1>5, <2>1 DEF Local, StepsOf, CheckSteps
  <2>. QED BY <1>2, <2>2, CheckKeeps
<1>6. CASE Check(c)
  <2>. DEFINE o == [op[c] EXCEPT !.read = InputRevision(settings), !.pc = "before"]
  <2>1. /\ o \in Operations /\ o.pc = "before" /\ o.read = settings.version
    BY <1>3 DEF Operations, CheckSteps, InputRevision
  <2>2. op' = [op EXCEPT ![c] = o] /\ lock' = lock
    BY <1>1, <1>6 DEF Check, DevInv, TypeOK
  <2>. HIDE DEF o
  <2>. QED BY <1>3, <1>5, <2>1, <2>2 DEF CheckSteps
<1>7. CASE ReadBefore(c)
  <2>1. ASSUME IsReady(c),
               op' = [op EXCEPT ![c] = [@ EXCEPT !.token = state.token, !.pc = "document"]],
               lock' = lock
        PROVE  DevInv'
    <3>. DEFINE o == [op[c] EXCEPT !.token = state.token, !.pc = "document"]
    <3>1. state.token \in {Missing} \cup Tokens
      BY <1>3, StateParts
    <3>2. o \in Operations /\ o.pc = "document" /\ o.read = op[c].read
      BY <1>3, <3>1 DEF Operations, CheckSteps
    <3>3. op' = [op EXCEPT ![c] = o]
      BY <1>1, <2>1 DEF DevInv, TypeOK
    <3>. HIDE DEF o
    <3>. QED BY <1>3, <1>5, <2>1, <3>2, <3>3 DEF CheckSteps
  <2>. QED BY <1>1, <1>2, <1>7, <2>1, ReturnKeeps DEF ReadBefore, Quiet
<1>8. CASE ReadFiles(c) \/ ReadAfter(c) \/ Report(c)
  <2>1. \/ \E l \in CheckSteps : Goto(c, l) /\ lock' = lock
        \/ Return(c)
    BY <1>8 DEF ReadFiles, RequireFile, ReadAfter, Report, CheckSteps
  <2>. QED BY <1>1, <1>2, <1>4, <2>1, ReturnKeeps DEF Quiet
<1>. QED BY <1>6, <1>7, <1>8 DEF CheckStep
-----------------------------------------------------------------------------
(* The invariant is inductive *)

LEMMA InitInv == Init => DevInv
<1>. SUFFICES ASSUME Init PROVE DevInv
  OBVIOUS
<1>1. FirstToken \in Tokens
  <2>1. Cardinality(Actors) \in Nat
    BY TokensAssumption, FS_CardinalityType
  <2>2. Tokens # {}
    BY <2>1, TokensAssumption, FS_EmptySet
  <2>. QED BY <2>2 DEF FirstToken
<1>2. settings \in Settings /\ settings.version \in Versions
  BY DEF Init, Settings
<1>3. op \in [Actors -> Operations] /\ \A a \in Actors : op[a] = NoOp
  BY NoOpType DEF Init
<1>4. /\ state \in States /\ file \in [Files -> Tokens \cup {Missing}]
      /\ ReadyIsWhole /\ ReadyMatchesSettings
  <2>1. CASE state = Unset /\ file = [f \in Files |-> Missing]
    BY <2>1, NoOpType DEF ReadyIsWhole, ReadyMatchesSettings, Unset, Provider
  <2>2. CASE /\ state = Provider("ready", InputRevision(settings), FirstToken)
             /\ file = [f \in Files |-> FirstToken]
    BY <1>1, <1>2, <2>2, ProviderType
    DEF ReadyIsWhole, ReadyMatchesSettings, Whole, InputRevision
  <2>. QED BY <2>1, <2>2 DEF Init
<1>5. TypeOK
  <2>1. faults \subseteq UNION FaultCases /\ cast \in Casts
    BY DEF Init
  <2>2. lock \in [Locks -> Actors \cup {Nobody}]
    BY DEF Init
  <2>3. NoOp.pc = "idle" /\ NoOp.read = Missing
    BY DEF NoOp
  <2>. QED BY <1>2, <1>3, <1>4, <2>1, <2>2, <2>3 DEF TypeOK
<1>6. \A a \in Actors : IdleInv(a)
  BY <1>3 DEF IdleInv
<1>7. NoOp.pc = "idle"
  BY DEF NoOp
<1>8. \A s \in Setups : SetupInv(s) /\ ~Working(s)
  BY <1>3, <1>7
  DEF Actors, SetupInv, SetupLocks, SetupFiles, SetupState, Working, SetupSteps
<1>9. \A e \in Editors : EditInv(e)
  BY <1>3, <1>7 DEF Actors, EditInv, Holding, EditSteps
<1>10. \A s \in Setups, e \in Editors : MeetInv(s, e)
  BY <1>8 DEF MeetInv
<1>. QED BY <1>4, <1>5, <1>6, <1>8, <1>9, <1>10 DEF DevInv

LEMMA ActorKeepsInv ==
  ASSUME DevInv, NEW a \in Actors, Request(a) \/ Step(a) \/ Crash(a)
  PROVE  DevInv'
<1>1. CASE LockTimeout(a)
  BY <1>1, ReturnKeeps DEF LockTimeout
<1>2. CASE Crash(a)
  BY <1>2, ReturnKeeps DEF Crash
<1>3. CASE a \in Setups /\ (Setup(a) \/ SetupStep(a))
  BY <1>3, SetupRequest, SetupLock, SetupCurrent, SetupStart, SetupInstall, SetupWrite,
     SetupCompare, SetupComplete DEF SetupStep, PublishScripts, PublishExport
<1>4. CASE a \in Editors /\ (Edit(a) \/ EditStep(a))
  BY <1>4, EditRequest, EditChange, EditInvalidate, EditPublish, EditRestore DEF EditStep
<1>5. CASE a \in Checkers /\ (Check(a) \/ CheckStep(a))
  BY <1>5, CheckKeepsInv
<1>. QED BY <1>1, <1>2, <1>3, <1>4, <1>5 DEF Request, Step

LEMMA StutterKeepsInv ==
  ASSUME DevInv, UNCHANGED vars
  PROVE  DevInv'
<1>1. TypeOK' /\ ReadyIsWhole' /\ ReadyMatchesSettings'
  BY DEF DevInv, vars, TypeOK, ReadyIsWhole, ReadyMatchesSettings, Whole, InputRevision
<1>2. \A a \in Actors : IdleInv(a)'
  BY DEF DevInv, vars, IdleInv
<1>3. \A s \in Setups : SetupInv(s)'
  BY DEF DevInv, vars, SetupInv, SetupLocks, SetupFiles, SetupState, Working, InputRevision
<1>4. \A e \in Editors : EditInv(e)'
  BY DEF DevInv, vars, EditInv, Holding, InputRevision
<1>5. \A s \in Setups, e \in Editors : MeetInv(s, e)'
  BY DEF DevInv, vars, MeetInv, Working, Holding, InputRevision
<1>. QED BY <1>1, <1>2, <1>3, <1>4, <1>5 DEF DevInv

LEMMA NextInv ==
  ASSUME DevInv, [Next]_vars
  PROVE  DevInv'
BY ActorKeepsInv, StutterKeepsInv DEF Next

THEOREM Invariance == Spec => []DevInv
<1>1. DevInv /\ [Next]_vars => DevInv'
  BY NextInv
<1>. QED BY <1>1, InitInv, PTL DEF Spec
-----------------------------------------------------------------------------
(* The theorems *)

\* Every variable keeps its type, for any setups, changes and checks.
THEOREM SetupTypes == Spec => []TypeOK
<1>1. DevInv => TypeOK
  BY DEF DevInv
<1>. QED BY <1>1, Invariance, PTL

\* A ready state vouches for the files and the settings as they are, whichever
\* setups and changes were interrupted or rolled back, and a state that may be
\* put back is not overwritten meanwhile.
THEOREM SetupsAreSafe == Spec => []SetupSafety
<1>1. DevInv => SetupSafety
  BY DEF DevInv, SetupSafety, InvalidationIsHeld, EditInv, Holding
<1>. QED BY <1>1, Invariance, PTL

\* A process changes nobody's operation but its own.
LEMMA OnlyItself ==
  ASSUME DevInv, NEW a \in Actors, Request(a) \/ Step(a) \/ Crash(a),
         NEW b \in Actors, b # a
  PROVE  op'[b] = op[b]
<1>1. op \in [Actors -> Operations]
  BY DEF DevInv, TypeOK
<1>2. CASE LockTimeout(a) \/ Crash(a)
  BY <1>1, <1>2 DEF LockTimeout, Crash, Return
<1>3. CASE Setup(a) \/ SetupStep(a)
  BY <1>1, <1>3
  DEF Setup, SetupStep, LockSetup, EnterSetup, RequireCurrent, Start, Install,
      PublishScripts, PublishExport, Write, Compare, Complete, Fails, Return, Goto
<1>4. CASE Edit(a) \/ EditStep(a)
  BY <1>1, <1>4
  DEF Edit, EditStep, Change, ChangeUnlocked, Invalidate, Unavailable,
      PublishSettings, Restore, Fails, Return, Goto
<1>5. CASE Check(a) \/ CheckStep(a)
  BY <1>1, <1>5
  DEF Check, CheckStep, ReadBefore, ReadFiles, RequireFile, ReadAfter, Report, Return, Goto
<1>. QED BY <1>2, <1>3, <1>4, <1>5 DEF Request, Step

\* A check comes to its answer only by its second reading of the state.
LEMMA BecomesReady ==
  ASSUME DevInv, NEW c \in Checkers, Request(c) \/ Step(c) \/ Crash(c),
         op[c].pc # "ready", op'[c].pc = "ready"
  PROVE  IsReady(c) /\ state.token = op[c].token
<1>1. c \in Actors /\ c \notin Setups /\ c \notin Editors
  BY Kinds DEF Actors
<1>2. op \in [Actors -> Operations] /\ op[c] \in Operations
  BY <1>1 DEF DevInv, TypeOK
<1>3. ~Return(c)
  BY <1>1, <1>2 DEF Return, NoOp
<1>4. ASSUME NEW l \in CheckSteps, Goto(c, l) PROVE l = "ready"
  BY <1>1, <1>2, <1>4 DEF Goto, Operations
<1>5. ~Check(c) /\ ~ReadBefore(c)
  BY <1>1, <1>2, <1>3 DEF Check, ReadBefore, Operations
<1>6. ~ReadFiles(c)
  BY <1>3, <1>4 DEF ReadFiles, RequireFile, CheckSteps
<1>7. ReadAfter(c)
  BY <1>1, <1>3, <1>5, <1>6 DEF Request, Step, CheckStep, Crash, LockTimeout, Report
<1>. QED BY <1>3, <1>7 DEF ReadAfter

\* The settings become what a change has decided on, or stay.
LEMMA SettingsStep ==
  ASSUME DevInv, NEW a \in Actors, Request(a) \/ Step(a) \/ Crash(a),
         settings' # settings
  PROVE  a \in Editors /\ op[a].pc = "publish" /\ settings' = op[a].next
<1>1. ~(LockTimeout(a) \/ Crash(a))
  BY DEF LockTimeout, Crash
<1>2. ~(Setup(a) \/ SetupStep(a))
  BY DEF Setup, SetupStep, LockSetup, EnterSetup, RequireCurrent, Start, Install,
         PublishScripts, PublishExport, Write, Compare, Complete
<1>3. ~(Check(a) \/ CheckStep(a))
  BY DEF Check, CheckStep, ReadBefore, ReadFiles, RequireFile, ReadAfter, Report
<1>4. ~(Edit(a) \/ Change(a) \/ Invalidate(a) \/ Restore(a))
  BY DEF Edit, Change, ChangeUnlocked, Invalidate, Restore
<1>5. a \in Editors /\ PublishSettings(a)
  BY <1>1, <1>2, <1>3, <1>4 DEF Request, Step, EditStep
<1>. QED BY <1>5 DEF PublishSettings, At

\* A check that finds the environment ready is right at that moment, although
\* it reads without a lock.
THEOREM ReportsAreCurrent == Spec => ReportIsCurrent
<1>1. DevInv /\ [Next]_vars =>
        [\A c \in Checkers :
           (op[c].pc # "ready" /\ op'[c].pc = "ready")
           => /\ state.status = "ready" /\ Whole(op[c].token)
              /\ state.input = InputRevision(settings)]_vars
  <2>. SUFFICES ASSUME DevInv, Next, NEW c \in Checkers,
                       op[c].pc # "ready", op'[c].pc = "ready"
                PROVE  /\ state.status = "ready" /\ Whole(op[c].token)
                       /\ state.input = InputRevision(settings)
    OBVIOUS
  <2>1. PICK a \in Actors : Request(a) \/ Step(a) \/ Crash(a)
    BY DEF Next
  <2>2. c \in Actors /\ c \notin Setups /\ c \notin Editors
    BY Kinds DEF Actors
  <2>3. a = c
    BY <2>1, <2>2, OnlyItself
  <2>4. IsReady(c) /\ state.token = op[c].token
    BY <2>1, <2>3, BecomesReady
  <2>. QED BY <2>4 DEF IsReady, DevInv, ReadyIsWhole, ReadyMatchesSettings
<1>. QED BY <1>1, Invariance, PTL DEF Spec, ReportIsCurrent

\* A change of one setting leaves the others as they are when it is published,
\* whatever other changes did since it was asked for.
THEOREM OneSettingChanges == Spec => ChangesOneSetting
<1>1. DevInv /\ [Next]_vars =>
        [Cardinality({x \in Addresses : settings'[x] # settings[x]}) <= 1]_vars
  <2>. SUFFICES ASSUME DevInv, Next
                PROVE  Cardinality({x \in Addresses : settings'[x] # settings[x]}) <= 1
    OBVIOUS
  <2>. DEFINE C == {x \in Addresses : settings'[x] # settings[x]}
  <2>1. C = {} \/ \E y \in Addresses : C \subseteq {y}
    <3>1. CASE settings' = settings
      BY <3>1
    <3>2. CASE settings' # settings
      <4>1. PICK a \in Actors : Request(a) \/ Step(a) \/ Crash(a)
        BY DEF Next
      <4>2. a \in Editors /\ op[a].pc = "publish" /\ settings' = op[a].next
        BY <3>2, <4>1, SettingsStep
      <4>3. \/ settings'["version"] = settings["version"]
            \/ settings'["spelling"] = settings["spelling"]
        BY <4>2 DEF DevInv, EditInv, EditSteps
      <4>. QED BY <4>3 DEF Addresses
    <3>. QED BY <3>1, <3>2
  <2>. HIDE DEF C
  <2>2. ASSUME C = {} PROVE Cardinality(C) <= 1
    BY <2>2, FS_EmptySet
  <2>3. ASSUME NEW y \in Addresses, C \subseteq {y} PROVE Cardinality(C) <= 1
    <3>1. IsFiniteSet({y}) /\ Cardinality({y}) = 1
      BY FS_Singleton
    <3>2. C \in SUBSET {y}
      BY <2>3
    <3>. QED BY <3>1, <3>2, FS_Subset
  <2>4. Cardinality(C) <= 1
    BY <2>1, <2>2, <2>3
  <2>. QED BY <2>4 DEF C
<1>. QED BY <1>1, Invariance, PTL DEF Spec, ChangesOneSetting

\* Nobody reports or writes from what he read before it changed.
THEOREM NothingGoesStale == Spec => NothingIsStale
BY ReportsAreCurrent, OneSettingChanges, PTL DEF NothingIsStale
=============================================================================
