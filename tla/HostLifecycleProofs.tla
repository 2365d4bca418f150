------------------------- MODULE HostLifecycleProofs -------------------------
(***************************************************************************)
(* Theorems about the processes of the Entry Host, for any number of       *)
(* processes, releases, ports and commands and any combination of faults.  *)
(*                                                                         *)
(* The argument: the lease of a release is empty before a process becomes  *)
(* its host and holds that process until its server thread has ended       *)
(* (ProcInv), so there is one such process (OneHost) and only it listens.  *)
(* What a document or a waiting launch names is a process of their own     *)
(* release (DocumentInv, ProcInv), because a process never changes its     *)
(* release.  A coordinator runs only while its restart is prepared or      *)
(* after it was accepted (ProcInv).                                        *)
(***************************************************************************)
EXTENDS HostLifecycle, TLAPS, FiniteSetTheorems

Labels == {"unused", "launched", "holding", "waiting", "probing", "resuming", "loop",
           "joining", "reading", "removing"} \cup Ended

\* A process that is the host of its release.
Hosting == {"resuming", "loop", "joining"}

States == [pc : Labels, release : Releases,
           server : {"none", "binding", "announced", "serving", "draining", "ended"},
           port : Ports, events : Seq({"Ready", "Stopped"}), quitting : BOOLEAN,
           control : {"RUNNING", "PREPARING_RESTART", "STOPPING"},
           prepare : {"none", "spawning", "waiting", "killing"},
           seen : Procs \cup {None}]

Coordinators == [state : {"none", "starting", "ready", "done"}, signalled : BOOLEAN]

LEMMA TypeParts ==
    TypeOK <=> /\ faults \subseteq FaultKinds /\ selected \in Releases
               /\ host \in [Procs -> States]
               /\ lease \in [Releases -> SUBSET Procs]
               /\ document \in [Releases -> Procs \cup {None}]
               /\ coordinator \in [Procs -> Coordinators]
               /\ client \in [Clients -> Procs \cup {None}]
  BY DEF TypeOK, States, Labels, Coordinators

\* What holds of each process.
ProcInv(p) ==
    /\ host[p].pc \in Hosting => p \in lease[host[p].release]
    /\ host[p].server \notin {"none", "ended"} => host[p].pc \in Hosting
    /\ host[p].prepare # "none" => host[p].control = "PREPARING_RESTART"
    /\ CoordinatorRuns(p) =>
         \/ host[p].pc \in Ended
         \/ /\ host[p].pc # "unused"
            /\ host[p].control = "STOPPING" \/ host[p].prepare \in {"waiting", "killing"}
    /\ host[p].pc = "probing" => host[p].seen # None
    /\ host[p].seen # None =>
         /\ host[p].pc # "unused" /\ host[host[p].seen].pc # "unused"
         /\ host[host[p].seen].release = host[p].release

\* A release has one host.
OneHost ==
    \A p, q \in Procs : p # q /\ host[p].pc \in Hosting /\ host[q].pc \in Hosting
                          => host[p].release # host[q].release

\* The document of a release names a process of that release.
DocumentInv ==
    \A r \in Releases : document[r] # None =>
        host[document[r]].pc # "unused" /\ host[document[r]].release = r

HostInv ==
    /\ TypeOK /\ OneHost /\ DocumentInv
    /\ \A p \in Procs : ProcInv(p)

\* A step changes the state of one process, which never leaves its release, and
\* becomes the host of it only when nobody has its lease.
HostStep(p) ==
    /\ host' \in [Procs -> States] /\ \A q \in Procs \ {p} : host'[q] = host[q]
    /\ host[p].pc # "unused" =>
         host'[p].pc # "unused" /\ host'[p].release = host[p].release
    /\ host'[p].pc \in Hosting =>
         \/ host[p].pc \in Hosting
         \/ host[p].pc = "launched" /\ lease[host[p].release] = {}
    /\ host'[p].pc = "activated" =>
         host[p].pc = "activated" \/ (host[p].pc = "probing" /\ Answers(host[p].seen))

\* What a step of a process does to what the processes share.
SharedStep(p) ==
    /\ faults' \subseteq FaultKinds /\ selected' \in Releases
    /\ lease' \in [Releases -> SUBSET Procs]
    /\ document' \in [Releases -> Procs \cup {None}]
    /\ coordinator' \in [Procs -> Coordinators]
    /\ client' \in [Clients -> Procs \cup {None}]
    /\ \A r \in Releases : lease[r] \ {p} \subseteq lease'[r]
    /\ \A r \in Releases :
         \/ document'[r] \in {None, document[r]}
         \/ document'[r] = p /\ host[p].pc # "unused" /\ host[p].release = r
    /\ \A q \in Procs \ {p} : CoordinatorRuns(q)' => CoordinatorRuns(q)
    /\ \A c \in Clients : client'[c] \in {None, client[c]} \/ Serving(client'[c])

LEMMA SharedUnchanged ==
    ASSUME HostInv, NEW p \in Procs,
           UNCHANGED <<faults, selected, lease, document, coordinator, client>>
    PROVE  SharedStep(p)
  BY TypeParts DEF HostInv, SharedStep, CoordinatorRuns

LEMMA StepKeepsInv ==
    ASSUME HostInv, NEW p \in Procs, HostStep(p), SharedStep(p), ProcInv(p)'
    PROVE  HostInv'
<1>1. /\ host \in [Procs -> States] /\ document \in [Releases -> Procs \cup {None}]
      /\ lease \in [Releases -> SUBSET Procs]
  BY TypeParts DEF HostInv
<1>2. \A q \in Procs : host[q].release \in Releases /\ host[q].seen \in Procs \cup {None}
  BY <1>1 DEF States
<1>3. TypeOK'
  BY DEF HostStep, SharedStep, TypeOK, States, Labels, Coordinators
<1>4. OneHost'
  <2>1. ASSUME NEW q \in Procs, q # p, host'[p].pc \in Hosting, host[q].pc \in Hosting
        PROVE  host'[p].release # host[q].release
    <3>1. ProcInv(q) /\ OneHost
      BY DEF HostInv
    <3>2. host[p].pc # "unused" /\ host'[p].release = host[p].release
      BY <2>1 DEF HostStep, Hosting
    <3>. QED BY <1>2, <2>1, <3>1, <3>2 DEF HostStep, ProcInv, OneHost
  <2>. QED BY <2>1 DEF HostInv, OneHost, HostStep
<1>5. DocumentInv'
  <2>. SUFFICES ASSUME NEW r \in Releases, document'[r] # None
                PROVE  host'[document'[r]].pc # "unused" /\ host'[document'[r]].release = r
    BY DEF DocumentInv
  <2>1. document'[r] \in Procs
    BY <1>3, TypeParts DEF TypeOK, None
  <2>2. host[document'[r]].pc # "unused" /\ host[document'[r]].release = r
    BY DEF HostInv, DocumentInv, SharedStep
  <2>. QED BY <2>1, <2>2 DEF HostStep
<1>6. ASSUME NEW q \in Procs \ {p} PROVE ProcInv(q)'
  <2>1. ProcInv(q)
    BY DEF HostInv
  <2>2. host'[q] = host[q]
    BY DEF HostStep
  <2>3. host[q].seen # None =>
          host'[host[q].seen].pc # "unused" /\ host'[host[q].seen].release = host[q].release
    BY <1>2, <2>1 DEF ProcInv, HostStep
  <2>. QED BY <1>2, <2>1, <2>2, <2>3 DEF ProcInv, SharedStep
<1>. QED BY <1>3, <1>4, <1>5, <1>6 DEF HostInv

\* A process that ends keeps its release and its port.
LEMMA PortsTyped == (CHOOSE n \in Ports : TRUE) \in Ports
<1>1. Ports # {}
  <2>. SUFFICES ASSUME Ports = {} PROVE FALSE
    OBVIOUS
  <2>1. Cardinality(Ports) = 0
    BY FS_EmptySet
  <2>. QED BY <2>1, HostAssumption
<1>. QED BY <1>1

LEMMA UnbornTyped == Unborn \in States
<1>1. <<>> \in Seq({"Ready", "Stopped"})
  OBVIOUS
<1>2. 1 \in Releases
  BY HostAssumption DEF Releases
<1>. QED BY <1>1, <1>2, PortsTyped DEF Unborn, States, Labels

LEMMA ExitIs ==
    ASSUME HostInv, NEW p \in Procs, NEW how \in Ended, Exit(p, how)
    PROVE  /\ host' \in [Procs -> States] /\ \A q \in Procs \ {p} : host'[q] = host[q]
           /\ host'[p].pc = how /\ host'[p].server = "ended"
           /\ host'[p].release = host[p].release /\ host'[p].control = "RUNNING"
           /\ host'[p].prepare = "none" /\ host'[p].seen = None
<1> DEFINE new == [Unborn EXCEPT !.pc = how, !.server = "ended",
                                 !.release = host[p].release, !.port = host[p].port]
<1>1. host \in [Procs -> States]
  BY TypeParts DEF HostInv
<1>2. /\ new.pc = how /\ new.server = "ended" /\ new.release = host[p].release
      /\ new.control = "RUNNING" /\ new.prepare = "none" /\ new.seen = None
  BY DEF Unborn
<1>3. new \in States
  BY <1>1, UnbornTyped DEF States, Labels
<1>4. host' = [host EXCEPT ![p] = new]
  BY DEF Exit
<1>. HIDE DEF new
<1>. QED BY <1>1, <1>2, <1>3, <1>4

\* An end takes the process out of all that the invariant says of it.
LEMMA ExitStep ==
    ASSUME HostInv, NEW p \in Procs, NEW how \in Ended, Exit(p, how),
           UNCHANGED coordinator, host[p].pc # "unused",
           how = "activated" => host[p].pc = "probing" /\ Answers(host[p].seen)
    PROVE  HostStep(p) /\ ProcInv(p)'
<1>1. /\ host' \in [Procs -> States] /\ \A q \in Procs \ {p} : host'[q] = host[q]
      /\ host'[p].pc = how /\ host'[p].server = "ended"
      /\ host'[p].release = host[p].release /\ host'[p].control = "RUNNING"
      /\ host'[p].prepare = "none" /\ host'[p].seen = None
  BY ExitIs
<1>2. HostStep(p)
  BY <1>1 DEF HostStep, Ended, Hosting
<1>3. ProcInv(p)'
  BY <1>1 DEF ProcInv, Ended, Hosting
<1>. QED BY <1>2, <1>3

\* A step that leaves what the process has seen.
LEMMA SeenKept ==
    ASSUME HostInv, NEW p \in Procs, HostStep(p), host'[p].seen = host[p].seen
    PROVE  host'[p].seen # None =>
             /\ host'[p].pc # "unused" /\ host'[host'[p].seen].pc # "unused"
             /\ host'[host'[p].seen].release = host'[p].release
<1>1. ProcInv(p) /\ host[p].seen \in Procs \cup {None}
  BY TypeParts DEF HostInv, States
<1>. QED BY <1>1 DEF ProcInv, HostStep

\* A process that runs gets a new state: what its fields must be.
NewState(p, s) ==
    /\ host[p].pc # "unused" /\ s.pc \notin {"unused", "activated"}
    /\ s.release = host[p].release
    /\ s.pc \in Hosting => host[p].pc \in Hosting /\ p \in lease'[s.release]
    /\ s.server \notin {"none", "ended"} => s.pc \in Hosting
    /\ s.prepare # "none" => s.control = "PREPARING_RESTART"
    /\ CoordinatorRuns(p)' =>
         \/ s.pc \in Ended
         \/ s.control = "STOPPING" \/ s.prepare \in {"waiting", "killing"}
    /\ s.pc = "probing" => s.seen # None
    /\ s.seen \in {None, host[p].seen}

LEMMA NewStateStep ==
    ASSUME HostInv, NEW p \in Procs, NEW s \in States, host' = [host EXCEPT ![p] = s],
           NewState(p, s)
    PROVE  HostStep(p) /\ ProcInv(p)'
<1>1. /\ host' \in [Procs -> States] /\ \A q \in Procs \ {p} : host'[q] = host[q]
      /\ host'[p] = s
  BY TypeParts DEF HostInv
<1>2. HostStep(p)
  BY <1>1 DEF HostStep, NewState
<1>3. host'[p].seen # None =>
        /\ host'[p].pc # "unused" /\ host'[host'[p].seen].pc # "unused"
        /\ host'[host'[p].seen].release = host'[p].release
  BY <1>1, <1>2, SeenKept DEF NewState
<1>. QED BY <1>1, <1>2, <1>3 DEF ProcInv, NewState, CoordinatorRuns

LEMMA EventsTyped ==
    ASSUME HostInv, NEW p \in Procs
    PROVE  /\ <<>> \in Seq({"Ready", "Stopped"})
           /\ \A e \in {"Ready", "Stopped"} :
                Append(host[p].events, e) \in Seq({"Ready", "Stopped"})
           /\ host[p].events # <<>> => Tail(host[p].events) \in Seq({"Ready", "Stopped"})
<1>1. host[p].events \in Seq({"Ready", "Stopped"})
  BY TypeParts DEF HostInv, States
<1>. QED BY <1>1
---------------------------------------------------------------------------
(* The invariant is inductive *)

\* A shutdown or a restart is requested of a host that serves.
LEMMA RequestStep ==
    ASSUME HostInv, NEW p \in Procs, Serving(p), Request(p),
           UNCHANGED <<lease, coordinator>>
    PROVE  HostStep(p) /\ ProcInv(p)'
<1>1. host \in [Procs -> States] /\ host[p] \in States /\ ProcInv(p)
  BY TypeParts DEF HostInv
<1>2. CASE RequestShutdown(p)
  <2> DEFINE s == [host[p] EXCEPT !.control = "STOPPING"]
  <2>1. s \in States
    BY <1>1 DEF States
  <2>2. host' = [host EXCEPT ![p] = s]
    BY <1>1, <1>2 DEF RequestShutdown, States
  <2>3. NewState(p, s)
    BY <1>1, <1>2 DEF RequestShutdown, Serving, NewState, ProcInv, States, Hosting
  <2>. HIDE DEF s
  <2>. QED BY <2>1, <2>2, <2>3, NewStateStep
<1>3. CASE RequestRestart(p)
  <2> DEFINE s == [host[p] EXCEPT !.control = "PREPARING_RESTART", !.prepare = "spawning"]
  <2>1. s \in States
    BY <1>1 DEF States
  <2>2. host' = [host EXCEPT ![p] = s]
    BY <1>1, <1>3 DEF RequestRestart, States
  <2>3. NewState(p, s)
    BY <1>1, <1>3 DEF RequestRestart, Serving, NewState, ProcInv, States, Hosting,
                      Ended, CoordinatorRuns
  <2>. HIDE DEF s
  <2>. QED BY <2>1, <2>2, <2>3, NewStateStep
<1>. QED BY <1>2, <1>3 DEF Request

\* A launch, until it is the host of its release, has found one or has ended.
LEMMA LaunchKeepsInv ==
    ASSUME HostInv, NEW p \in Procs, 
           \/ Launch(p) \/ LaunchFails(p) \/ AcquirePrimary(p) \/ AcquireExisting(p)
           \/ DropHandle(p) \/ ReadDocument(p) \/ Activate(p) \/ Retry(p) \/ GiveUp(p)
    PROVE  HostInv' /\ HostStep(p) /\ SharedStep(p)
<1>1. /\ host \in [Procs -> States] /\ lease \in [Releases -> SUBSET Procs]
      /\ document \in [Releases -> Procs \cup {None}]
      /\ coordinator \in [Procs -> Coordinators]
      /\ client \in [Clients -> Procs \cup {None}]
      /\ faults \subseteq FaultKinds /\ selected \in Releases
      /\ ProcInv(p) /\ DocumentInv
  BY TypeParts DEF HostInv
<1>2. /\ host[p].release \in Releases /\ host[p].seen \in Procs \cup {None}
      /\ host[p] \in States
  BY <1>1 DEF States
<1>3. CASE Launch(p)
  <2>1. HostStep(p)
    BY <1>3, <1>1, <1>2 DEF Launch, StartProcess, Unused, Usable, HostStep,
       States, Labels, Hosting
  <2>2. SharedStep(p)
    BY <1>3, SharedUnchanged DEF Launch, StartProcess, Unused, Usable
  <2>3. ProcInv(p)'
    <3>1. /\ host'[p].pc = "launched" /\ host'[p].seen = host[p].seen
          /\ host'[p].server = host[p].server /\ host'[p].prepare = host[p].prepare
          /\ host'[p].control = host[p].control /\ host[p].pc = "unused"
          /\ UNCHANGED coordinator
      BY <1>3, <1>1 DEF Launch, StartProcess, Unused, States
    <3>. QED BY <1>1, <3>1 DEF ProcInv, Hosting, CoordinatorRuns, Ended
  <2>. QED BY <2>1, <2>2, <2>3, StepKeepsInv
<1>4. CASE LaunchFails(p)
  <2>1. /\ Exit(p, "failed") /\ host[p].pc # "unused" /\ UNCHANGED coordinator
    BY <1>4 DEF LaunchFails
  <2>2. HostStep(p) /\ ProcInv(p)'
    BY <2>1, ExitStep DEF Ended
  <2>3. SharedStep(p)
    BY <1>4, SharedUnchanged DEF LaunchFails
  <2>. QED BY <2>2, <2>3, StepKeepsInv
<1>5. CASE AcquirePrimary(p)
  <2>1. HostStep(p)
    BY <1>5, <1>1, <1>2 DEF AcquirePrimary, HostStep, States, Labels, Hosting
  <2>2. SharedStep(p)
    BY <1>5, <1>1, <1>2 DEF AcquirePrimary, SharedStep, CoordinatorRuns
  <2>3. /\ host'[p] = [host[p] EXCEPT !.pc = "resuming", !.server = "binding"]
        /\ p \in lease'[host[p].release] /\ UNCHANGED coordinator
        /\ host[p].pc = "launched" /\ host[p].seen \in Procs \cup {None}
    BY <1>5, <1>1, <1>2 DEF AcquirePrimary, States
  <2>4. \A q \in Procs : host[q].pc # "unused" =>
          host'[q].pc # "unused" /\ host'[q].release = host[q].release
    BY <2>1 DEF HostStep
  <2>5. ProcInv(p)'
    BY <1>1, <2>3, <2>4 DEF ProcInv, States, Hosting, CoordinatorRuns, Ended
  <2>. QED BY <2>1, <2>2, <2>5, StepKeepsInv
<1>6. CASE AcquireExisting(p)
  <2> DEFINE s == [host[p] EXCEPT !.pc = "holding"]
  <2>1. s \in States
    BY <1>6, <1>2, EventsTyped DEF AcquireExisting, States, Labels
  <2>2. host' = [host EXCEPT ![p] = s]
    BY <1>6, <1>1 DEF AcquireExisting, States
  <2>3. NewState(p, s)
    BY <1>6, <1>1, <1>2 DEF AcquireExisting, NewState, ProcInv, States,
       Hosting, Ended, CoordinatorRuns
  <2>4. SharedStep(p)
    BY <1>6, <1>1, <1>2 DEF AcquireExisting, SharedStep, CoordinatorRuns
  <2>. HIDE DEF s
  <2>5. HostStep(p) /\ ProcInv(p)'
    BY <2>1, <2>2, <2>3, NewStateStep
  <2>. QED BY <2>4, <2>5, StepKeepsInv
<1>7. CASE DropHandle(p)
  <2> DEFINE s == [host[p] EXCEPT !.pc = "waiting"]
  <2>1. s \in States
    BY <1>7, <1>2, EventsTyped DEF DropHandle, Release, States, Labels
  <2>2. host' = [host EXCEPT ![p] = s]
    BY <1>7, <1>1 DEF DropHandle, Release, States
  <2>3. NewState(p, s)
    BY <1>7, <1>1, <1>2 DEF DropHandle, Release, NewState, ProcInv, States,
       Hosting, Ended, CoordinatorRuns
  <2>4. SharedStep(p)
    BY <1>7, <1>1, <1>2 DEF DropHandle, Release, SharedStep, CoordinatorRuns
  <2>. HIDE DEF s
  <2>5. HostStep(p) /\ ProcInv(p)'
    BY <2>1, <2>2, <2>3, NewStateStep
  <2>. QED BY <2>4, <2>5, StepKeepsInv
<1>8. CASE ReadDocument(p)
  <2>1. HostStep(p)
    BY <1>8, <1>1, <1>2 DEF ReadDocument, HostStep, States, Labels, Hosting
  <2>2. SharedStep(p)
    BY <1>8, SharedUnchanged DEF ReadDocument
  <2>3. ProcInv(p)'
    <3>1. /\ document[host[p].release] \in Procs
          /\ host[document[host[p].release]].pc # "unused"
          /\ host[document[host[p].release]].release = host[p].release
      BY <1>8, <1>1, <1>2 DEF ReadDocument, DocumentInv, None
    <3>2. /\ host'[p].pc = "probing" /\ host'[p].seen = document[host[p].release]
          /\ host'[p].server = host[p].server /\ host'[p].prepare = host[p].prepare
          /\ host'[p].control = host[p].control
          /\ host'[p].release = host[p].release
          /\ host[p].pc = "waiting" /\ UNCHANGED coordinator
      BY <1>8, <1>1, <1>2 DEF ReadDocument, States
    <3>3. /\ host'[document[host[p].release]].pc # "unused"
          /\ host'[document[host[p].release]].release = host[p].release
      BY <3>1, <3>2, <2>1 DEF HostStep
    <3>4. document[host[p].release] # None
      BY <1>8 DEF ReadDocument
    <3>. QED BY <1>1, <3>2, <3>3, <3>4 DEF ProcInv, Hosting, Ended, CoordinatorRuns
  <2>. QED BY <2>1, <2>2, <2>3, StepKeepsInv
<1>9. CASE Activate(p)
  <2>1. /\ Exit(p, "activated") /\ host[p].pc # "unused" /\ UNCHANGED coordinator
        /\ host[p].pc = "probing" /\ Answers(host[p].seen)
    BY <1>9 DEF Activate
  <2>2. HostStep(p) /\ ProcInv(p)'
    BY <2>1, ExitStep DEF Ended
  <2>3. SharedStep(p)
    BY <1>9, SharedUnchanged DEF Activate
  <2>. QED BY <2>2, <2>3, StepKeepsInv
<1>10. CASE Retry(p)
  <2> DEFINE s == [host[p] EXCEPT !.seen = None, !.pc = "waiting"]
  <2>1. s \in States
    BY <1>10, <1>2, EventsTyped DEF Retry, AttemptFails, States, Labels
  <2>2. host' = [host EXCEPT ![p] = s]
    BY <1>10, <1>1 DEF Retry, AttemptFails, States
  <2>3. NewState(p, s)
    BY <1>10, <1>1, <1>2 DEF Retry, AttemptFails, NewState, ProcInv, States,
       Hosting, Ended, CoordinatorRuns
  <2>4. SharedStep(p)
    BY <1>10, SharedUnchanged DEF Retry, AttemptFails
  <2>. HIDE DEF s
  <2>5. HostStep(p) /\ ProcInv(p)'
    BY <2>1, <2>2, <2>3, NewStateStep
  <2>. QED BY <2>4, <2>5, StepKeepsInv
<1>11. CASE GiveUp(p)
  <2>1. /\ Exit(p, "failed") /\ host[p].pc # "unused" /\ UNCHANGED coordinator
    BY <1>11 DEF GiveUp, AttemptFails
  <2>2. HostStep(p) /\ ProcInv(p)'
    BY <2>1, ExitStep DEF Ended
  <2>3. SharedStep(p)
    BY <1>11, SharedUnchanged DEF GiveUp, AttemptFails
  <2>. QED BY <2>2, <2>3, StepKeepsInv
<1>. QED BY <1>3, <1>4, <1>5, <1>6, <1>7, <1>8, <1>9, <1>10, <1>11

\* The event loop of a host, and its end.
LEMMA LoopKeepsInv ==
    ASSUME HostInv, NEW p \in Procs, 
           \/ Resume(p) \/ Quit(p) \/ HandleReady(p) \/ HandleReadyFails(p)
           \/ HandleStopped(p) \/ JoinServer(p) \/ ReadOwn(p) \/ RemoveOwn(p) \/ Crash(p)
    PROVE  HostInv' /\ HostStep(p) /\ SharedStep(p)
<1>1. /\ host \in [Procs -> States] /\ lease \in [Releases -> SUBSET Procs]
      /\ document \in [Releases -> Procs \cup {None}]
      /\ coordinator \in [Procs -> Coordinators]
      /\ client \in [Clients -> Procs \cup {None}]
      /\ faults \subseteq FaultKinds /\ selected \in Releases
      /\ ProcInv(p) /\ DocumentInv
  BY TypeParts DEF HostInv
<1>2. /\ host[p].release \in Releases /\ host[p].seen \in Procs \cup {None}
      /\ host[p] \in States
  BY <1>1 DEF States
<1>3. CASE Resume(p)
  <2>1. SharedStep(p)
    BY <1>3, SharedUnchanged DEF Resume
  <2>2. CASE host' = [host EXCEPT ![p].pc = "loop"]
    <3> DEFINE s == [host[p] EXCEPT !.pc = "loop"]
    <3>1. s \in States
      BY <1>3, <1>2, EventsTyped DEF Resume, States, Labels
    <3>2. host' = [host EXCEPT ![p] = s]
      BY <1>3, <1>1, <2>2 DEF Resume, States
    <3>3. NewState(p, s)
      BY <1>3, <1>1, <1>2, <2>2 DEF Resume, NewState, ProcInv, States,
         Hosting, Ended, CoordinatorRuns
    <3>. HIDE DEF s
    <3>4. HostStep(p) /\ ProcInv(p)'
      BY <3>1, <3>2, <3>3, NewStateStep
    <3>. QED BY <2>1, <3>4, StepKeepsInv
  <2>3. CASE host' = [host EXCEPT ![p] = [@ EXCEPT !.pc = "joining", !.quitting = TRUE]]
    <3> DEFINE s == [host[p] EXCEPT !.pc = "joining", !.quitting = TRUE]
    <3>1. s \in States
      BY <1>3, <1>2, EventsTyped DEF Resume, States, Labels
    <3>2. host' = [host EXCEPT ![p] = s]
      BY <1>3, <1>1, <2>3 DEF Resume, States
    <3>3. NewState(p, s)
      BY <1>3, <1>1, <1>2, <2>3 DEF Resume, NewState, ProcInv, States,
         Hosting, Ended, CoordinatorRuns
    <3>. HIDE DEF s
    <3>4. HostStep(p) /\ ProcInv(p)'
      BY <3>1, <3>2, <3>3, NewStateStep
    <3>. QED BY <2>1, <3>4, StepKeepsInv
  <2>. QED BY <2>2, <2>3, <1>3 DEF Resume
<1>4. CASE Quit(p)
  <2> DEFINE s == [host[p] EXCEPT !.quitting = TRUE]
  <2>1. s \in States
    BY <1>4, <1>2, EventsTyped DEF Quit, States, Labels
  <2>2. host' = [host EXCEPT ![p] = s]
    BY <1>4, <1>1 DEF Quit, States
  <2>3. NewState(p, s)
    BY <1>4, <1>1, <1>2 DEF Quit, NewState, ProcInv, States, Hosting, Ended,
       CoordinatorRuns
  <2>4. SharedStep(p)
    BY <1>4, SharedUnchanged DEF Quit
  <2>. HIDE DEF s
  <2>5. HostStep(p) /\ ProcInv(p)'
    BY <2>1, <2>2, <2>3, NewStateStep
  <2>. QED BY <2>4, <2>5, StepKeepsInv
<1>5. CASE HandleReady(p)
  <2> DEFINE s == [host[p] EXCEPT !.events = Tail(host[p].events)]
  <2>1. s \in States
    BY <1>5, <1>2, EventsTyped DEF HandleReady, States, Labels
  <2>2. host' = [host EXCEPT ![p] = s]
    BY <1>5, <1>1 DEF HandleReady, States
  <2>3. NewState(p, s)
    BY <1>5, <1>1, <1>2 DEF HandleReady, NewState, ProcInv, States, Hosting,
       Ended, CoordinatorRuns
  <2>4. SharedStep(p)
    BY <1>5, <1>1, <1>2 DEF HandleReady, SharedStep, CoordinatorRuns
  <2>. HIDE DEF s
  <2>5. HostStep(p) /\ ProcInv(p)'
    BY <2>1, <2>2, <2>3, NewStateStep
  <2>. QED BY <2>4, <2>5, StepKeepsInv
<1>6. CASE HandleReadyFails(p)
  <2> DEFINE s == [host[p] EXCEPT !.events = Tail(host[p].events), !.pc = "joining",
                                   !.quitting = TRUE]
  <2>1. s \in States
    BY <1>6, <1>2, EventsTyped DEF HandleReadyFails, States, Labels
  <2>2. host' = [host EXCEPT ![p] = s]
    BY <1>6, <1>1 DEF HandleReadyFails, States
  <2>3. NewState(p, s)
    BY <1>6, <1>1, <1>2 DEF HandleReadyFails, NewState, ProcInv, States,
       Hosting, Ended, CoordinatorRuns
  <2>4. SharedStep(p)
    BY <1>6, <1>1, <1>2 DEF HandleReadyFails, SharedStep, CoordinatorRuns
  <2>. HIDE DEF s
  <2>5. HostStep(p) /\ ProcInv(p)'
    BY <2>1, <2>2, <2>3, NewStateStep
  <2>. QED BY <2>4, <2>5, StepKeepsInv
<1>7. CASE HandleStopped(p)
  <2> DEFINE s == [host[p] EXCEPT !.events = Tail(host[p].events), !.pc = "joining",
                                   !.quitting = TRUE]
  <2>1. s \in States
    BY <1>7, <1>2, EventsTyped DEF HandleStopped, States, Labels
  <2>2. host' = [host EXCEPT ![p] = s]
    BY <1>7, <1>1 DEF HandleStopped, States
  <2>3. NewState(p, s)
    BY <1>7, <1>1, <1>2 DEF HandleStopped, NewState, ProcInv, States, Hosting,
       Ended, CoordinatorRuns
  <2>4. SharedStep(p)
    BY <1>7, SharedUnchanged DEF HandleStopped
  <2>. HIDE DEF s
  <2>5. HostStep(p) /\ ProcInv(p)'
    BY <2>1, <2>2, <2>3, NewStateStep
  <2>. QED BY <2>4, <2>5, StepKeepsInv
<1>8. CASE JoinServer(p)
  <2> DEFINE s == [host[p] EXCEPT !.pc = "reading", !.events = <<>>]
  <2>1. s \in States
    BY <1>8, <1>2, EventsTyped DEF JoinServer, DropInstance, Release, States,
       Labels
  <2>2. host' = [host EXCEPT ![p] = s]
    BY <1>8, <1>1 DEF JoinServer, DropInstance, Release, States
  <2>3. NewState(p, s)
    BY <1>8, <1>1, <1>2 DEF JoinServer, DropInstance, Release, NewState,
       ProcInv, States, Hosting, Ended, CoordinatorRuns
  <2>4. SharedStep(p)
    BY <1>8, <1>1, <1>2 DEF JoinServer, DropInstance, Release, SharedStep, CoordinatorRuns
  <2>. HIDE DEF s
  <2>5. HostStep(p) /\ ProcInv(p)'
    BY <2>1, <2>2, <2>3, NewStateStep
  <2>. QED BY <2>4, <2>5, StepKeepsInv
<1>9. CASE ReadOwn(p)
  <2>1. SharedStep(p)
    BY <1>9, <1>2, SharedUnchanged DEF ReadOwn
  <2>2. CASE host' = [host EXCEPT ![p].pc = "removing"]
    <3> DEFINE s == [host[p] EXCEPT !.pc = "removing"]
    <3>1. s \in States
      BY <1>2 DEF States, Labels
    <3>2. host' = [host EXCEPT ![p] = s]
      BY <1>1, <2>2 DEF States
    <3>3. NewState(p, s)
      BY <1>9, <1>1, <1>2 DEF ReadOwn, NewState, ProcInv, States, Hosting, Ended,
             CoordinatorRuns
    <3>. HIDE DEF s
    <3>4. HostStep(p) /\ ProcInv(p)'
      BY <3>1, <3>2, <3>3, NewStateStep
    <3>. QED BY <2>1, <3>4, StepKeepsInv
  <2>3. CASE Exit(p, "ended")
    <3>1. HostStep(p) /\ ProcInv(p)'
      BY <1>9, <2>3, ExitStep DEF ReadOwn, Ended
    <3>. QED BY <2>1, <3>1, StepKeepsInv
  <2>. QED BY <1>9, <2>2, <2>3 DEF ReadOwn
<1>10. CASE RemoveOwn(p)
  <2>1. /\ Exit(p, "ended") /\ host[p].pc # "unused" /\ UNCHANGED coordinator
    BY <1>10 DEF RemoveOwn
  <2>2. HostStep(p) /\ ProcInv(p)'
    BY <2>1, ExitStep DEF Ended
  <2>3. SharedStep(p)
    BY <1>10, <1>1, <1>2 DEF RemoveOwn, SharedStep, CoordinatorRuns
  <2>. QED BY <2>2, <2>3, StepKeepsInv
<1>11. CASE Crash(p)
  <2>1. /\ Exit(p, "ended") /\ host[p].pc # "unused" /\ UNCHANGED coordinator
    BY <1>11 DEF Crash, Alive
  <2>2. HostStep(p) /\ ProcInv(p)'
    BY <2>1, ExitStep DEF Ended
  <2>3. SharedStep(p)
    BY <1>11, <1>1, <1>2 DEF Crash, Release, SharedStep, CoordinatorRuns
  <2>. QED BY <2>2, <2>3, StepKeepsInv
<1>. QED BY <1>3, <1>4, <1>5, <1>6, <1>7, <1>8, <1>9, <1>10, <1>11

\* The server thread.
LEMMA ServerKeepsInv ==
    ASSUME HostInv, NEW p \in Procs, ServerStep(p)
    PROVE  HostInv' /\ HostStep(p) /\ SharedStep(p)
<1>1. /\ host \in [Procs -> States] /\ lease \in [Releases -> SUBSET Procs]
      /\ document \in [Releases -> Procs \cup {None}]
      /\ coordinator \in [Procs -> Coordinators]
      /\ client \in [Clients -> Procs \cup {None}]
      /\ faults \subseteq FaultKinds /\ selected \in Releases
      /\ ProcInv(p) /\ DocumentInv
  BY TypeParts DEF HostInv
<1>2. /\ host[p].release \in Releases /\ host[p].seen \in Procs \cup {None}
      /\ host[p] \in States
  BY <1>1 DEF States
<1>3. CASE Bind(p)
  <2>1. PICK n \in Ports :
           host' = [host EXCEPT ![p] = [@ EXCEPT !.server = "announced",
                                                 !.port = n,
                                                 !.events = Append(host[p].events, "Ready")]]
    BY <1>3 DEF Bind
  <2> DEFINE s == [host[p] EXCEPT !.server = "announced", !.port = n,
                                   !.events = Append(host[p].events, "Ready")]
  <2>2. s \in States
    BY <1>2, EventsTyped DEF States
  <2>3. host' = [host EXCEPT ![p] = s]
    BY <1>1, <2>1 DEF States
  <2>4. NewState(p, s)
    BY <1>3, <1>1, <1>2 DEF Bind, InLoop, NewState, ProcInv, States, Hosting, CoordinatorRuns
  <2>5. SharedStep(p)
    BY <1>3, SharedUnchanged DEF Bind
  <2>. HIDE DEF s
  <2>6. HostStep(p) /\ ProcInv(p)'
    BY <2>2, <2>3, <2>4, NewStateStep
  <2>. QED BY <2>5, <2>6, StepKeepsInv
<1>4. CASE CannotServe(p)
  <2> DEFINE s == [host[p] EXCEPT !.server = "ended",
               !.events = IF host[p].pc \in InLoop THEN Append(@, "Stopped") ELSE @]
  <2>1. s \in States
    BY <1>4, <1>2, EventsTyped DEF CannotServe, Notify, States, Labels
  <2>2. host' = [host EXCEPT ![p] = s]
    BY <1>4, <1>1 DEF CannotServe, Notify, States
  <2>3. NewState(p, s)
    BY <1>4, <1>1, <1>2 DEF CannotServe, Notify, NewState, ProcInv, States,
       Hosting, Ended, CoordinatorRuns
  <2>4. SharedStep(p)
    BY <1>4, SharedUnchanged DEF CannotServe, Notify
  <2>. HIDE DEF s
  <2>5. HostStep(p) /\ ProcInv(p)'
    BY <2>1, <2>2, <2>3, NewStateStep
  <2>. QED BY <2>4, <2>5, StepKeepsInv
<1>5. CASE Serve(p)
  <2> DEFINE s == [host[p] EXCEPT !.server = "serving"]
  <2>1. s \in States
    BY <1>5, <1>2, EventsTyped DEF Serve, SetServer, States, Labels
  <2>2. host' = [host EXCEPT ![p] = s]
    BY <1>5, <1>1 DEF Serve, SetServer, States
  <2>3. NewState(p, s)
    BY <1>5, <1>1, <1>2 DEF Serve, SetServer, NewState, ProcInv, States,
       Hosting, Ended, CoordinatorRuns
  <2>4. SharedStep(p)
    BY <1>5, SharedUnchanged DEF Serve, SetServer
  <2>. HIDE DEF s
  <2>5. HostStep(p) /\ ProcInv(p)'
    BY <2>1, <2>2, <2>3, NewStateStep
  <2>. QED BY <2>4, <2>5, StepKeepsInv
<1>6. CASE Drain(p)
  <2> DEFINE s == [host[p] EXCEPT !.server = "draining"]
  <2>1. s \in States
    BY <1>6, <1>2, EventsTyped DEF Drain, SetServer, Serving, States, Labels
  <2>2. host' = [host EXCEPT ![p] = s]
    BY <1>6, <1>1 DEF Drain, SetServer, Serving, States
  <2>3. NewState(p, s)
    BY <1>6, <1>1, <1>2 DEF Drain, SetServer, Serving, NewState, ProcInv,
       States, Hosting, Ended, CoordinatorRuns
  <2>4. SharedStep(p)
    BY <1>6, SharedUnchanged DEF Drain, SetServer, Serving
  <2>. HIDE DEF s
  <2>5. HostStep(p) /\ ProcInv(p)'
    BY <2>1, <2>2, <2>3, NewStateStep
  <2>. QED BY <2>4, <2>5, StepKeepsInv
<1>7. CASE StopServing(p)
  <2> DEFINE s == [host[p] EXCEPT !.server = "ended",
               !.events = IF host[p].pc \in InLoop THEN Append(@, "Stopped") ELSE @]
  <2>1. s \in States
    BY <1>7, <1>2, EventsTyped DEF StopServing, Notify, States, Labels
  <2>2. host' = [host EXCEPT ![p] = s]
    BY <1>7, <1>1 DEF StopServing, Notify, States
  <2>3. NewState(p, s)
    BY <1>7, <1>1, <1>2 DEF StopServing, Notify, NewState, ProcInv, States,
       Hosting, Ended, CoordinatorRuns
  <2>4. SharedStep(p)
    BY <1>7, SharedUnchanged DEF StopServing, Notify
  <2>. HIDE DEF s
  <2>5. HostStep(p) /\ ProcInv(p)'
    BY <2>1, <2>2, <2>3, NewStateStep
  <2>. QED BY <2>4, <2>5, StepKeepsInv
<1>. QED BY <1>3, <1>4, <1>5, <1>6, <1>7 DEF ServerStep

\* A request, the preparation of a restart and the coordinator.
LEMMA RestartKeepsInv ==
    ASSUME HostInv, NEW p \in Procs, 
           PostRequest(p) \/ PrepareStep(p) \/ Signal(p) \/ CoordinatorFails(p)
    PROVE  HostInv' /\ HostStep(p) /\ SharedStep(p)
<1>1. /\ host \in [Procs -> States] /\ lease \in [Releases -> SUBSET Procs]
      /\ document \in [Releases -> Procs \cup {None}]
      /\ coordinator \in [Procs -> Coordinators]
      /\ client \in [Clients -> Procs \cup {None}]
      /\ faults \subseteq FaultKinds /\ selected \in Releases
      /\ ProcInv(p) /\ DocumentInv
  BY TypeParts DEF HostInv
<1>2. /\ host[p].release \in Releases /\ host[p].seen \in Procs \cup {None}
      /\ host[p] \in States
  BY <1>1 DEF States
<1>3. CASE PostRequest(p)
  <2>1. HostStep(p) /\ ProcInv(p)'
    BY <1>3, RequestStep DEF PostRequest
  <2>2. SharedStep(p)
    BY <1>3, SharedUnchanged DEF PostRequest
  <2>. QED BY <2>1, <2>2, StepKeepsInv
<1>4. CASE SpawnCoordinator(p)
  <2> DEFINE s == [host[p] EXCEPT !.prepare = "waiting"]
  <2>1. s \in States
    BY <1>4, <1>2, EventsTyped DEF SpawnCoordinator, Alive, States, Labels
  <2>2. host' = [host EXCEPT ![p] = s]
    BY <1>4, <1>1 DEF SpawnCoordinator, Alive, States
  <2>3. NewState(p, s)
    BY <1>4, <1>1, <1>2 DEF SpawnCoordinator, Alive, NewState, ProcInv,
       States, Hosting, Ended, CoordinatorRuns
  <2>4. SharedStep(p)
    BY <1>4, <1>1, <1>2 DEF SpawnCoordinator, SharedStep, CoordinatorRuns, Coordinators
  <2>. HIDE DEF s
  <2>5. HostStep(p) /\ ProcInv(p)'
    BY <2>1, <2>2, <2>3, NewStateStep
  <2>. QED BY <2>4, <2>5, StepKeepsInv
<1>5. CASE CannotSpawn(p)
  <2> DEFINE s == [host[p] EXCEPT !.control = "RUNNING", !.prepare = "none"]
  <2>1. s \in States
    BY <1>5, <1>2, EventsTyped DEF CannotSpawn, EndPrepare, Alive, States,
       Labels
  <2>2. host' = [host EXCEPT ![p] = s]
    BY <1>5, <1>1 DEF CannotSpawn, EndPrepare, Alive, States
  <2>3. NewState(p, s)
    BY <1>5, <1>1, <1>2 DEF CannotSpawn, EndPrepare, Alive, NewState, ProcInv,
       States, Hosting, Ended, CoordinatorRuns
  <2>4. SharedStep(p)
    BY <1>5, SharedUnchanged DEF CannotSpawn, EndPrepare, Alive
  <2>. HIDE DEF s
  <2>5. HostStep(p) /\ ProcInv(p)'
    BY <2>1, <2>2, <2>3, NewStateStep
  <2>. QED BY <2>4, <2>5, StepKeepsInv
<1>6. CASE SeeReady(p)
  <2> DEFINE s == [host[p] EXCEPT !.control = IF CoordinatorRuns(p) THEN "STOPPING" ELSE "RUNNING",
                                   !.prepare = "none"]
  <2>1. s \in States
    BY <1>6, <1>2, EventsTyped DEF SeeReady, EndPrepare, Alive, States, Labels
  <2>2. host' = [host EXCEPT ![p] = s]
    BY <1>6, <1>1 DEF SeeReady, EndPrepare, Alive, States
  <2>3. NewState(p, s)
    BY <1>6, <1>1, <1>2 DEF SeeReady, EndPrepare, Alive, NewState, ProcInv,
       States, Hosting, Ended, CoordinatorRuns
  <2>4. SharedStep(p)
    BY <1>6, SharedUnchanged DEF SeeReady, EndPrepare, Alive
  <2>. HIDE DEF s
  <2>5. HostStep(p) /\ ProcInv(p)'
    BY <2>1, <2>2, <2>3, NewStateStep
  <2>. QED BY <2>4, <2>5, StepKeepsInv
<1>7. CASE ReadyTimeout(p)
  <2> DEFINE s == [host[p] EXCEPT !.prepare = "killing"]
  <2>1. s \in States
    BY <1>7, <1>2, EventsTyped DEF ReadyTimeout, Alive, States, Labels
  <2>2. host' = [host EXCEPT ![p] = s]
    BY <1>7, <1>1 DEF ReadyTimeout, Alive, States
  <2>3. NewState(p, s)
    BY <1>7, <1>1, <1>2 DEF ReadyTimeout, Alive, NewState, ProcInv, States,
       Hosting, Ended, CoordinatorRuns
  <2>4. SharedStep(p)
    BY <1>7, SharedUnchanged DEF ReadyTimeout, Alive
  <2>. HIDE DEF s
  <2>5. HostStep(p) /\ ProcInv(p)'
    BY <2>1, <2>2, <2>3, NewStateStep
  <2>. QED BY <2>4, <2>5, StepKeepsInv
<1>8. CASE KillCoordinator(p)
  <2> DEFINE s == [host[p] EXCEPT !.control = "RUNNING", !.prepare = "none"]
  <2>1. s \in States
    BY <1>8, <1>2, EventsTyped DEF KillCoordinator, EndPrepare, Alive,
       NoCoordinator, States, Labels
  <2>2. host' = [host EXCEPT ![p] = s]
    BY <1>8, <1>1 DEF KillCoordinator, EndPrepare, Alive, NoCoordinator,
       States
  <2>3. NewState(p, s)
    BY <1>8, <1>1, <1>2 DEF KillCoordinator, EndPrepare, Alive, NoCoordinator,
       NewState, ProcInv, States, Hosting, Ended, CoordinatorRuns
  <2>4. SharedStep(p)
    BY <1>8, <1>1, <1>2 DEF KillCoordinator, NoCoordinator, SharedStep, CoordinatorRuns, Coordinators
  <2>. HIDE DEF s
  <2>5. HostStep(p) /\ ProcInv(p)'
    BY <2>1, <2>2, <2>3, NewStateStep
  <2>. QED BY <2>4, <2>5, StepKeepsInv
<1>9. CASE Signal(p)
  <2>1. HostStep(p)
    BY <1>9, <1>1, <1>2 DEF Signal, HostStep, States, Labels, Hosting
  <2>2. SharedStep(p)
    BY <1>9, <1>1, <1>2 DEF Signal, SharedStep, CoordinatorRuns, Coordinators
  <2>3. ProcInv(p)'
    BY <1>9, <1>1, <1>2 DEF Signal, ProcInv, States, Labels, Hosting,
       CoordinatorRuns
  <2>. QED BY <2>1, <2>2, <2>3, StepKeepsInv
<1>10. CASE CoordinatorFails(p)
  <2>1. HostStep(p)
    BY <1>10, <1>1, <1>2 DEF CoordinatorFails, HostStep, States, Labels,
       Hosting
  <2>2. SharedStep(p)
    BY <1>10, <1>1, <1>2 DEF CoordinatorFails, SharedStep, CoordinatorRuns, Coordinators
  <2>3. ProcInv(p)'
    BY <1>10, <1>1, <1>2 DEF CoordinatorFails, ProcInv, States, Labels,
       Hosting, CoordinatorRuns
  <2>. QED BY <2>1, <2>2, <2>3, StepKeepsInv
<1>. QED BY <1>3, <1>4, <1>5, <1>6, <1>7, <1>8, <1>9, <1>10 DEF PrepareStep

\* A coordinator starts the successor of its host.
LEMMA SuccessorKeepsInv ==
    ASSUME HostInv, NEW p \in Procs, LaunchSuccessor(p)
    PROVE  \E q \in Procs : HostInv' /\ HostStep(q) /\ SharedStep(q)
<1>1. /\ host \in [Procs -> States] /\ lease \in [Releases -> SUBSET Procs]
      /\ document \in [Releases -> Procs \cup {None}]
      /\ coordinator \in [Procs -> Coordinators]
      /\ client \in [Clients -> Procs \cup {None}]
      /\ faults \subseteq FaultKinds /\ selected \in Releases
  BY TypeParts DEF HostInv
<1>2. PICK q \in Procs : StartProcess(q)
  BY DEF LaunchSuccessor
<1>3. /\ ProcInv(q) /\ host[q] \in States
  BY <1>1 DEF HostInv
<1>4. /\ coordinator' \in [Procs -> Coordinators]
      /\ \A o \in Procs : CoordinatorRuns(o)' => CoordinatorRuns(o)
  BY <1>1 DEF LaunchSuccessor, Coordinators, CoordinatorRuns
<1>5. SharedStep(q)
  BY <1>1, <1>4 DEF LaunchSuccessor, SharedStep
<1> DEFINE s == [host[q] EXCEPT !.pc = "launched", !.release = selected]
<1>6. s \in States
  BY <1>1, <1>3 DEF States, Labels
<1>7. host' = [host EXCEPT ![q] = s]
  BY <1>1, <1>2 DEF StartProcess, States
<1>8. /\ host' \in [Procs -> States] /\ \A o \in Procs \ {q} : host'[o] = host[o]
      /\ host[q].pc = "unused" /\ host'[q].pc = "launched" /\ host'[q].seen = host[q].seen
      /\ host'[q].server = host[q].server /\ host'[q].prepare = host[q].prepare
      /\ host'[q].control = host[q].control
  <2>1. host[q].pc = "unused"
    BY <1>2 DEF StartProcess, Unused
  <2>2. /\ s.pc = "launched" /\ s.seen = host[q].seen /\ s.server = host[q].server
        /\ s.prepare = host[q].prepare /\ s.control = host[q].control
    BY <1>3 DEF States
  <2>. HIDE DEF s
  <2>. QED BY <1>1, <1>6, <1>7, <2>1, <2>2
<1>9. HostStep(q)
  BY <1>8 DEF HostStep, Hosting
<1>10. ProcInv(q)'
  BY <1>3, <1>4, <1>8 DEF ProcInv, Hosting, Ended
<1>. QED BY <1>5, <1>9, <1>10, StepKeepsInv

\* A command finds a host, or posts its request to the port it has found.
LEMMA CommandKeepsInv ==
    ASSUME HostInv, NEW c \in Clients,
           (\E r \in Releases : ReadLiveHost(c, r)) \/ PostAction(c)
    PROVE  \/ HostInv' /\ (\E p \in Procs : HostStep(p) /\ SharedStep(p))
           \/ /\ HostInv' /\ UNCHANGED host
              /\ \A o \in Clients : client'[o] \in {None, client[o]} \/ Serving(client'[o])
<1>1. /\ document \in [Releases -> Procs \cup {None}]
      /\ client \in [Clients -> Procs \cup {None}]
  BY TypeParts DEF HostInv
<1>2. ASSUME UNCHANGED <<faults, selected, host, lease, document, coordinator>>,
             client' \in [Clients -> Procs \cup {None}]
      PROVE  HostInv'
  BY <1>2 DEF HostInv, TypeOK, OneHost, DocumentInv, ProcInv, CoordinatorRuns
<1>3. CASE \E r \in Releases : ReadLiveHost(c, r)
  <2>1. PICK r \in Releases : ReadLiveHost(c, r)
    BY <1>3
  <2>2. /\ client' = [client EXCEPT ![c] = document[r]]
        /\ document[r] \in Procs /\ Serving(document[r])
        /\ UNCHANGED <<faults, selected, host, lease, document, coordinator>>
    BY <1>1, <2>1 DEF ReadLiveHost, Answers, Identifies, Reaches, None
  <2>3. /\ client' \in [Clients -> Procs \cup {None}]
        /\ \A o \in Clients : client'[o] \in {None, client[o]} \/ Serving(client'[o])
    BY <1>1, <2>2
  <2>. QED BY <1>2, <2>2, <2>3
<1>4. CASE PostAction(c)
  <2>1. /\ client' \in [Clients -> Procs \cup {None}]
        /\ \A o \in Clients : client'[o] \in {None, client[o]}
        /\ UNCHANGED <<faults, selected, lease, document, coordinator>>
    BY <1>1, <1>4 DEF PostAction
  <2>2. CASE UNCHANGED host
    BY <1>2, <2>1, <2>2
  <2>3. CASE \E q \in Procs : Reaches(client[c], q) /\ Request(q)
    <3>1. PICK q \in Procs : Serving(q) /\ Request(q)
      BY <2>3 DEF Reaches
    <3>2. HostStep(q) /\ ProcInv(q)'
      BY <2>1, <3>1, RequestStep
    <3>3. SharedStep(q)
      BY <2>1, TypeParts DEF HostInv, SharedStep, CoordinatorRuns
    <3>. QED BY <3>2, <3>3, StepKeepsInv
  <2>. QED BY <1>4, <2>2, <2>3 DEF PostAction
<1>. QED BY <1>3, <1>4

\* Each step changes one process, or none and at most a command or the selection.
Reached ==
    \/ \E p \in Procs : HostStep(p) /\ SharedStep(p)
    \/ /\ UNCHANGED host
       /\ \A c \in Clients : client'[c] \in {None, client[c]} \/ Serving(client'[c])

LEMMA NextInv == ASSUME HostInv, [Next]_vars PROVE HostInv' /\ Reached
<1>1. CASE UNCHANGED vars
  BY <1>1 DEF HostInv, TypeOK, OneHost, DocumentInv, ProcInv, CoordinatorRuns, vars, Reached
<1>2. CASE Select
  <2>1. selected' \in Releases
    BY <1>2, HostAssumption, TypeParts DEF HostInv, Select, Releases
  <2>. QED BY <1>2, <2>1
           DEF HostInv, TypeOK, OneHost, DocumentInv, ProcInv, CoordinatorRuns, Select, Reached
<1>3. CASE \E c \in Clients : (\E r \in Releases : ReadLiveHost(c, r)) \/ PostAction(c)
  BY <1>3, CommandKeepsInv DEF Reached
<1>4. ASSUME NEW p \in Procs,
             \/ Launch(p) \/ MainStep(p) \/ GiveUp(p)
             \/ Quit(p) \/ ServerStep(p) \/ PostRequest(p)
             \/ PrepareStep(p) \/ CoordinatorStep(p)
             \/ CoordinatorFails(p) \/ Crash(p)
      PROVE  HostInv' /\ Reached
  BY <1>4, LaunchKeepsInv, LoopKeepsInv, ServerKeepsInv, RestartKeepsInv, SuccessorKeepsInv
     DEF MainStep, CoordinatorStep, Reached
<1>. QED BY <1>1, <1>2, <1>3, <1>4 DEF Next

LEMMA InitInv == Init => HostInv
<1>. SUFFICES ASSUME Init PROVE HostInv
  OBVIOUS
<1>1. TypeOK
  <2>1. 1 \in Releases /\ faults \subseteq FaultKinds
    BY HostAssumption DEF Init, Releases
  <2>. QED BY <2>1, UnbornTyped, TypeParts DEF Init, NoCoordinator, Coordinators
<1>2. \A p \in Procs : host[p].pc = "unused" /\ host[p].server = "none"
                       /\ host[p].prepare = "none" /\ host[p].seen = None
                       /\ ~CoordinatorRuns(p)
  BY DEF Init, Unborn, NoCoordinator, CoordinatorRuns
<1>3. OneHost /\ DocumentInv
  BY <1>2 DEF Init, OneHost, DocumentInv, Hosting
<1>4. ASSUME NEW p \in Procs PROVE ProcInv(p)
  BY <1>2, <1>4 DEF ProcInv, Hosting
<1>. QED BY <1>1, <1>3, <1>4 DEF HostInv

\* The invariant of every behaviour.
THEOREM Invariance == Spec => []HostInv
<1>1. HostInv /\ [Next]_vars => HostInv'
  BY NextInv
<1>. QED BY <1>1, InitInv, PTL DEF Spec

\* The processes' state has its types.
THEOREM HostTypes == Spec => []TypeOK
<1>1. HostInv => TypeOK
  BY DEF HostInv
<1>. QED BY <1>1, Invariance, PTL

\* However the hosts of a release come to their end, and however many launches
\* hold its Event meanwhile, two of them never listen at the same time.
THEOREM OneServerListens == Spec => []OneServerPerRelease
<1>1. HostInv => OneServerPerRelease
  <2>. SUFFICES ASSUME HostInv, NEW p \in Procs, NEW q \in Procs, p # q,
                       Listening(p), Listening(q)
                PROVE  host[p].release # host[q].release
    BY DEF OneServerPerRelease
  <2>1. host[p].pc \in Hosting /\ host[q].pc \in Hosting
    BY DEF HostInv, ProcInv, Listening
  <2>. QED BY <2>1 DEF HostInv, OneHost
<1>. QED BY <1>1, Invariance, PTL

\* A restart that was refused does not happen later.
THEOREM RefusedRestartEnds == Spec => []NoStrayCoordinator
<1>1. HostInv => NoStrayCoordinator
  BY DEF HostInv, ProcInv, NoStrayCoordinator, Alive
<1>. QED BY <1>1, Invariance, PTL

\* A release has one server, and a refused restart no follower.
THEOREM HostsAreSafe == Spec => []HostSafety
BY HostTypes, OneServerListens, RefusedRestartEnds, PTL DEF HostSafety

\* A launch and a command accept only the host that the document they have read
\* names, whoever has got its port.
THEOREM NamedHostIsReached == Spec => ReachesNamedHost
<1>1. HostInv /\ [Next]_vars =>
       [/\ \A p \in Procs :
             host[p].pc = "probing" /\ host'[p].pc = "activated"
             => Serving(host[p].seen)
                /\ host[host[p].seen].release = host[p].release
        /\ \A c \in Clients :
             client'[c] \notin {None, client[c]} => Serving(client'[c])]_vars
  <2>. SUFFICES ASSUME HostInv, [Next]_vars
                PROVE  /\ \A p \in Procs :
                            host[p].pc = "probing" /\ host'[p].pc = "activated"
                            => Serving(host[p].seen)
                               /\ host[host[p].seen].release = host[p].release
                       /\ \A c \in Clients :
                            client'[c] \notin {None, client[c]} => Serving(client'[c])
    OBVIOUS
  <2>1. Reached
    BY NextInv
  <2>2. ASSUME NEW p \in Procs, host[p].pc = "probing", host'[p].pc = "activated"
        PROVE  Serving(host[p].seen) /\ host[host[p].seen].release = host[p].release
    <3>1. Answers(host[p].seen)
      BY <2>1, <2>2 DEF Reached, HostStep
    <3>2. Serving(host[p].seen)
      BY <3>1 DEF Answers, Reaches, Identifies
    <3>3. ProcInv(p)
      BY DEF HostInv
    <3>. QED BY <2>2, <3>2, <3>3 DEF ProcInv
  <2>3. ASSUME NEW c \in Clients, client'[c] \notin {None, client[c]}
        PROVE  Serving(client'[c])
    BY <2>1, <2>3 DEF Reached, SharedStep
  <2>. QED BY <2>2, <2>3
<1>. QED BY <1>1, Invariance, PTL DEF Spec, ReachesNamedHost
=============================================================================
