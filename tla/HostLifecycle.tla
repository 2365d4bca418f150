--------------------------- MODULE HostLifecycle ---------------------------
(***************************************************************************)
(* The processes of the Entry Host: the launch that becomes the host of    *)
(* its release or activates the one that runs (host/main.rs,               *)
(* host_instance.rs, host_runtime.rs), the event loop and the server       *)
(* thread of a host (tray.rs, server.rs), the control states behind its    *)
(* shutdown and restart requests (server/host_control.rs), the restart     *)
(* coordinator (host_restart.rs) and the command that finds a host through *)
(* its runtime document (runtime_control.rs).                              *)
(*                                                                         *)
(* A process is its number, which also stands for its boot id and its PID. *)
(* The lease of a release is the set of processes with an open handle of   *)
(* its named Event; the kernel object exists while that set is not empty.  *)
(***************************************************************************)
EXTENDS Naturals, Sequences, FiniteSets

CONSTANTS MaxProcs,     \* bound: the processes that are ever launched
          AskedProcs,   \* bound: those of them that are launched where requests arrive
          MaxRelease,   \* bound: the releases that are selected, in this order
          Ports,        \* the loopback ports, which ended hosts give back
          Clients,      \* the commands that ask a host to exit or restart
          FaultCases    \* the sets of faults, and of requests of the Web console,
                        \* "command" and "select", that a behaviour may meet

FaultKinds == {"crash", "launch", "coordinator", "tray", "bind", "publish",
               "request", "command", "select"}

ASSUME HostAssumption ==
  /\ MaxProcs \in Nat /\ AskedProcs \in Nat /\ MaxRelease \in Nat \ {0}
  /\ Cardinality(Ports) >= MaxRelease
  /\ FaultCases \subseteq SUBSET FaultKinds

VARIABLES faults,       \* what may happen in this behaviour
          selected,     \* the release the selector names
          host,         \* the state of each process, see TypeOK
          lease,        \* for each release, the processes that hold a handle
          document,     \* for each release, the process its document names
          coordinator,  \* the coordinator each host has started
          client        \* the host each command has found

vars == <<faults, selected, host, lease, document, coordinator, client>>

Procs == 1 .. MaxProcs
Releases == 1 .. MaxRelease

None == 0

Ended == {"ended", "activated", "failed"}
InLoop == {"resuming", "loop"}

Unborn == [pc |-> "unused", release |-> 1,
           server |-> "none", port |-> CHOOSE n \in Ports : TRUE,
           events |-> <<>>, quitting |-> FALSE, control |-> "RUNNING",
           prepare |-> "none", seen |-> None]

TypeOK ==
  /\ faults \subseteq FaultKinds
  /\ selected \in Releases
  /\ host \in [Procs ->
       [pc : {"unused", "launched", "holding", "waiting", "probing",
              "resuming", "loop", "joining", "reading", "removing"} \cup Ended,
        release : Releases,
        server : {"none", "binding", "announced", "serving", "draining",
                  "ended"},
        port : Ports,
        events : Seq({"Ready", "Stopped"}),
        quitting : BOOLEAN,
        control : {"RUNNING", "PREPARING_RESTART", "STOPPING"},
        prepare : {"none", "spawning", "waiting", "killing"},
        seen : Procs \cup {None}]]
  /\ lease \in [Releases -> SUBSET Procs]
  /\ document \in [Releases -> Procs \cup {None}]
  /\ coordinator \in [Procs -> [state : {"none", "starting", "ready", "done"},
                                signalled : BOOLEAN]]
  /\ client \in [Clients -> Procs \cup {None}]

Alive(p) == host[p].pc \notin Ended \cup {"unused"}

Listening(p) == host[p].server \in {"announced", "serving"}

Serving(p) == host[p].server = "serving"

NoCoordinator == [state |-> "none", signalled |-> FALSE]

\* What is left of a process that has ended.
Exit(p, how) ==
  host' = [host EXCEPT ![p] = [Unborn EXCEPT !.pc = how, !.server = "ended",
                                 !.release = host[p].release,
                                 !.port = host[p].port]]

Usable == {p \in Procs : faults \cap {"request", "command"} # {} => p <= AskedProcs}

Unused == {p \in Usable : host[p].pc = "unused"}

CoordinatorRuns(p) == coordinator[p].state \in {"starting", "ready"}

\* Bound: a process stays unused for each coordinator and each preparation.
RoomToLaunch ==
  Cardinality(Unused) > Cardinality({p \in Procs :
      CoordinatorRuns(p) \/ host[p].prepare # "none"})

Init == /\ faults \in FaultCases
        /\ selected = 1
        /\ host = [p \in Procs |-> Unborn]
        /\ lease = [r \in Releases |-> {}]
        /\ document = [r \in Releases |-> None]
        /\ coordinator = [p \in Procs |-> NoCoordinator]
        /\ client = [c \in Clients |-> None]
-----------------------------------------------------------------------------
(***************************************************************************)
(* Launch and acquisition of the lease.                                    *)
(***************************************************************************)
\* A process starts from the selected release: the Launcher reads the
\* selector. Processes are numbered in the order of their start.
StartProcess(p) ==
  /\ p \in Unused /\ \A q \in Unused : p <= q
  /\ host' = [host EXCEPT ![p] = [@ EXCEPT !.pc = "launched", !.release = selected]]

Launch(p) == /\ RoomToLaunch
             /\ StartProcess(p)
             /\ UNCHANGED <<faults, selected, lease, document, coordinator, client>>

Release(p) == lease' = [r \in Releases |-> lease[r] \ {p}]

\* The release is damaged, or another DataRoot is found.
LaunchFails(p) ==
  /\ "launch" \in faults /\ host[p].pc = "launched"
  /\ Exit(p, "failed")
  /\ UNCHANGED <<faults, selected, lease, document, coordinator, client>>

\* The Event did not exist: this process is the host of its release.
AcquirePrimary(p) ==
  LET r == host[p].release IN
  /\ host[p].pc = "launched"
  /\ lease[r] = {}
  /\ lease' = [lease EXCEPT ![r] = {p}]
  /\ host' = [host EXCEPT ![p] = [@ EXCEPT !.pc = "resuming", !.server = "binding"]]
  /\ UNCHANGED <<faults, selected, document, coordinator, client>>

\* The Event exists; the handle stays open until acquire returns.
AcquireExisting(p) ==
  LET r == host[p].release IN
  /\ host[p].pc = "launched"
  /\ lease[r] # {}
  /\ lease' = [lease EXCEPT ![r] = @ \cup {p}]
  /\ host' = [host EXCEPT ![p].pc = "holding"]
  /\ UNCHANGED <<faults, selected, document, coordinator, client>>

DropHandle(p) ==
  /\ host[p].pc = "holding"
  /\ Release(p)
  /\ host' = [host EXCEPT ![p].pc = "waiting"]
  /\ UNCHANGED <<faults, selected, document, coordinator, client>>
-----------------------------------------------------------------------------
(***************************************************************************)
(* Waiting for the existing host.                                          *)
(***************************************************************************)
ReadDocument(p) ==
  LET d == document[host[p].release] IN
  /\ host[p].pc = "waiting" /\ d # None
  /\ host' = [host EXCEPT ![p] = [@ EXCEPT !.seen = d, !.pc = "probing"]]
  /\ UNCHANGED <<faults, selected, lease, document, coordinator, client>>

\* Whoever serves the port that the document of d names answers, and its
\* answer must carry the boot id and the release of the document.
Reaches(d, q) == Serving(q) /\ host[q].port = host[d].port

\* Seeded fault: any answer will do.
IdentifiesAny(d, q) == TRUE

Identifies(d, q) == q = d

Answers(d) == \E q \in Procs : Reaches(d, q) /\ Identifies(d, q)

\* The browser is opened on the host that answered.
Activate(p) ==
  /\ host[p].pc = "probing" /\ Answers(host[p].seen)
  /\ Exit(p, "activated")
  /\ UNCHANGED <<faults, selected, lease, document, coordinator, client>>

AttemptFails(p) == \/ host[p].pc = "waiting" /\ document[host[p].release] = None
                   \/ host[p].pc = "probing" /\ ~Answers(host[p].seen)

\* A failed attempt is followed by another one until the deadline is over.
Retry(p) ==
  /\ AttemptFails(p)
  /\ host' = [host EXCEPT ![p] = [@ EXCEPT !.seen = None, !.pc = "waiting"]]
  /\ UNCHANGED <<faults, selected, lease, document, coordinator, client>>

\* Seeded fault: it ends in a state of no launch.
GiveUpUntyped(p) ==
  /\ AttemptFails(p)
  /\ host' = [host EXCEPT ![p] = [@ EXCEPT !.seen = None, !.pc = "expired"]]
  /\ UNCHANGED <<faults, selected, lease, document, coordinator, client>>

\* Seeded fault: only a document that does not answer is given up.
GiveUpProbing(p) ==
  /\ AttemptFails(p) /\ host[p].pc = "probing"
  /\ Exit(p, "failed")
  /\ UNCHANGED <<faults, selected, lease, document, coordinator, client>>

GiveUp(p) ==
  /\ AttemptFails(p)
  /\ Exit(p, "failed")
  /\ UNCHANGED <<faults, selected, lease, document, coordinator, client>>
-----------------------------------------------------------------------------
(***************************************************************************)
(* The event loop of a host.                                               *)
(***************************************************************************)
\* The loop calls resumed first; without a tray the host ends.
Resume(p) ==
  /\ host[p].pc = "resuming"
  /\ \/ host' = [host EXCEPT ![p].pc = "loop"]
     \/ /\ "tray" \in faults
        /\ host' = [host EXCEPT ![p] = [@ EXCEPT !.pc = "joining", !.quitting = TRUE]]
  /\ UNCHANGED <<faults, selected, lease, document, coordinator, client>>

Quit(p) ==
  /\ host[p].pc = "loop" /\ ~host[p].quitting
  /\ host' = [host EXCEPT ![p].quitting = TRUE]
  /\ UNCHANGED <<faults, selected, lease, document, coordinator, client>>

\* The document is published although the host may be quitting.
HandleReady(p) ==
  /\ host[p].pc = "loop" /\ host[p].events # <<>> /\ Head(host[p].events) = "Ready"
  /\ document' = [document EXCEPT ![host[p].release] = p]
  /\ host' = [host EXCEPT ![p].events = Tail(@)]
  /\ UNCHANGED <<faults, selected, lease, coordinator, client>>

\* The publication fails, or the browser cannot be opened after it.
HandleReadyFails(p) ==
  /\ "publish" \in faults
  /\ host[p].pc = "loop" /\ host[p].events # <<>> /\ Head(host[p].events) = "Ready"
  /\ \/ UNCHANGED document
     \/ ~host[p].quitting /\ document' = [document EXCEPT ![host[p].release] = p]
  /\ host' = [host EXCEPT ![p] = [@ EXCEPT !.events = Tail(host[p].events),
                                           !.pc = "joining",
                                           !.quitting = TRUE]]
  /\ UNCHANGED <<faults, selected, lease, coordinator, client>>

HandleStopped(p) ==
  /\ host[p].pc = "loop" /\ host[p].events # <<>> /\ Head(host[p].events) = "Stopped"
  /\ host' = [host EXCEPT ![p] = [@ EXCEPT !.events = Tail(host[p].events),
                                           !.pc = "joining",
                                           !.quitting = TRUE]]
  /\ UNCHANGED <<faults, selected, lease, document, coordinator, client>>

\* The fields of App are dropped in the order of their declaration: the
\* lease first, then the owner of the document, which reads it and removes
\* it when it still names this boot.
DropInstance(p) ==
  /\ Release(p)
  /\ host' = [host EXCEPT ![p] = [@ EXCEPT !.pc = "reading", !.events = <<>>]]
  /\ UNCHANGED <<faults, selected, document, coordinator, client>>

\* Seeded fault: the loop does not wait for the server thread.
JoinServerNever(p) == host[p].pc = "joining" /\ DropInstance(p)

JoinServer(p) ==
  /\ host[p].pc = "joining" /\ host[p].server = "ended"
  /\ DropInstance(p)

ReadOwn(p) ==
  /\ host[p].pc = "reading"
  /\ IF document[host[p].release] = p
     THEN host' = [host EXCEPT ![p].pc = "removing"]
     ELSE Exit(p, "ended")
  /\ UNCHANGED <<faults, selected, lease, document, coordinator, client>>

RemoveOwn(p) ==
  /\ host[p].pc = "removing"
  /\ \/ document' = [document EXCEPT ![host[p].release] = None]
     \/ "publish" \in faults /\ UNCHANGED document    \* somebody reads it
  /\ Exit(p, "ended")
  /\ UNCHANGED <<faults, selected, lease, coordinator, client>>

MainStep(p) ==
  \/ LaunchFails(p) \/ AcquirePrimary(p) \/ AcquireExisting(p) \/ DropHandle(p)
  \/ ReadDocument(p) \/ Activate(p) \/ Retry(p)
  \/ Resume(p) \/ HandleReady(p) \/ HandleReadyFails(p) \/ HandleStopped(p)
  \/ JoinServer(p) \/ ReadOwn(p) \/ RemoveOwn(p)
-----------------------------------------------------------------------------
(***************************************************************************)
(* The server thread of a host.                                            *)
(***************************************************************************)
SetServer(p, s) == host' = [host EXCEPT ![p].server = s]

\* The loop takes an event of the server unless it has ended.
Notify(p, s, e) ==
  host' = [host EXCEPT ![p] = [@ EXCEPT
             !.server = s,
             !.events = IF host[p].pc \in InLoop THEN Append(host[p].events, e)
                       ELSE host[p].events]]

\* Bound to a free port and announced; the server ends when it cannot be.
Bind(p) ==
  /\ host[p].server = "binding" /\ host[p].pc \in InLoop
  /\ \E n \in Ports :
       /\ \A q \in Procs : Listening(q) => host[q].port # n
       /\ host' = [host EXCEPT ![p] = [@ EXCEPT !.server = "announced",
                                                !.port = n,
                                                !.events = Append(host[p].events, "Ready")]]
  /\ UNCHANGED <<faults, selected, lease, document, coordinator, client>>

CannotServe(p) ==
  /\ host[p].server = "binding"
  /\ "bind" \in faults \/ host[p].pc \notin InLoop
  /\ Notify(p, "ended", "Stopped")
  /\ UNCHANGED <<faults, selected, lease, document, coordinator, client>>

Serve(p) ==
  /\ host[p].server = "announced"
  /\ SetServer(p, "serving")
  /\ UNCHANGED <<faults, selected, lease, document, coordinator, client>>

\* The graceful shutdown: no connection is accepted any more.
\* Seeded fault: only the tray's signal ends the server.
DrainOnQuit(p) ==
  /\ Serving(p) /\ host[p].quitting
  /\ SetServer(p, "draining")
  /\ UNCHANGED <<faults, selected, lease, document, coordinator, client>>

Drain(p) ==
  /\ Serving(p)
  /\ host[p].quitting \/ host[p].control = "STOPPING"
  /\ SetServer(p, "draining")
  /\ UNCHANGED <<faults, selected, lease, document, coordinator, client>>

\* The requests that are under way are answered, the run service is shut
\* down (RunRegistry: ShutdownReturns).
StopServing(p) ==
  /\ host[p].server = "draining"
  /\ host[p].control # "PREPARING_RESTART"
  /\ Notify(p, "ended", "Stopped")
  /\ UNCHANGED <<faults, selected, lease, document, coordinator, client>>

ServerStep(p) == Bind(p) \/ CannotServe(p) \/ Serve(p) \/ Drain(p) \/ StopServing(p)
-----------------------------------------------------------------------------
(***************************************************************************)
(* Shutdown and restart requests. A request takes effect while the server  *)
(* accepts connections; the restart it prepares may outlast that.          *)
(***************************************************************************)
\* Busy and AlreadyRequested change nothing.
RequestShutdown(p) ==
  /\ host[p].control = "RUNNING"
  /\ host' = [host EXCEPT ![p].control = "STOPPING"]

RequestRestart(p) ==
  /\ selected # host[p].release
  /\ host[p].control = "RUNNING"
  /\ host' = [host EXCEPT ![p] = [@ EXCEPT !.control = "PREPARING_RESTART",
                                           !.prepare = "spawning"]]

\* Bound: a restart is only asked for while a process is left to launch.
Request(p) == RequestShutdown(p) \/ (RoomToLaunch /\ RequestRestart(p))

\* The Web console of the host asks.
PostRequest(p) ==
  /\ "request" \in faults /\ Serving(p)
  /\ Request(p)
  /\ UNCHANGED <<faults, selected, lease, document, coordinator, client>>

\* The coordinator is the running release's own Host program.
SpawnCoordinator(p) ==
  /\ Alive(p) /\ host[p].prepare = "spawning"
  /\ coordinator' = [coordinator EXCEPT ![p] =
                       [state |-> "starting", signalled |-> FALSE]]
  /\ host' = [host EXCEPT ![p].prepare = "waiting"]
  /\ UNCHANGED <<faults, selected, lease, document, client>>

EndPrepare(p, c) == host' = [host EXCEPT ![p] = [@ EXCEPT !.control = c, !.prepare = "none"]]

\* Its release is damaged, or the process cannot be created.
CannotSpawn(p) ==
  /\ "coordinator" \in faults
  /\ Alive(p) /\ host[p].prepare = "spawning"
  /\ EndPrepare(p, "RUNNING")
  /\ UNCHANGED <<faults, selected, lease, document, coordinator, client>>

\* The Event is set: the restart is accepted if the coordinator still runs.
SeeReady(p) ==
  /\ Alive(p) /\ host[p].prepare = "waiting" /\ coordinator[p].signalled
  /\ EndPrepare(p, IF CoordinatorRuns(p) THEN "STOPPING" ELSE "RUNNING")
  /\ UNCHANGED <<faults, selected, lease, document, coordinator, client>>

\* READY_TIMEOUT is over; the coordinator may set the Event after that.
ReadyTimeout(p) ==
  /\ Alive(p) /\ host[p].prepare = "waiting" /\ ~coordinator[p].signalled
  /\ host' = [host EXCEPT ![p].prepare = "killing"]
  /\ UNCHANGED <<faults, selected, lease, document, coordinator, client>>

\* Seeded fault: the restart is refused and the coordinator left alone.
KeepCoordinator(p) ==
  /\ Alive(p) /\ host[p].prepare = "killing"
  /\ EndPrepare(p, "RUNNING")
  /\ UNCHANGED <<faults, selected, lease, document, coordinator, client>>

KillCoordinator(p) ==
  /\ Alive(p) /\ host[p].prepare = "killing"
  /\ coordinator' = [coordinator EXCEPT ![p] =
                       NoCoordinator]
  /\ EndPrepare(p, "RUNNING")
  /\ UNCHANGED <<faults, selected, lease, document, client>>

PrepareStep(p) == \/ SpawnCoordinator(p) \/ CannotSpawn(p) \/ SeeReady(p)
                  \/ ReadyTimeout(p) \/ KillCoordinator(p)
-----------------------------------------------------------------------------
(***************************************************************************)
(* The coordinator: it opens its parent and the Event, sets the Event,     *)
(* waits for the end of the parent and starts the Launcher.                *)
(***************************************************************************)
EventExists(p) == Alive(p) /\ host[p].prepare \in {"waiting", "killing"}

Signal(p) ==
  /\ coordinator[p].state = "starting"
  /\ coordinator' = [coordinator EXCEPT ![p] =
       IF EventExists(p) THEN [state |-> "ready", signalled |-> TRUE]
                         ELSE [@ EXCEPT !.state = "none"]]
  /\ UNCHANGED <<faults, selected, host, lease, document, client>>

\* Seeded fault: it waits for the document to go instead of the process.
LaunchWithoutDocument(p) ==
  /\ coordinator[p].state = "ready" /\ ~Alive(p)
  /\ document[host[p].release] # p
  /\ \E q \in Procs : StartProcess(q)
  /\ coordinator' = [coordinator EXCEPT ![p] = [state |-> "done", signalled |-> FALSE]]
  /\ UNCHANGED <<faults, selected, lease, document, client>>

LaunchSuccessor(p) ==
  /\ coordinator[p].state = "ready" /\ ~Alive(p)
  /\ \E q \in Procs : StartProcess(q)
  /\ coordinator' = [coordinator EXCEPT ![p] = [state |-> "done", signalled |-> FALSE]]
  /\ UNCHANGED <<faults, selected, lease, document, client>>

\* It ends early, or the Launcher cannot be started.
CoordinatorFails(p) ==
  /\ "coordinator" \in faults /\ CoordinatorRuns(p)
  /\ coordinator' = [coordinator EXCEPT ![p].state = "none"]
  /\ UNCHANGED <<faults, selected, host, lease, document, client>>

CoordinatorStep(p) == Signal(p) \/ LaunchSuccessor(p)
-----------------------------------------------------------------------------
(***************************************************************************)
(* A command asks the host of its release to exit or to restart.           *)
(***************************************************************************)
\* The document is read and GET api/v2/host sent to its port; the status must
\* carry the identity in the document. A document that is outdated when the
\* status is asked for fails like one that a crashed host has left behind.
ReadLiveHost(c, r) ==
  LET d == document[r] IN
  /\ "command" \in faults /\ client[c] = None /\ d # None /\ Answers(d)
  /\ client' = [client EXCEPT ![c] = d]
  /\ UNCHANGED <<faults, selected, host, lease, document, coordinator>>

\* The POST goes to the port of the document, whoever listens by now.
PostAction(c) ==
  /\ client[c] # None
  /\ client' = [client EXCEPT ![c] = None]
  /\ \/ \E q \in Procs : Reaches(client[c], q) /\ Request(q)
     \/ UNCHANGED host
  /\ UNCHANGED <<faults, selected, lease, document, coordinator>>
-----------------------------------------------------------------------------
(***************************************************************************)
(* The environment: a release is selected, a host is killed.               *)
(***************************************************************************)
Select == /\ "select" \in faults
          /\ selected < MaxRelease /\ selected' = selected + 1
          /\ UNCHANGED <<faults, host, lease, document, coordinator, client>>

\* Bound: one crash.
Crash(p) ==
  /\ "crash" \in faults /\ Alive(p)
  /\ faults' = faults \ {"crash"}
  /\ Release(p)
  /\ Exit(p, "ended")
  /\ UNCHANGED <<selected, document, coordinator, client>>

Next ==
  \/ \E p \in Procs : \/ Launch(p) \/ MainStep(p) \/ GiveUp(p)
                      \/ Quit(p) \/ ServerStep(p) \/ PostRequest(p)
                      \/ PrepareStep(p) \/ CoordinatorStep(p)
                      \/ CoordinatorFails(p) \/ Crash(p)
  \/ \E c \in Clients : \/ \E r \in Releases : ReadLiveHost(c, r)
                        \/ PostAction(c)
  \/ Select

Spec == Init /\ [][Next]_vars

\* Threads and processes that can run do run, and deadlines pass. Nobody has
\* to launch, quit, ask or select anything, and nothing has to fail.
FairSpec ==
  /\ Spec
  /\ \A p \in Procs : /\ WF_vars(MainStep(p)) /\ SF_vars(GiveUp(p))
                      /\ WF_vars(ServerStep(p)) /\ WF_vars(PrepareStep(p))
                      /\ WF_vars(CoordinatorStep(p))
-----------------------------------------------------------------------------
(***************************************************************************)
(* Properties.                                                             *)
(***************************************************************************)
\* Two hosts of one release never listen at the same time: the lease of a
\* host is given up after its server thread has ended, however the host
\* came to its end and however many launches held the Event meanwhile.
OneServerPerRelease ==
  \A p, q \in Procs : p # q /\ Listening(p) /\ Listening(q)
                        => host[p].release # host[q].release

\* A restart that was refused does not happen later: while a host runs, a
\* coordinator that could start a successor belongs to a restart that is
\* being prepared or was accepted, also when its Event came too late.
NoStrayCoordinator ==
  \A p \in Procs : Alive(p) /\ CoordinatorRuns(p)
                     => host[p].control # "RUNNING"

\* Only the host that the document names is taken for it: neither a launch
\* nor a command accepts a process that has got the port of a host that has
\* crashed and left its document behind.
ReachesNamedHost ==
  [][/\ \A p \in Procs :
          host[p].pc = "probing" /\ host'[p].pc = "activated"
          => Serving(host[p].seen)
             /\ host[host[p].seen].release = host[p].release
     /\ \A c \in Clients :
          client'[c] \notin {None, client[c]} => Serving(client'[c])]_vars

\* Every launch comes to an end or to a host that serves: it waits for an
\* existing host only until the deadline.
LaunchSettles ==
  \A p \in Procs : host[p].pc = "launched"
                     ~> (Serving(p) \/ host[p].pc \in Ended)

\* A host that was told to stop ends, from the tray or by a request, also
\* when it is told so while it starts or prepares a restart.
StopEnds ==
  \A p \in Procs : (host[p].quitting \/ host[p].control = "STOPPING") ~> ~Alive(p)

\* A restart that was accepted starts the Launcher once the host has ended,
\* also when the host crashes on its way; only the end of the coordinator
\* itself leaves no successor.
RestartLaunches ==
  \A p \in Procs :
    (/\ host[p].control = "STOPPING" /\ coordinator[p].signalled
     /\ "coordinator" \notin faults) ~> coordinator[p].state = "done"

\* A document is removed on behalf of the host it names: host_runtime's test
\* says a host "removes only the current owner". The code reads the document
\* after it has given up the lease, and removes the file afterwards.
RemovesOnlyTheCurrentOwner ==
  [][\A r \in Releases : document[r] # None /\ document'[r] = None
                          => ~Listening(document[r])]_vars

\* Besides the types: a release has one server, a refused restart no follower.
HostSafety == TypeOK /\ OneServerPerRelease /\ NoStrayCoordinator

\* What a user asks of a host, a launch, a stop or a restart, comes to its end.
RequestsEnd == LaunchSettles /\ StopEnds /\ RestartLaunches
=============================================================================
