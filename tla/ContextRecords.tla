--------------------------- MODULE ContextRecords ---------------------------
(***************************************************************************)
(* What the Context store promises to those who give commands: each takes  *)
(* effect at most once and at one moment, while it runs; a success is      *)
(* reported only if it did; what is shown or listed was so while it was    *)
(* being read; and a refusal is true.  A command that dies or fails        *)
(* damages at most one Context, which can then be refused without reason.  *)
(***************************************************************************)
EXTENDS FiniteSets, Integers

CONSTANTS
    Ids,         \* Context IDs
    Processes,   \* command processes; each adds a note of its own
    Old,         \* a note that Contexts of earlier versions have
    MaxNotes,    \* MAX_CONTEXT_NOTES
    None, Unread

VARIABLES
    records,     \* the Contexts
    damaged,     \* those a dead or failed command left damaged
    call,        \* what each process was asked to do
    seen,        \* what it has read so far for its answer
    answer       \* its answer, or None

Changes == {"note", "remove", "prompt"}
Reads == {"show", "list"}
Ops == {"new", "delete"} \union Changes \union Reads
Calls == [op : Ops \ {"list"}, id : Ids] \union [op : {"list"}, id : {None}]

Record == [notes : SUBSET (Processes \union {Old}), prompt : Processes \union {None}]
Empty == [notes |-> {}, prompt |-> None]

\* A note is added, a command reference is removed, the prompt is replaced.
Changed(op, record, p) ==
    CASE op = "note"   -> [record EXCEPT !.notes = @ \union {p}]
      [] op = "remove" -> [record EXCEPT !.notes = @ \ {Old}]
      [] op = "prompt" -> [record EXCEPT !.prompt = p]

TooLarge(record) == Cardinality(record.notes) > MaxNotes

\* Why a change of this record is refused, or "ok".
Verdict(op, record, p) ==
    IF op = "remove" /\ Old \notin record.notes THEN "absent"
    ELSE IF TooLarge(Changed(op, record, p)) THEN "limit"
    ELSE "ok"

NothingSeen == [i \in Ids |-> Unread]
Idle == [op |-> "none"]
Mine(p) == records[call[p].id]
Asked(p, ops) == call[p].op \in ops /\ answer[p] = None
Answer(p, a) == answer' = [answer EXCEPT ![p] = a]
DamageOne == \E D \in {{}} \union {{i} : i \in Ids} : damaged' = damaged \union D

Init ==
    /\ records \in [Ids -> Record \union {None}]
    /\ damaged = {}
    /\ call = [p \in Processes |-> Idle]
    /\ seen = [p \in Processes |-> NothingSeen]
    /\ answer = [p \in Processes |-> None]

Begin(p) ==
    /\ call[p] = Idle
    /\ \E c \in Calls : call' = [call EXCEPT ![p] = c]
    /\ UNCHANGED <<records, damaged, seen, answer>>

Create(p) ==
    /\ Asked(p, {"new"}) /\ Mine(p) = None
    /\ records' = [records EXCEPT ![call[p].id] = Empty]
    /\ Answer(p, "ok")
    /\ UNCHANGED <<damaged, call, seen>>

Change(p) ==
    /\ Asked(p, Changes) /\ Mine(p) # None
    /\ Verdict(call[p].op, Mine(p), p) = "ok"
    /\ records' = [records EXCEPT ![call[p].id] = Changed(call[p].op, @, p)]
    /\ Answer(p, "ok")
    /\ UNCHANGED <<damaged, call, seen>>

\* A deletion has its effect before it is known whether it is completed.
Delete(p) ==
    /\ Asked(p, {"delete"}) /\ Mine(p) # None
    /\ records' = [records EXCEPT ![call[p].id] = None]
    /\ Answer(p, "deleted")
    /\ UNCHANGED <<damaged, call, seen>>

EndDelete(p) ==
    /\ answer[p] = "deleted"
    /\ \/ Answer(p, "ok") /\ UNCHANGED damaged
       \/ Answer(p, "failed") /\ damaged' = damaged \union {call[p].id}
    /\ UNCHANGED <<records, call, seen>>

Show(p) ==
    /\ Asked(p, {"show"}) /\ Mine(p) # None
    /\ seen' = [seen EXCEPT ![p][call[p].id] = Mine(p)]
    /\ Answer(p, "ok")
    /\ UNCHANGED <<records, damaged, call>>

\* A list need not be of one moment, but each of its parts is.
ListSome(p) ==
    /\ Asked(p, {"list"})
    /\ \E S \in SUBSET {i \in Ids : seen[p][i] = Unread} :
         seen' = [seen EXCEPT ![p] = [i \in Ids |-> IF i \in S THEN records[i] ELSE @[i]]]
    /\ UNCHANGED <<records, damaged, call, answer>>

EndList(p) ==
    /\ Asked(p, {"list"}) /\ \A i \in Ids : seen[p][i] # Unread
    /\ Answer(p, "ok")
    /\ UNCHANGED <<records, damaged, call, seen>>

\* The Context must be absent, or present and the change impossible; a list is
\* refused for a Context that is gone when its turn comes.
Refuse(p) ==
    /\ \/ Asked(p, {"new"}) /\ (Mine(p) # None \/ call[p].id \in damaged)
          /\ Answer(p, "exists")
       \/ Asked(p, Changes \union {"delete", "show"}) /\ Mine(p) = None
          /\ Answer(p, "missing")
       \/ Asked(p, Changes) /\ Mine(p) # None
          /\ Verdict(call[p].op, Mine(p), p) # "ok"
          /\ Answer(p, Verdict(call[p].op, Mine(p), p))
       \/ Asked(p, {"list"}) /\ (\E i \in Ids : seen[p][i] = Unread /\ records[i] = None)
          /\ Answer(p, "missing")
       \/ Asked(p, {"delete"}) /\ call[p].id \in damaged /\ Answer(p, "unexpected")
       \/ Asked(p, Ops) /\ damaged # {} /\ Answer(p, "conflict")
       \/ Asked(p, Ops) /\ (\E q \in Processes \ {p} : call[q] # Idle) /\ Answer(p, "busy")
    /\ UNCHANGED <<records, damaged, call, seen>>

Fail(p) ==
    /\ Asked(p, Ops) /\ DamageOne
    /\ Answer(p, "failed")
    /\ UNCHANGED <<records, call, seen>>

\* The process ends: with its answer, or without one.
Leave(p) ==
    /\ call' = [call EXCEPT ![p] = Idle]
    /\ seen' = [seen EXCEPT ![p] = NothingSeen]
    /\ answer' = [answer EXCEPT ![p] = None]
    /\ UNCHANGED records

Return(p) == answer[p] \notin {None, "deleted"} /\ Leave(p) /\ UNCHANGED damaged
Die(p) == call[p] # Idle /\ Leave(p) /\ DamageOne

Next ==
    \E p \in Processes :
        \/ Begin(p)
        \/ Create(p) \/ Change(p) \/ Delete(p) \/ EndDelete(p)
        \/ Show(p) \/ ListSome(p) \/ EndList(p)
        \/ Refuse(p) \/ Fail(p)
        \/ Return(p) \/ Die(p)

Spec == Init /\ [][Next]_<<records, damaged, call, seen, answer>>
=============================================================================
