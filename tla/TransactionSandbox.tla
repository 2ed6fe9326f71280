------------------------- MODULE TransactionSandbox -------------------------
(***************************************************************************)
(* The simulation of operations on the staging database: ContextSimAgent   *)
(* and SandboxClient on one side, the transaction-sandbox server on the    *)
(* other.  The server runs every tool call in a thread of its pool, so a   *)
(* call that its client has given up may still be at work when the roll-   *)
(* back for the same session arrives.  All simulations change the same     *)
(* rows of one table; none of them ever commits.                           *)
(***************************************************************************)
EXTENDS Integers

CONSTANTS
    Sims,          \* the operations under simulation
    Kinds,         \* their types
    Size, Touched, \* rows of the table, rows that an operation touches
    Lossy,         \* calls that may fail at the client whatever the server does
    ReportsText    \* does the text of a database error reach the client?  (An
                   \* HTTP status 500 does not carry it.)

Tools == {"begin", "pre", "execute", "post", "log"}

ASSUME ConstantsAssumption ==
    /\ Kinds \subseteq {"SELECT", "INSERT", "UPDATE", "DELETE"}
    /\ Size \in Nat /\ Touched \in Nat /\ Touched <= Size
    /\ Lossy \subseteq Tools \cup {"rollback"}
    /\ ReportsText \in BOOLEAN

VARIABLES
    kind,    \* the type of each operation
    at,      \* per simulation: the call its client waits for
    attempt, \* per simulation: first or second attempt
    count,   \* per simulation: the row counts of the attempt
    outcome, \* per simulation: how the attempt went
    result,  \* per simulation: what the contract is told
    tool,    \* per session: the thread of a tool call
    undo,    \* per session: the thread of rollback_sandbox
    conn,    \* per session: its connection
    known    \* _sessions

vars == <<kind, at, attempt, count, outcome, result, tool, undo, conn, known>>
clientVars == <<at, attempt, count, outcome, result>>
serverVars == <<conn, known>>

Sessions == Sims \X {1, 2}

Session(c) == <<c, attempt[c]>>

\* No row count, or a count that failed.
None == -1

SimulationResult == [executed: BOOLEAN, available: BOOLEAN, timeout: BOOLEAN, actual: Int]

NoResult == [executed |-> FALSE, available |-> TRUE, timeout |-> FALSE, actual |-> None]

\* conn: "sandbox" is the transaction that begin_sandbox set up, "bare" the
\* connection after its roll-back, when the next statement would open a plain
\* transaction; "aborted" is a transaction after an error.
TypeOK ==
    /\ kind \in [Sims -> Kinds]
    /\ at \in [Sims -> Tools \cup {"idle", "rollback", "conclude", "done"}]
    /\ attempt \in [Sims -> {1, 2}]
    /\ count \in [Sims -> [pre: Int, post: Int]]
    /\ outcome \in [Sims -> {"none", "executed", "timeout", "failed"}]
    /\ result \in [Sims -> SimulationResult]
    /\ tool \in [Sessions -> [op: Tools \cup {"none"}, value: Int,
                              state: {"idle", "queued", "found", "ok", "failed", "cancelled"}]]
    /\ undo \in [Sessions -> {"idle", "queued", "popped", "rolled", "ok"}]
    /\ conn \in [Sessions -> [state: {"none", "sandbox", "aborted", "bare", "outside", "closed"},
                              locks: BOOLEAN]]
    /\ known \subseteq Sessions

NoCounts == [pre |-> None, post |-> None]

NoThread == [op |-> "none", value |-> None, state |-> "idle"]

Init ==
    /\ kind \in [Sims -> Kinds]
    /\ at = [c \in Sims |-> "idle"]
    /\ attempt = [c \in Sims |-> 1]
    /\ count = [c \in Sims |-> NoCounts]
    /\ outcome = [c \in Sims |-> "none"]
    /\ result = [c \in Sims |-> NoResult]
    /\ tool = [s \in Sessions |-> NoThread]
    /\ undo = [s \in Sessions |-> "idle"]
    /\ conn = [s \in Sessions |-> [state |-> "none", locks |-> FALSE]]
    /\ known = {}

-----------------------------------------------------------------------------
(* The row counts.  (Definitions marked "Mutation" are faulty variants of   *)
(* the next one; no specification uses them.)                               *)

\* What a count in the session's own transaction finds after the operation.
Changed(k) == CASE k = "DELETE" -> Size - Touched
                [] k = "INSERT" -> Size + Touched
                [] OTHER        -> Size

Distance(m, n) == IF m < n THEN n - m ELSE m - n

\* Mutation: a failed count is taken for a number.
ActualUnchecked(n) == Distance(n.pre, n.post)

\* _build_result: the difference, unless one of the counts failed.
Actual(n) == IF n.pre >= 0 /\ n.post >= 0 THEN Distance(n.pre, n.post) ELSE None

-----------------------------------------------------------------------------
(* The client: _run_simulation_with_retry, simulate and _run_once. *)

\* Mutation: a tool that the server does not have.
NextCallCommits(op) == CASE op = "begin"   -> "pre"
                         [] op = "pre"     -> "execute"
                         [] op = "execute" -> "post"
                         [] op = "post"    -> "log"
                         [] OTHER          -> "commit"

\* The tool call that follows op, once op has been answered.
NextCall(op) == CASE op = "begin"   -> "pre"
                  [] op = "pre"     -> "execute"
                  [] op = "execute" -> "post"
                  [] op = "post"    -> "log"
                  [] OTHER          -> "rollback"

AtWork(t) == t.state \in {"queued", "found"}

\* The client calls op; the thread of an answered call is gone.
Send(c, op) ==
    /\ at' = [at EXCEPT ![c] = op]
    /\ tool' = [tool EXCEPT ![Session(c)] =
                  CASE op # "rollback" -> [op |-> op, value |-> None, state |-> "queued"]
                    [] op = "rollback" /\ AtWork(@) -> @
                    [] OTHER -> NoThread]
    /\ undo' = IF op = "rollback" THEN [undo EXCEPT ![Session(c)] = "queued"] ELSE undo

\* SELECT, and an operation without a primary table, are not simulated.
Skip(c) ==
    /\ at[c] = "idle"
    /\ at' = [at EXCEPT ![c] = "done"]
    /\ UNCHANGED <<kind, attempt, count, outcome, result, tool, undo, serverVars>>

Start(c) ==
    /\ at[c] = "idle"
    /\ kind[c] # "SELECT"
    /\ Send(c, "begin")
    /\ UNCHANGED <<kind, attempt, count, outcome, result, serverVars>>

\* A tool call is answered: the client notes the count and makes the next one.
Answered(c) ==
    /\ at[c] \in Tools
    /\ LET t == tool[Session(c)]
       IN /\ t.state = "ok"
          /\ count' = IF t.op \in {"pre", "post"}
                      THEN [count EXCEPT ![c][t.op] = t.value] ELSE count
          /\ outcome' = IF t.op = "log" THEN [outcome EXCEPT ![c] = "executed"]
                        ELSE outcome
          /\ Send(c, NextCall(t.op))
    /\ UNCHANGED <<kind, attempt, result, serverVars>>

\* Mutation: a failed attempt is left as it stands.
GiveUpAtOnce(c, how) ==
    /\ outcome' = [outcome EXCEPT ![c] = how]
    /\ at' = [at EXCEPT ![c] = "conclude"]
    /\ UNCHANGED <<tool, undo>>

\* An exception in _run_once: the finally clause rolls the session back, if
\* the client knows it.
GiveUp(c, how) ==
    /\ outcome' = [outcome EXCEPT ![c] = how]
    /\ IF at[c] = "begin"
       THEN at' = [at EXCEPT ![c] = "conclude"] /\ UNCHANGED <<tool, undo>>
       ELSE Send(c, "rollback")

\* The server answers with an error.
Failed(c) ==
    /\ at[c] \in Tools
    /\ LET t == tool[Session(c)]
       IN /\ t.state \in {"failed", "cancelled"}
          /\ GiveUp(c, IF t.op = "execute" /\ t.state = "cancelled" /\ ReportsText
                       THEN "timeout" ELSE "failed")
    /\ UNCHANGED <<kind, attempt, count, result, serverVars>>

\* The client gets no result: the request or the answer is lost or late, or
\* mcp_client.call takes the answer, which has a key "error", for a failure.
Lost(c) ==
    /\ at[c] \in Tools \cap Lossy
    /\ GiveUp(c, "failed")
    /\ UNCHANGED <<kind, attempt, count, result, serverVars>>

\* rollback_sandbox returns or fails; a failure is only logged.
RolledBack(c) ==
    /\ at[c] = "rollback"
    /\ undo[Session(c)] = "ok"
    /\ at' = [at EXCEPT ![c] = "conclude"]
    /\ UNCHANGED <<kind, attempt, count, outcome, result, tool, undo, serverVars>>

RollbackLost(c) ==
    /\ at[c] = "rollback"
    /\ "rollback" \in Lossy
    /\ undo' \in {undo} \cup (IF undo[Session(c)] = "queued"
                              THEN {[undo EXCEPT ![Session(c)] = "idle"]} ELSE {})
    /\ at' = [at EXCEPT ![c] = "conclude"]
    /\ UNCHANGED <<kind, attempt, count, outcome, result, tool, serverVars>>

\* A second attempt after a statement time-out in the first.
Retry(c) ==
    /\ at[c] = "conclude"
    /\ outcome[c] = "timeout"
    /\ attempt[c] = 1
    /\ attempt' = [attempt EXCEPT ![c] = 2]
    /\ at' = [at EXCEPT ![c] = "begin"]
    /\ tool' = [tool EXCEPT ![<<c, 2>>] = [op |-> "begin", value |-> None, state |-> "queued"]]
    /\ count' = [count EXCEPT ![c] = NoCounts]
    /\ outcome' = [outcome EXCEPT ![c] = "none"]
    /\ UNCHANGED <<kind, result, undo, serverVars>>

\* Mutation: there is always another attempt.
ConcludeNever(c) ==
    /\ at[c] = "conclude"
    /\ outcome[c] = "executed"
    /\ at' = [at EXCEPT ![c] = "done"]
    /\ UNCHANGED <<kind, attempt, count, outcome, result, tool, undo, serverVars>>

\* apply_to_contract; every failure is reported as a time-out.
Conclude(c) ==
    /\ at[c] = "conclude"
    /\ outcome[c] = "timeout" => attempt[c] = 2
    /\ at' = [at EXCEPT ![c] = "done"]
    /\ result' = [result EXCEPT ![c] =
         IF outcome[c] = "executed"
         THEN [executed |-> TRUE, available |-> TRUE, timeout |-> FALSE,
               actual |-> Actual(count[c])]
         ELSE [executed |-> FALSE, available |-> FALSE, timeout |-> TRUE,
               actual |-> None]]
    /\ count' = [count EXCEPT ![c] = NoCounts]
    /\ outcome' = [outcome EXCEPT ![c] = "none"]
    /\ UNCHANGED <<kind, attempt, tool, undo, serverVars>>

-----------------------------------------------------------------------------
(* The server: one thread per call. *)

\* Does a client wait for the answer of this thread?
Awaited(s) == at[s[1]] = tool[s].op /\ attempt[s[1]] = s[2]

Reply(s, state, value) ==
    tool' = [tool EXCEPT ![s] =
        IF Awaited(s) THEN [op |-> @.op, value |-> value, state |-> state] ELSE NoThread]

Thread(s, ops, state) == tool[s].op \in ops /\ tool[s].state = state

\* begin_sandbox: a transaction with sandbox mode and a statement time-out.
Begin(s) ==
    /\ Thread(s, {"begin"}, "queued")
    /\ \/ /\ conn' = [conn EXCEPT ![s].state = "sandbox"]
          /\ known' = known \cup {s}
          /\ Reply(s, "ok", None)
       \/ /\ Reply(s, "failed", None)
          /\ UNCHANGED <<conn, known>>
    /\ UNCHANGED <<kind, clientVars, undo>>

\* The other tools look the connection up in _sessions.
LookUp(s) ==
    /\ Thread(s, Tools \ {"begin"}, "queued")
    /\ IF s \in known THEN tool' = [tool EXCEPT ![s].state = "found"]
                       ELSE Reply(s, "failed", None)
    /\ UNCHANGED <<kind, clientVars, undo, serverVars>>

\* capture_diff.  An error gives the count -1 and aborts the transaction; an
\* error in a later table leaves the count of the first.
Count(s) ==
    /\ Thread(s, {"pre", "post"}, "found")
    /\ \/ /\ conn[s].state \in {"sandbox", "bare"}
          /\ Reply(s, "ok", IF tool[s].op = "post" /\ conn[s].state = "sandbox"
                            THEN Changed(kind[s[1]]) ELSE Size)
          /\ UNCHANGED conn
       \/ /\ conn[s].state = "sandbox"
          /\ \E n \in {None, IF tool[s].op = "post" THEN Changed(kind[s[1]]) ELSE Size} :
               Reply(s, "ok", n)
          /\ conn' = [conn EXCEPT ![s] = [state |-> "aborted", locks |-> FALSE]]
       \/ /\ conn[s].state = "aborted"
          /\ Reply(s, "ok", None)
          /\ UNCHANGED conn
       \/ /\ conn[s].state = "closed"
          /\ Reply(s, "failed", None)
          /\ UNCHANGED conn
    /\ UNCHANGED <<kind, clientVars, undo, known>>

\* Another session holds the rows (or the keys) that the SQL is to write.
Blocked(s) == \E r \in Sessions \ {s} : conn[r].locks

\* execute_in_sandbox: the SQL of the operation, once the rows are free.
Execute(s) ==
    /\ Thread(s, {"execute"}, "found")
    /\ conn[s].state = "sandbox"
    /\ ~Blocked(s)
    /\ conn' = [conn EXCEPT ![s].locks = TRUE]
    /\ Reply(s, "ok", None)
    /\ UNCHANGED <<kind, clientVars, undo, known>>

\* A database error, or statement_timeout cancels the statement.
ExecuteFails(s) ==
    /\ Thread(s, {"execute"}, "found")
    /\ conn[s].state \in {"sandbox", "aborted", "closed"}
    /\ IF conn[s].state = "sandbox"
       THEN /\ \E state \in {"failed", "cancelled"} : Reply(s, state, None)
            /\ conn' = [conn EXCEPT ![s] = [state |-> "aborted", locks |-> FALSE]]
       ELSE Reply(s, "failed", None) /\ UNCHANGED conn
    /\ UNCHANGED <<kind, clientVars, undo, known>>

\* Between rollback() and close() psycopg2 opens a new transaction for the
\* statement, without the settings made by SET LOCAL.
ExecuteOutside(s) ==
    /\ Thread(s, {"execute"}, "found")
    /\ conn[s].state = "bare"
    /\ ~Blocked(s)
    /\ conn' = [conn EXCEPT ![s] = [state |-> "outside", locks |-> TRUE]]
    /\ Reply(s, "ok", None)
    /\ UNCHANGED <<kind, clientVars, undo, known>>

\* get_trigger_log: an error is an empty log, and aborts the transaction.
TriggerLog(s) ==
    /\ Thread(s, {"log"}, "found")
    /\ \/ /\ conn[s].state # "closed"
          /\ Reply(s, "ok", None)
          /\ UNCHANGED conn
       \/ /\ conn[s].state = "sandbox"
          /\ Reply(s, "ok", None)
          /\ conn' = [conn EXCEPT ![s] = [state |-> "aborted", locks |-> FALSE]]
       \/ /\ conn[s].state = "closed"
          /\ Reply(s, "failed", None)
          /\ UNCHANGED conn
    /\ UNCHANGED <<kind, clientVars, undo, known>>

\* Mutation: the session is forgotten, its transaction is not ended.
PopOnly(s) ==
    /\ undo[s] = "queued"
    /\ known' = known \ {s}
    /\ undo' = [undo EXCEPT ![s] = "ok"]
    /\ UNCHANGED <<kind, clientVars, tool, conn>>

\* rollback_sandbox: the session is popped, rolled back and closed.
Pop(s) ==
    /\ undo[s] = "queued"
    /\ known' = known \ {s}
    /\ undo' = [undo EXCEPT ![s] = IF s \in known THEN "popped" ELSE "ok"]
    /\ UNCHANGED <<kind, clientVars, tool, conn>>

RollBack(s) ==
    /\ undo[s] = "popped"
    /\ conn' = [conn EXCEPT ![s] = [state |-> "bare", locks |-> FALSE]]
    /\ undo' = [undo EXCEPT ![s] = "rolled"]
    /\ UNCHANGED <<kind, clientVars, tool, known>>

Close(s) ==
    /\ undo[s] = "rolled"
    /\ conn' = [conn EXCEPT ![s] = [state |-> "closed", locks |-> FALSE]]
    /\ undo' = [undo EXCEPT ![s] = "ok"]
    /\ UNCHANGED <<kind, clientVars, tool, known>>

-----------------------------------------------------------------------------

ClientStep(c) ==
    \/ Skip(c) \/ Start(c) \/ Answered(c) \/ Failed(c) \/ Lost(c)
    \/ RolledBack(c) \/ RollbackLost(c) \/ Retry(c) \/ Conclude(c)

ToolStep(s) ==
    \/ Begin(s) \/ LookUp(s) \/ Count(s) \/ Execute(s) \/ ExecuteFails(s)
    \/ ExecuteOutside(s) \/ TriggerLog(s)

UndoStep(s) == Pop(s) \/ RollBack(s) \/ Close(s)

Ended ==
    /\ \A c \in Sims : at[c] = "done"
    /\ \A s \in Sessions : ~AtWork(tool[s]) /\ undo[s] \in {"idle", "ok"}

Next ==
    \/ \E c \in Sims : ClientStep(c)
    \/ \E s \in Sessions : ToolStep(s) \/ UndoStep(s)
    \/ Ended /\ UNCHANGED vars

Spec == Init /\ [][Next]_vars

(***************************************************************************)
(* Fairness: the client's task runs and its calls time out; the threads of *)
(* the server run, and the statement time-out ends a statement that waits. *)
(***************************************************************************)
Fairness ==
    /\ \A c \in Sims : WF_vars(ClientStep(c))
    /\ \A s \in Sessions : WF_vars(ToolStep(s)) /\ WF_vars(UndoStep(s))

FairSpec == Spec /\ Fairness

-----------------------------------------------------------------------------
(* Properties. *)

\* The number of rows the contract reports is the change that the operation
\* made in its own transaction: no failed count, aborted transaction, second
\* attempt or concurrent simulation gets into it.
MeasuredOwnChange ==
    \A c \in Sims :
        result[c].actual # None =>
            /\ result[c].executed
            /\ result[c].actual = Distance(Size, Changed(kind[c]))

\* Once a client has given a session up, or is through with it, the session
\* holds no rows: neither a second attempt nor another simulation waits for a
\* thread that nobody waits for.
NoLockLeft ==
    \A s \in Sessions :
        at[s[1]] \in {"conclude", "done"} \/ s[2] < attempt[s[1]] => ~conn[s].locks

\* run of the agent ends: neither a lost call nor rows locked by another
\* simulation keep the pipeline in CONTEXT_AND_SIM.
SimulationEnds == \A c \in Sims : <>(at[c] = "done")

\* "Rollback is always performed - even on error": every transaction opened is
\* closed again.
SessionsClosed ==
    \A s \in Sessions : (conn[s].state = "sandbox") ~> (conn[s].state = "closed")

=============================================================================
