---------------------- MODULE TransactionSandboxProofs ----------------------
(***************************************************************************)
(* Theorems about TransactionSandbox, for any number of simulations, rows  *)
(* and types of operation, and for any set of calls that may get lost.     *)
(***************************************************************************)
EXTENDS TransactionSandbox, TLAPS

-----------------------------------------------------------------------------
(* Sessions, and what the two halves of a call do. *)

Threads == [op: Tools \cup {"none"}, value: Int,
            state: {"idle", "queued", "found", "ok", "failed", "cancelled"}]

\* A session is a pair; a client has one session at a time.
LEMMA SessionPairs ==
  ASSUME TypeOK
  PROVE  /\ \A s \in Sessions : s[1] \in Sims /\ s[2] \in {1, 2}
         /\ \A c \in Sims : /\ Session(c) \in Sessions
                            /\ Session(c)[1] = c /\ Session(c)[2] = attempt[c]
         /\ \A s \in Sessions, c \in Sims :
               s[1] = c /\ s[2] = attempt[c] => s = Session(c)
  BY DEF TypeOK, Sessions, Session

\* What a client's call leaves behind.
LEMMA SendEffect ==
  ASSUME TypeOK, NEW c \in Sims, NEW op \in Tools \cup {"rollback"}, Send(c, op)
  PROVE  /\ at' \in [Sims -> Tools \cup {"idle", "rollback", "conclude", "done"}]
         /\ at'[c] = op /\ \A d \in Sims \ {c} : at'[d] = at[d]
         /\ tool' \in [Sessions -> Threads]
         /\ undo' \in [Sessions -> {"idle", "queued", "popped", "rolled", "ok"}]
         /\ \A s \in Sessions \ {Session(c)} : tool'[s] = tool[s] /\ undo'[s] = undo[s]
         /\ op # "rollback" =>
               /\ undo' = undo
               /\ tool'[Session(c)] = [op |-> op, value |-> None, state |-> "queued"]
         /\ op = "rollback" =>
               /\ undo'[Session(c)] = "queued"
               /\ tool'[Session(c)] \in {tool[Session(c)], NoThread}
  <1>1. Session(c) \in Sessions
    BY SessionPairs
  <1>2. tool \in [Sessions -> Threads] /\ NoThread \in Threads /\ None \in Int
    BY DEF TypeOK, Threads, NoThread, None
  <1> DEFINE new == CASE op # "rollback" -> [op |-> op, value |-> None, state |-> "queued"]
                      [] op = "rollback" /\ AtWork(tool[Session(c)]) -> tool[Session(c)]
                      [] OTHER -> NoThread
  <1>3. /\ new \in Threads
        /\ op # "rollback" => new = [op |-> op, value |-> None, state |-> "queued"]
        /\ op = "rollback" => new \in {tool[Session(c)], NoThread}
    BY <1>1, <1>2 DEF Threads
  <1>4. tool' = [tool EXCEPT ![Session(c)] = new]
    BY DEF Send
  <1> HIDE DEF new
  <1>5. /\ tool' \in [Sessions -> Threads] /\ tool'[Session(c)] = new
        /\ \A s \in Sessions \ {Session(c)} : tool'[s] = tool[s]
    BY <1>1, <1>2, <1>3, <1>4
  <1>6. /\ undo' \in [Sessions -> {"idle", "queued", "popped", "rolled", "ok"}]
        /\ \A s \in Sessions \ {Session(c)} : undo'[s] = undo[s]
        /\ IF op = "rollback" THEN undo'[Session(c)] = "queued" ELSE undo' = undo
    BY <1>1 DEF Send, TypeOK
  <1>7. /\ at' \in [Sims -> Tools \cup {"idle", "rollback", "conclude", "done"}]
        /\ at'[c] = op /\ \A d \in Sims \ {c} : at'[d] = at[d]
    BY DEF Send, TypeOK
  <1> QED
    BY <1>3, <1>5, <1>6, <1>7

\* What a thread's answer leaves behind: nothing, when nobody waits for it.
LEMMA ReplyEffect ==
  ASSUME TypeOK, NEW s \in Sessions, NEW value \in Int,
         NEW state \in {"ok", "failed", "cancelled"}, Reply(s, state, value)
  PROVE  /\ tool' \in [Sessions -> Threads]
         /\ \A r \in Sessions \ {s} : tool'[r] = tool[r]
         /\ Awaited(s) => /\ tool'[s].op = tool[s].op /\ tool'[s].value = value
                          /\ tool'[s].state = state
         /\ ~Awaited(s) => tool'[s] = NoThread
  <1>1. tool \in [Sessions -> Threads] /\ tool[s] \in Threads
    BY DEF TypeOK, Threads
  <1>3. [op |-> tool[s].op, value |-> value, state |-> state] \in Threads
        /\ NoThread \in Threads
    BY <1>1 DEF Threads, NoThread, None
  <1> QED
    BY <1>1, <1>3 DEF Reply

\* What the look-up of a session leaves behind.
LEMMA FoundEffect ==
  ASSUME NEW f \in [Sessions -> Threads], NEW s \in Sessions
  PROVE  LET g == [f EXCEPT ![s].state = "found"]
         IN /\ g \in [Sessions -> Threads]
            /\ g[s] = [op |-> f[s].op, value |-> f[s].value, state |-> "found"]
            /\ \A r \in Sessions \ {s} : g[r] = f[r]
  <1>1. PICK o \in Tools \cup {"none"}, v \in Int,
             st \in {"idle", "queued", "found", "ok", "failed", "cancelled"} :
          f[s] = [op |-> o, value |-> v, state |-> st]
    BY DEF Threads
  <1>2. [f[s] EXCEPT !.state = "found"] = [op |-> f[s].op, value |-> f[s].value, state |-> "found"]
        /\ [f[s] EXCEPT !.state = "found"] \in Threads
    BY <1>1 DEF Threads
  <1>3. \A n \in Threads : /\ [f EXCEPT ![s] = n] \in [Sessions -> Threads]
                           /\ [f EXCEPT ![s] = n][s] = n
                           /\ \A r \in Sessions \ {s} : [f EXCEPT ![s] = n][r] = f[r]
    OBVIOUS
  <1> HIDE DEF Threads
  <1> QED  BY <1>2, <1>3

-----------------------------------------------------------------------------
(* Types. *)

\* What the clients and the contracts are told.
LEMMA CountTypes ==
  /\ \A k : Changed(k) \in Int
  /\ Size \in Int /\ None \in Int
  /\ \A n \in [pre: Int, post: Int] : Actual(n) \in Int
  BY ConstantsAssumption DEF Changed, None, Actual, Distance

\* A call of the client keeps the types.
LEMMA ClientTyping ==
  ASSUME TypeOK, NEW c \in Sims, ClientStep(c) PROVE TypeOK'
  <1> USE SessionPairs
  <1>1. CASE Skip(c)
    BY <1>1 DEF Skip, serverVars, TypeOK
  <1>2. CASE Start(c)
    <2>1. Send(c, "begin") /\ "begin" \in Tools
      BY <1>2 DEF Start, Tools
    <2> QED
      BY <1>2, <2>1, SendEffect DEF Start, serverVars, TypeOK, Threads
  <1>3. CASE Answered(c)
    <2> DEFINE t == tool[Session(c)]
    <2>1. Send(c, NextCall(t.op)) /\ NextCall(t.op) \in Tools \cup {"rollback"}
      BY <1>3 DEF Answered, NextCall, Tools
    <2>2. count' \in [Sims -> [pre: Int, post: Int]]
      BY <1>3 DEF Answered, TypeOK
    <2>3. outcome' \in [Sims -> {"none", "executed", "timeout", "failed"}]
      BY <1>3 DEF Answered, TypeOK
    <2> QED
      BY <1>3, <2>1, <2>2, <2>3, SendEffect DEF Answered, serverVars, TypeOK, Threads
  <1>4. ASSUME NEW how \in {"timeout", "failed"}, GiveUp(c, how),
               UNCHANGED <<kind, attempt, count, result, serverVars>>
        PROVE  TypeOK'
    <2>1. outcome' \in [Sims -> {"none", "executed", "timeout", "failed"}]
      BY <1>4 DEF GiveUp, TypeOK
    <2>2. CASE at[c] = "begin"
      <3>1. at' \in [Sims -> Tools \cup {"idle", "rollback", "conclude", "done"}]
        BY <1>4, <2>2 DEF GiveUp, TypeOK
      <3>2. UNCHANGED <<tool, undo>>
        BY <1>4, <2>2 DEF GiveUp
      <3> QED  BY <1>4, <2>1, <3>1, <3>2 DEF serverVars, TypeOK
    <2>3. CASE at[c] # "begin"
      BY <1>4, <2>1, <2>3, SendEffect DEF GiveUp, serverVars, TypeOK, Threads
    <2> QED  BY <2>2, <2>3
  <1>5. CASE Failed(c)
    BY <1>4, <1>5 DEF Failed
  <1>6. CASE Lost(c)
    BY <1>4, <1>6 DEF Lost
  <1>7. CASE RolledBack(c)
    BY <1>7 DEF RolledBack, serverVars, TypeOK
  <1>8. CASE RollbackLost(c)
    BY <1>8 DEF RollbackLost, serverVars, TypeOK
  <1>9. CASE Retry(c)
    <2>1. [op |-> "begin", value |-> None, state |-> "queued"] \in Threads
          /\ <<c, 2>> \in Sessions
      BY DEF Threads, None, Tools, Sessions
    <2>2. tool' \in [Sessions -> Threads]
      BY <1>9, <2>1 DEF Retry, TypeOK, Threads
    <2>3. count' \in [Sims -> [pre: Int, post: Int]]
      BY <1>9 DEF Retry, TypeOK, NoCounts, None
    <2> QED
      BY <1>9, <2>2, <2>3 DEF Retry, serverVars, TypeOK, Tools, Threads
  <1>10. CASE Conclude(c)
    <2>1. result' \in [Sims -> SimulationResult]
      <3>1. Actual(count[c]) \in Int /\ None \in Int
        BY CountTypes DEF TypeOK
      <3> HIDE DEF Actual
      <3> QED  BY <1>10, <3>1 DEF Conclude, TypeOK, SimulationResult
    <2>2. count' \in [Sims -> [pre: Int, post: Int]]
      BY <1>10 DEF Conclude, TypeOK, NoCounts, None
    <2> QED
      BY <1>10, <2>1, <2>2 DEF Conclude, serverVars, TypeOK
  <1> QED
    BY <1>1, <1>2, <1>3, <1>5, <1>6, <1>7, <1>8, <1>9, <1>10 DEF ClientStep

Conns == [state: {"none", "sandbox", "aborted", "bare", "outside", "closed"},
          locks: BOOLEAN]

\* What a step of a server thread may do to a connection.
LEMMA ConnEffect ==
  ASSUME TypeOK, NEW s \in Sessions, ToolStep(s) \/ UndoStep(s)
  PROVE  /\ conn' \in [Sessions -> Conns]
         /\ \A r \in Sessions \ {s} : conn'[r] = conn[r]
         /\ \/ conn'[s] = conn[s]
            \/ Begin(s) /\ conn'[s].state = "sandbox" /\ (conn'[s].locks => conn[s].locks)
            \/ Execute(s) /\ conn'[s].state = "sandbox"
            \/ conn[s].state = "sandbox" /\ conn'[s].state = "aborted" /\ ~conn'[s].locks
            \/ ExecuteOutside(s) /\ conn'[s].state = "outside"
            \/ RollBack(s) /\ conn'[s].state = "bare" /\ ~conn'[s].locks
            \/ Close(s) /\ conn'[s].state = "closed" /\ ~conn'[s].locks
  <1> DEFINE N(st, b) == [state |-> st, locks |-> b]
             B == [conn[s] EXCEPT !.state = "sandbox"]
             X == [conn[s] EXCEPT !.locks = TRUE]
  <1>1. conn \in [Sessions -> Conns] /\ conn[s] \in Conns
    BY DEF TypeOK, Conns
  <1>2. PICK st \in {"none", "sandbox", "aborted", "bare", "outside", "closed"}, b \in BOOLEAN :
          conn[s] = [state |-> st, locks |-> b]
    BY <1>1 DEF Conns
  <1>3. /\ B \in Conns /\ B.state = "sandbox" /\ (B.locks => conn[s].locks)
        /\ X \in Conns /\ X.state = conn[s].state
    <2>1. B \in Conns /\ X \in Conns
      <3>1. ASSUME NEW r \in Conns
            PROVE  [r EXCEPT !.state = "sandbox"] \in Conns /\ [r EXCEPT !.locks = TRUE] \in Conns
        BY DEF Conns
      <3> QED  BY <1>1, <3>1
    <2>2. B.state = "sandbox" /\ X.state = conn[s].state
      BY <1>2
    <2>3. B.locks = conn[s].locks
      BY <1>2, Zenon
    <2> QED  BY <2>1, <2>2, <2>3
  <1>4. /\ N("aborted", FALSE) \in Conns /\ N("outside", TRUE) \in Conns
        /\ N("bare", FALSE) \in Conns /\ N("closed", FALSE) \in Conns
    BY DEF Conns
  <1>5. /\ N("aborted", FALSE).state = "aborted" /\ ~N("aborted", FALSE).locks
        /\ N("outside", TRUE).state = "outside"
        /\ N("bare", FALSE).state = "bare" /\ ~N("bare", FALSE).locks
        /\ N("closed", FALSE).state = "closed" /\ ~N("closed", FALSE).locks
    OBVIOUS
  <1>6. \/ conn' = conn
        \/ Begin(s) /\ conn' = [conn EXCEPT ![s] = B]
        \/ Execute(s) /\ conn[s].state = "sandbox" /\ conn' = [conn EXCEPT ![s] = X]
        \/ conn[s].state = "sandbox" /\ conn' = [conn EXCEPT ![s] = N("aborted", FALSE)]
        \/ ExecuteOutside(s) /\ conn' = [conn EXCEPT ![s] = N("outside", TRUE)]
        \/ RollBack(s) /\ conn' = [conn EXCEPT ![s] = N("bare", FALSE)]
        \/ Close(s) /\ conn' = [conn EXCEPT ![s] = N("closed", FALSE)]
    BY ZenonT(40) DEF ToolStep, UndoStep, Begin, LookUp, Count, Execute, ExecuteFails,
       ExecuteOutside, TriggerLog, Pop, RollBack, Close, serverVars
  <1> HIDE DEF N, B, X, Conns
  <1>7. \A n \in Conns : conn' = [conn EXCEPT ![s] = n] =>
          /\ conn' \in [Sessions -> Conns] /\ conn'[s] = n
          /\ \A r \in Sessions \ {s} : conn'[r] = conn[r]
    BY <1>1
  <1> QED
    BY <1>1, <1>3, <1>4, <1>5, <1>6, <1>7

\* A step of a server thread keeps them.
LEMMA ServerTyping ==
  ASSUME TypeOK, NEW s \in Sessions, ToolStep(s) \/ UndoStep(s) PROVE TypeOK'
  <1>1. conn' \in [Sessions -> Conns]
    BY ConnEffect
  <1>2. tool' \in [Sessions -> Threads]
    <2> HIDE DEF Reply
    <2>1. ASSUME NEW value \in Int, NEW state \in {"ok", "failed", "cancelled"},
                 Reply(s, state, value)
          PROVE  tool' \in [Sessions -> Threads]
      BY <2>1, ReplyEffect
    <2>2. CASE Begin(s) \/ Execute(s) \/ ExecuteFails(s) \/ ExecuteOutside(s) \/ TriggerLog(s)
      BY <2>1, <2>2, CountTypes DEF Begin, Execute, ExecuteFails, ExecuteOutside, TriggerLog
    <2>3. CASE LookUp(s)
      <3>1. tool \in [Sessions -> Threads]
        BY DEF TypeOK, Threads
      <3>2. [tool EXCEPT ![s].state = "found"] \in [Sessions -> Threads]
        BY <3>1, FoundEffect
      <3> QED  BY <2>1, <2>3, <3>2, CountTypes DEF LookUp
    <2>4. CASE Count(s)
      BY <2>1, <2>4, CountTypes DEF Count
    <2>5. CASE UndoStep(s)
      BY <2>5 DEF UndoStep, Pop, RollBack, Close, TypeOK, Threads
    <2> QED  BY <2>2, <2>3, <2>4, <2>5 DEF ToolStep
  <1>3. undo' \in [Sessions -> {"idle", "queued", "popped", "rolled", "ok"}]
        /\ known' \subseteq Sessions
    BY DEF ToolStep, UndoStep, Begin, LookUp, Count, Execute, ExecuteFails, ExecuteOutside,
       TriggerLog, Pop, RollBack, Close, serverVars, TypeOK
  <1>4. UNCHANGED <<kind, clientVars>>
    BY DEF ToolStep, UndoStep, Begin, LookUp, Count, Execute, ExecuteFails, ExecuteOutside,
       TriggerLog, Pop, RollBack, Close
  <1> QED
    BY <1>1, <1>2, <1>3, <1>4 DEF TypeOK, Threads, Conns, clientVars

LEMMA InitTyping == Init => TypeOK
  BY DEF Init, TypeOK, NoCounts, NoThread, NoResult, SimulationResult, None, Tools

\* Every variable keeps its type; in particular a thread is at most one call of
\* one session.
THEOREM SandboxTyping == Spec => []TypeOK
  <1>1. Init => TypeOK
    BY InitTyping
  <1>2. ASSUME TypeOK, UNCHANGED vars PROVE TypeOK'
    BY <1>2 DEF vars, TypeOK
  <1>3. TypeOK /\ [Next]_vars => TypeOK'
    BY <1>2, ClientTyping, ServerTyping DEF Next
  <1> QED
    BY <1>1, <1>3, PTL DEF Spec

-----------------------------------------------------------------------------
(* The counts.  A session whose client still makes calls has not been rolled *)
(* back, so a count that a client waits for was made in the transaction that *)
(* begin_sandbox set up, or failed.                                          *)

Current(s) == attempt[s[1]] = s[2]

\* Nobody has asked for the roll-back of the session yet.
Live(s) ==
    \/ attempt[s[1]] < s[2]
    \/ Current(s) /\ at[s[1]] \in Tools \cup {"idle"}

MeasureInv ==
    /\ \A s \in Sessions : Live(s) => undo[s] = "idle"
    /\ \A s \in Sessions :
          conn[s].state \in {"bare", "outside", "closed"} => undo[s] \in {"rolled", "ok"}
    /\ \A s \in Sessions :
          /\ tool[s].op = "pre" => tool[s].value \in {None, Size}
          /\ tool[s].op = "post" => tool[s].value \in {None, Changed(kind[s[1]])}
    /\ \A c \in Sims : /\ count[c].pre \in {None, Size}
                       /\ count[c].post \in {None, Changed(kind[c])}
    /\ MeasuredOwnChange

\* Only a call of the client leaves a session.
LEMMA LiveBefore ==
  ASSUME TypeOK, NEW c \in Sims, NEW s \in Sessions, Live(s)',
         \A d \in Sims \ {c} : at'[d] = at[d] /\ attempt'[d] = attempt[d],
         s[1] = c => \/ attempt'[c] = attempt[c] /\ at[c] \in Tools \cup {"idle"}
                     \/ attempt[c] = 1 /\ attempt'[c] = 2
                     \/ attempt'[c] = attempt[c] /\ at'[c] \notin Tools \cup {"idle"}
  PROVE  Live(s)
  <1>1. s[1] \in Sims /\ s[2] \in {1, 2} /\ attempt[s[1]] \in {1, 2}
    BY SessionPairs DEF TypeOK
  <1> QED  BY <1>1 DEF Live, Current

\* A call of a client keeps the invariant.
LEMMA MeasureClient ==
  ASSUME TypeOK, MeasureInv, NEW c \in Sims, ClientStep(c) PROVE MeasureInv'
  <1> USE SessionPairs
  <1>0. PICK S \in Sessions : S = Session(c)
    OBVIOUS
  <1> USE <1>0
  <1>1. NoThread.op = "none" /\ UNCHANGED <<kind, conn>>
    BY DEF NoThread, ClientStep, Skip, Start, Answered, Failed, Lost, RolledBack, RollbackLost,
       Retry, Conclude, serverVars
  <1> HIDE DEF Session, NoThread, Changed
  <1>2. ASSUME NEW op \in Tools \cup {"rollback"}, Send(c, op), at[c] \in Tools \cup {"idle"},
               UNCHANGED <<attempt, result>>,
               \A d \in Sims : /\ count'[d].pre \in {None, Size}
                               /\ count'[d].post \in {None, Changed(kind[d])}
        PROVE  MeasureInv'
    <2>0. /\ at'[c] = op /\ \A d \in Sims \ {c} : at'[d] = at[d]
          /\ \A s \in Sessions \ {S} : tool'[s] = tool[s] /\ undo'[s] = undo[s]
          /\ op # "rollback" =>
                /\ undo' = undo
                /\ tool'[S] = [op |-> op, value |-> None, state |-> "queued"]
          /\ op = "rollback" => undo'[S] = "queued" /\ tool'[S] \in {tool[S], NoThread}
      BY <1>2, SendEffect
    <2>1. \A s \in Sessions : Live(s)' => Live(s)
      BY <1>2, <2>0, LiveBefore
    <2>2. undo[S] = "idle"
      BY <1>2 DEF MeasureInv, Live, Current, TypeOK
    <2>3. \A s \in Sessions : Live(s)' => undo'[s] = "idle"
      <3>1. Live(S)' => op # "rollback"
        <4>1. S \in Sessions /\ S[1] = c /\ S[2] = attempt[c] /\ attempt[c] \in {1, 2}
          BY DEF TypeOK
        <4> QED  BY <1>2, <2>0, <4>1 DEF Live, Current, Tools
      <3> QED  BY <2>0, <2>1, <2>2, <3>1 DEF MeasureInv
    <2>4. \A s \in Sessions :
            conn'[s].state \in {"bare", "outside", "closed"} => undo'[s] \in {"rolled", "ok"}
      BY <1>1, <2>0, <2>2 DEF MeasureInv
    <2>5. \A s \in Sessions :
            /\ tool'[s].op = "pre" => tool'[s].value \in {None, Size}
            /\ tool'[s].op = "post" => tool'[s].value \in {None, Changed(kind[s[1]])}
      <3>1. CASE op = "rollback"
        BY <1>1, <2>0, <3>1 DEF MeasureInv
      <3>2. CASE op # "rollback"
        BY <2>0, <3>2 DEF MeasureInv
      <3> QED  BY <3>1, <3>2
    <2> QED
      BY <1>1, <1>2, <2>3, <2>4, <2>5 DEF MeasureInv, MeasuredOwnChange, Changed
  <1>3. ASSUME UNCHANGED <<tool, undo, conn, kind, attempt>>,
               \A d \in Sims \ {c} : at'[d] = at[d],
               at'[c] \notin Tools \cup {"idle"}
        PROVE  \A s \in Sessions : Live(s)' => undo'[s] = "idle"
    BY <1>3, LiveBefore DEF MeasureInv
  <1>4. CASE Skip(c)
    BY <1>1, <1>3, <1>4 DEF Skip, TypeOK, MeasureInv, MeasuredOwnChange, Changed, Tools
  <1>5. CASE Start(c)
    BY <1>2, <1>5 DEF Start, MeasureInv, Tools
  <1>6. CASE Answered(c)
    <2>1. Send(c, NextCall(tool[S].op)) /\ NextCall(tool[S].op) \in Tools \cup {"rollback"}
      BY <1>6 DEF Answered, NextCall, Tools
    <2>2. \A d \in Sims : /\ count'[d].pre \in {None, Size}
                          /\ count'[d].post \in {None, Changed(kind[d])}
      <3>1. \A d \in Sims : d # c => count'[d] = count[d]
        BY <1>6 DEF Answered, TypeOK
      <3>2. PICK m \in Int, n \in Int : count[c] = [pre |-> m, post |-> n]
        BY DEF TypeOK
      <3>3. \/ count'[c] = count[c]
            \/ tool[S].op = "pre" /\ count'[c] = [pre |-> tool[S].value, post |-> n]
            \/ tool[S].op = "post" /\ count'[c] = [pre |-> m, post |-> tool[S].value]
        BY <1>6, <3>2 DEF Answered, TypeOK
      <3> QED
        BY <3>1, <3>2, <3>3 DEF MeasureInv
    <2> QED
      BY <1>2, <1>6, <2>1, <2>2 DEF Answered
  <1>7. ASSUME NEW how, GiveUp(c, how), at[c] \in Tools,
               UNCHANGED <<kind, attempt, count, result, serverVars>>
        PROVE  MeasureInv'
    <2>1. CASE at[c] = "begin"
      BY <1>1, <1>3, <1>7, <2>1 DEF GiveUp, TypeOK, MeasureInv, MeasuredOwnChange, Changed, Tools
    <2>2. CASE at[c] # "begin"
      BY <1>2, <1>7, <2>2 DEF GiveUp, MeasureInv
    <2> QED  BY <2>1, <2>2
  <1>8. CASE Failed(c)
    BY <1>7, <1>8 DEF Failed
  <1>9. CASE Lost(c)
    BY <1>7, <1>9 DEF Lost
  <1>10. CASE RolledBack(c)
    BY <1>1, <1>3, <1>10 DEF RolledBack, TypeOK, MeasureInv, MeasuredOwnChange, Changed, Tools
  <1>11. CASE RollbackLost(c)
    <2>1. \A s \in Sessions : Live(s)' => Live(s)
      BY <1>11, LiveBefore DEF RollbackLost, TypeOK, Tools
    <2>2. \A s \in Sessions : undo'[s] = undo[s] \/ (undo[s] = "queued" /\ undo'[s] = "idle")
      BY <1>11 DEF RollbackLost, TypeOK
    <2> QED
      BY <1>1, <1>11, <2>1, <2>2 DEF RollbackLost, MeasureInv, MeasuredOwnChange, Changed
  <1>12. CASE Retry(c)
    <2>1. \A s \in Sessions : Live(s)' => Live(s)
      BY <1>12, LiveBefore DEF Retry, TypeOK
    <2>2. \A s \in Sessions : \/ tool'[s] = tool[s]
                              \/ tool'[s] = [op |-> "begin", value |-> None, state |-> "queued"]
      BY <1>12 DEF Retry, TypeOK
    <2>3. \A d \in Sims : count'[d] = count[d] \/ count'[d] = [pre |-> None, post |-> None]
      BY <1>12 DEF Retry, TypeOK, NoCounts
    <2> QED
      BY <1>1, <1>12, <2>1, <2>2, <2>3 DEF Retry, MeasureInv, MeasuredOwnChange, Changed
  <1>13. CASE Conclude(c)
    <2>1. \A d \in Sims : count'[d] = count[d] \/ count'[d] = [pre |-> None, post |-> None]
      BY <1>13 DEF Conclude, TypeOK, NoCounts
    <2>2. Actual(count[c]) \in {None, Distance(Size, Changed(kind[c]))}
      BY DEF Actual, MeasureInv, None
    <2>3. \/ result'[c].actual = None
          \/ result'[c].executed /\ result'[c].actual = Actual(count[c])
      BY <1>13 DEF Conclude, TypeOK
    <2>4. \A d \in Sims \ {c} : result'[d] = result[d]
      BY <1>13 DEF Conclude, TypeOK
    <2>5. MeasuredOwnChange'
      BY <1>1, <2>2, <2>3, <2>4 DEF MeasuredOwnChange, MeasureInv, Changed, Distance
    <2> QED
      BY <1>1, <1>3, <1>13, <2>1, <2>5 DEF Conclude, TypeOK, MeasureInv, Changed, Tools
  <1> QED
    BY <1>4, <1>5, <1>6, <1>8, <1>9, <1>10, <1>11, <1>12, <1>13 DEF ClientStep

\* A step of a server thread keeps it: a count that a client waits for is one
\* of its own transaction.
LEMMA MeasureServer ==
  ASSUME TypeOK, MeasureInv, NEW s \in Sessions, ToolStep(s) \/ UndoStep(s)
  PROVE  MeasureInv'
  <1> USE SessionPairs
  <1>1. UNCHANGED <<kind, clientVars>>
    BY DEF ToolStep, UndoStep, Begin, LookUp, Count, Execute, ExecuteFails, ExecuteOutside,
       TriggerLog, Pop, RollBack, Close
  <1>2. \A r \in Sessions : Live(r)' = Live(r)
    BY <1>1 DEF clientVars, Live, Current
  <1>3. \A r \in Sessions : Live(r)' => undo'[r] = "idle"
    BY <1>2 DEF ToolStep, UndoStep, Begin, LookUp, Count, Execute, ExecuteFails, ExecuteOutside,
       TriggerLog, Pop, RollBack, Close, MeasureInv, TypeOK
  <1>4. \A r \in Sessions :
          conn'[r].state \in {"bare", "outside", "closed"} => undo'[r] \in {"rolled", "ok"}
    <2>1. /\ \A r \in Sessions \ {s} : undo'[r] = undo[r]
          /\ \/ UNCHANGED undo
             \/ undo[s] = "queued"
             \/ RollBack(s) /\ undo'[s] = "rolled"
             \/ Close(s) /\ undo'[s] = "ok"
      BY DEF ToolStep, UndoStep, Begin, LookUp, Count, Execute, ExecuteFails, ExecuteOutside,
         TriggerLog, Pop, RollBack, Close, TypeOK
    <2>2. ExecuteOutside(s) => conn[s].state = "bare" /\ UNCHANGED undo
      BY DEF ExecuteOutside
    <2>3. RollBack(s) \/ Close(s) => undo'[s] \in {"rolled", "ok"}
      BY DEF RollBack, Close, TypeOK
    <2>4. undo[s] = "queued" => conn[s].state \notin {"bare", "outside", "closed"}
      BY DEF MeasureInv
    <2>5. \A r \in Sessions \ {s} :
            conn'[r].state \in {"bare", "outside", "closed"} => undo'[r] \in {"rolled", "ok"}
      BY <2>1, ConnEffect DEF MeasureInv
    <2>6. \/ conn'[s] = conn[s]
          \/ conn'[s].state \in {"sandbox", "aborted"}
          \/ ExecuteOutside(s)
          \/ RollBack(s)
          \/ Close(s)
      BY ConnEffect
    <2>7. conn'[s].state \in {"bare", "outside", "closed"} => undo'[s] \in {"rolled", "ok"}
      BY <2>1, <2>2, <2>3, <2>4, <2>6 DEF MeasureInv
    <2> QED
      BY <2>5, <2>7
  <1>5. Awaited(s) /\ Thread(s, {"pre", "post"}, "found") =>
          conn[s].state \notin {"bare", "outside", "closed"}
    BY DEF Awaited, Thread, MeasureInv, Live, Current, Tools
  <1>6. \A r \in Sessions :
          /\ tool'[r].op = "pre" => tool'[r].value \in {None, Size}
          /\ tool'[r].op = "post" => tool'[r].value \in {None, Changed(kind[r[1]])}
    <2> HIDE DEF Changed
    <2>1. ASSUME NEW value \in Int, NEW state \in {"ok", "failed", "cancelled"},
                 Reply(s, state, value),
                 Awaited(s) => /\ tool[s].op = "pre" => value \in {None, Size}
                               /\ tool[s].op = "post" => value \in {None, Changed(kind[s[1]])}
          PROVE  \A r \in Sessions :
                   /\ tool'[r].op = "pre" => tool'[r].value \in {None, Size}
                   /\ tool'[r].op = "post" => tool'[r].value \in {None, Changed(kind[r[1]])}
      <3>1. /\ \A r \in Sessions \ {s} : tool'[r] = tool[r]
            /\ Awaited(s) => tool'[s].op = tool[s].op /\ tool'[s].value = value
            /\ ~Awaited(s) => tool'[s] = NoThread
        BY <2>1, ReplyEffect
      <3> QED  BY <2>1, <3>1 DEF MeasureInv, NoThread
    <2>2. CASE Begin(s) \/ Execute(s) \/ ExecuteFails(s) \/ ExecuteOutside(s) \/ TriggerLog(s)
      BY <2>1, <2>2, CountTypes DEF Begin, Execute, ExecuteFails, ExecuteOutside, TriggerLog
    <2>3. CASE LookUp(s)
      <3>1. tool \in [Sessions -> Threads]
        BY DEF TypeOK, Threads
      <3>2. CASE tool' = [tool EXCEPT ![s].state = "found"]
        BY <3>1, <3>2, FoundEffect DEF MeasureInv
      <3> QED  BY <2>1, <2>3, <3>2, CountTypes DEF LookUp
    <2>4. CASE Count(s)
      BY <1>5, <2>1, <2>4, CountTypes DEF Count
    <2>5. CASE UndoStep(s)
      BY <2>5 DEF UndoStep, Pop, RollBack, Close, MeasureInv
    <2> QED  BY <2>2, <2>3, <2>4, <2>5 DEF ToolStep
  <1> QED
    BY <1>1, <1>3, <1>4, <1>6 DEF clientVars, MeasureInv, MeasuredOwnChange, Changed

\* The row counts of every session and every simulation are right or missing,
\* whichever calls get lost, time out or are overtaken by a roll-back.
THEOREM MeasureInvariant == Spec => []MeasureInv
  <1>1. Init => MeasureInv
    BY DEF Init, MeasureInv, MeasuredOwnChange, NoCounts, NoThread, NoResult, Live
  <1>2. TypeOK /\ MeasureInv /\ UNCHANGED vars => MeasureInv'
    BY DEF vars, MeasureInv, MeasuredOwnChange, Live, Current, Changed
  <1>3. TypeOK /\ MeasureInv /\ [Next]_vars => MeasureInv'
    BY <1>2, MeasureClient, MeasureServer DEF Next
  <1> QED
    BY <1>1, <1>3, SandboxTyping, PTL DEF Spec

\* What a contract is told is the change that its operation made.
THEOREM ContractToldOwnChange == Spec => []MeasuredOwnChange
  BY MeasureInvariant, PTL DEF MeasureInv

-----------------------------------------------------------------------------
(* The locks.  With the first and the last call of a session reliable, the   *)
(* client knows every session that the server has opened and leaves none     *)
(* before it is closed, whatever the threads of abandoned calls still do.    *)

Through(s) ==
    \/ s[2] < attempt[s[1]]
    \/ Current(s) /\ at[s[1]] \in {"conclude", "done"}

SessionOK(s) ==
    \* the thread of a call that is awaited works on that call
    /\ Current(s) /\ at[s[1]] \in Tools => tool[s].op = at[s[1]]
    \* the client of a session that is open knows it, until it is popped
    /\ Current(s) /\ at[s[1]] \in Tools /\ (at[s[1]] = "begin" => tool[s].state = "ok") =>
          s \in known
    /\ Current(s) /\ at[s[1]] = "begin" /\ tool[s].state # "ok" => conn[s].state = "none"
    \* a client that has not started yet
    /\ attempt[s[1]] < s[2] \/ (Current(s) /\ at[s[1]] = "idle") =>
          tool[s].op = "none" /\ conn[s].state = "none"
    \* nobody opens a session that its client has left
    /\ tool[s].op = "begin" /\ tool[s].state = "queued" => Current(s) /\ at[s[1]] = "begin"
    \* the roll-back, and what it leaves
    /\ undo[s] \in {"queued", "popped", "rolled"} => Current(s) /\ at[s[1]] = "rollback"
    /\ undo[s] = "queued" => s \in known
    /\ undo[s] = "ok" => conn[s].state = "closed"
    /\ Through(s) => conn[s].state \in {"none", "closed"}
    /\ conn[s].locks => conn[s].state \in {"sandbox", "outside"}

LockInv == \A s \in Sessions : SessionOK(s)

\* A call leaves the other sessions as they are, the client's other attempt
\* included.
LEMMA OtherSessions ==
  ASSUME TypeOK, LockInv, NEW c \in Sims, NEW s \in Sessions, s # Session(c),
         UNCHANGED <<attempt, conn, known>>, \A d \in Sims \ {c} : at'[d] = at[d],
         tool'[s] = tool[s], undo'[s] = undo[s]
  PROVE  SessionOK(s)'
  <1>1. SessionOK(s) /\ s[1] \in Sims /\ s[2] \in {1, 2}
        /\ (s[1] = c => s[2] # attempt[c])
    BY SessionPairs DEF LockInv
  <1>2. CASE s[1] = c
    BY <1>1, <1>2 DEF SessionOK, Current, Through, TypeOK
  <1>3. CASE s[1] # c
    BY <1>1, <1>3 DEF SessionOK, Current, Through, TypeOK
  <1> QED  BY <1>2, <1>3

\* A call of a client, with the first and the last one reliable.
LEMMA LockClient ==
  ASSUME TypeOK, LockInv, NEW c \in Sims, ClientStep(c),
         "begin" \notin Lossy, "rollback" \notin Lossy
  PROVE  LockInv'
  <1> USE SessionPairs
  <1>0. PICK S \in Sessions : S = Session(c)
    OBVIOUS
  <1>1. /\ S[1] = c /\ S[2] = attempt[c] /\ SessionOK(S) /\ attempt[c] \in {1, 2}
        /\ UNCHANGED <<conn, known>>
        /\ NoThread.op = "none"
    BY <1>0 DEF LockInv, TypeOK, NoThread, ClientStep, Skip, Start, Answered, Failed, Lost,
       RolledBack, RollbackLost, Retry, Conclude, serverVars
  <1>2. ASSUME NEW op \in Tools \cup {"rollback"}, Send(c, op), UNCHANGED attempt,
               \/ op = "begin" /\ at[c] = "idle"
               \/ /\ op # "begin" /\ at[c] \in Tools /\ S \in known
                  /\ op = "rollback" => at[c] # "begin"
        PROVE  LockInv'
    <2>1. /\ at'[c] = op /\ \A d \in Sims \ {c} : at'[d] = at[d]
          /\ \A s \in Sessions \ {S} : tool'[s] = tool[s] /\ undo'[s] = undo[s]
          /\ op # "rollback" =>
                undo' = undo /\ tool'[S].op = op /\ tool'[S].state = "queued"
          /\ op = "rollback" => undo'[S] = "queued" /\ tool'[S] \in {tool[S], NoThread}
      <3>1. op # "rollback" =>
              undo' = undo /\ tool'[S] = [op |-> op, value |-> None, state |-> "queued"]
        BY <1>0, <1>2, SendEffect, Zenon
      <3>2. op # "rollback" =>
              undo' = undo /\ tool'[S].op = op /\ tool'[S].state = "queued"
        BY <3>1
      <3> QED  BY <1>0, <1>2, <3>2, SendEffect, ZenonT(40)
    <2>2. \A s \in Sessions \ {S} : SessionOK(s)'
      BY <1>0, <1>1, <1>2, <2>1, OtherSessions
    <2>3. SessionOK(S)'
      <3>1. CASE op = "begin"
        BY <1>1, <1>2, <2>1, <3>1 DEF SessionOK, Current, Through, Tools
      <3>2. CASE op = "rollback"
        BY <1>1, <1>2, <2>1, <3>2 DEF SessionOK, Current, Through, Tools
      <3>3. CASE op \in Tools \ {"begin"}
        BY <1>1, <1>2, <2>1, <3>3 DEF SessionOK, Current, Through, Tools
      <3> QED  BY <3>1, <3>2, <3>3
    <2> QED  BY <2>2, <2>3 DEF LockInv
  <1>3. ASSUME UNCHANGED <<tool, undo, attempt>>, at' = [at EXCEPT ![c] = "conclude"]
                                                  \/ at' = [at EXCEPT ![c] = "done"],
               \/ at[c] \in {"idle", "conclude"}
               \/ at[c] = "begin" /\ tool[S].state \notin {"ok", "queued"}
               \/ at[c] = "rollback" /\ undo[S] = "ok"
        PROVE  LockInv'
    <2>1. at'[c] \in {"conclude", "done"} /\ \A d \in Sims \ {c} : at'[d] = at[d]
      BY <1>3 DEF TypeOK
    <2>2. \A s \in Sessions \ {S} : SessionOK(s)'
      BY <1>0, <1>1, <1>3, <2>1, OtherSessions
    <2>3. SessionOK(S)'
      BY <1>1, <1>3, <2>1 DEF SessionOK, Current, Through, Tools
    <2> QED  BY <2>2, <2>3 DEF LockInv
  <1>4. CASE Skip(c)
    BY <1>3, <1>4 DEF Skip
  <1>5. CASE Start(c)
    BY <1>2, <1>5 DEF Start, Tools
  <1>6. CASE Answered(c)
    <2>1. /\ Send(c, NextCall(tool[S].op)) /\ NextCall(tool[S].op) \in Tools \cup {"rollback"}
          /\ NextCall(tool[S].op) # "begin"
      BY <1>0, <1>6 DEF Answered, NextCall, Tools
    <2>2. S \in known /\ (NextCall(tool[S].op) = "rollback" => at[c] # "begin")
      BY <1>0, <1>1, <1>6 DEF Answered, SessionOK, Current, NextCall
    <2> QED
      BY <1>2, <1>6, <2>1, <2>2 DEF Answered
  <1>7. ASSUME NEW how, GiveUp(c, how), at[c] \in Tools, UNCHANGED attempt,
               at[c] = "begin" => tool[S].state \notin {"ok", "queued"}
        PROVE  LockInv'
    <2>1. CASE at[c] = "begin"
      BY <1>3, <1>7, <2>1 DEF GiveUp
    <2>2. CASE at[c] # "begin"
      <3>1. S \in known
        BY <1>1, <1>7, <2>2 DEF SessionOK, Current
      <3> QED  BY <1>2, <1>7, <2>2, <3>1 DEF GiveUp
    <2> QED  BY <2>1, <2>2
  <1>8. CASE Failed(c)
    BY <1>0, <1>7, <1>8 DEF Failed
  <1>9. CASE Lost(c)
    BY <1>7, <1>9 DEF Lost
  <1>10. CASE RolledBack(c)
    BY <1>0, <1>3, <1>10 DEF RolledBack
  <1>11. CASE RollbackLost(c)
    BY <1>11 DEF RollbackLost
  <1>12. CASE Retry(c)
    <2>1. PICK T \in Sessions : T = <<c, 2>>
      BY DEF Sessions
    <2>2. /\ T[1] = c /\ T[2] = 2 /\ T # S /\ attempt[c] = 1 /\ at[c] = "conclude"
          /\ \A s \in Sessions : s[1] = c => s = S \/ s = T
      BY <1>1, <1>12, <2>1 DEF Retry, Sessions
    <2>3. /\ at'[c] = "begin" /\ attempt'[c] = 2 /\ undo' = undo
          /\ \A d \in Sims \ {c} : at'[d] = at[d] /\ attempt'[d] = attempt[d]
          /\ \A s \in Sessions \ {T} : tool'[s] = tool[s]
          /\ tool'[T].op = "begin" /\ tool'[T].state = "queued"
      BY <1>12, <2>1 DEF Retry, TypeOK
    <2>4. SessionOK(S) /\ SessionOK(T)
      BY DEF LockInv
    <2>5. SessionOK(S)'
      BY <1>1, <2>2, <2>3, <2>4 DEF SessionOK, Current, Through, Tools
    <2>6. SessionOK(T)'
      BY <1>1, <2>2, <2>3, <2>4 DEF SessionOK, Current, Through, Tools
    <2>7. \A s \in Sessions \ {S, T} : SessionOK(s)'
      BY <1>1, <2>2, <2>3 DEF LockInv, SessionOK, Current, Through
    <2> QED  BY <2>5, <2>6, <2>7 DEF LockInv
  <1>13. CASE Conclude(c)
    BY <1>3, <1>13 DEF Conclude
  <1> QED
    BY <1>4, <1>5, <1>6, <1>8, <1>9, <1>10, <1>11, <1>12, <1>13 DEF ClientStep

\* A step of a server thread, whether or not anybody waits for it.
LEMMA LockServer ==
  ASSUME TypeOK, LockInv, NEW s \in Sessions, ToolStep(s) \/ UndoStep(s)
  PROVE  LockInv'
  <1> USE SessionPairs
  <1>1. UNCHANGED <<kind, clientVars>>
    BY DEF ToolStep, UndoStep, Begin, LookUp, Count, Execute, ExecuteFails, ExecuteOutside,
       TriggerLog, Pop, RollBack, Close
  <1>2. \A r \in Sessions \ {s} : /\ undo'[r] = undo[r] /\ (r \in known' <=> r \in known)
                                  /\ conn'[r] = conn[r]
    <2>1. \A r \in Sessions \ {s} : undo'[r] = undo[r] /\ (r \in known' <=> r \in known)
      BY DEF ToolStep, UndoStep, Begin, LookUp, Count, Execute, ExecuteFails, ExecuteOutside,
         TriggerLog, Pop, RollBack, Close, serverVars, TypeOK
    <2> QED  BY <2>1, ConnEffect
  \* what the step makes of the thread
  <1>3. /\ \A r \in Sessions \ {s} : tool'[r] = tool[r]
        /\ \/ UndoStep(s) /\ tool' = tool
           \/ /\ ToolStep(s)
              /\ tool'[s].op = "none" \/ (tool'[s].op = tool[s].op /\ tool'[s].state # "queued")
              /\ Awaited(s) => tool'[s].op = tool[s].op
    <2>0. SUFFICES ASSUME ToolStep(s)
                   PROVE  /\ \A r \in Sessions \ {s} : tool'[r] = tool[r]
                          /\ \/ tool'[s].op = "none"
                             \/ tool'[s].op = tool[s].op /\ tool'[s].state # "queued"
                          /\ Awaited(s) => tool'[s].op = tool[s].op
      BY DEF UndoStep, Pop, RollBack, Close
    <2>1. ASSUME NEW value \in Int, NEW state \in {"ok", "failed", "cancelled"},
                 Reply(s, state, value)
          PROVE  /\ \A r \in Sessions \ {s} : tool'[r] = tool[r]
                 /\ \/ tool'[s].op = "none"
                    \/ tool'[s].op = tool[s].op /\ tool'[s].state # "queued"
                 /\ Awaited(s) => tool'[s].op = tool[s].op
      BY <2>1, ReplyEffect DEF NoThread
    <2>2. CASE LookUp(s)
      <3>1. tool \in [Sessions -> Threads]
        BY DEF TypeOK, Threads
      <3>2. CASE tool' = [tool EXCEPT ![s].state = "found"]
        BY <3>1, <3>2, FoundEffect
      <3> QED  BY <2>1, <2>2, <3>2, CountTypes DEF LookUp
    <2>3. CASE Begin(s) \/ Execute(s) \/ ExecuteFails(s) \/ ExecuteOutside(s) \/ TriggerLog(s)
      BY <2>1, <2>3, CountTypes DEF Begin, Execute, ExecuteFails, ExecuteOutside, TriggerLog
    <2>4. CASE Count(s)
      BY <2>1, <2>4, CountTypes DEF Count
    <2> QED  BY <2>0, <2>2, <2>3, <2>4 DEF ToolStep
  <1>4. \A r \in Sessions \ {s} : SessionOK(r)'
    BY <1>1, <1>2, <1>3 DEF LockInv, SessionOK, Current, Through, clientVars
  <1>5. SessionOK(s) /\ s[1] \in Sims /\ s[2] \in {1, 2}
    BY DEF LockInv
  <1>6. CASE UndoStep(s)
    <2>1. /\ Current(s) /\ at[s[1]] = "rollback"
          /\ Pop(s) => s \in known
      BY <1>5, <1>6 DEF UndoStep, Pop, RollBack, Close, SessionOK
    <2>2. \/ undo'[s] = "popped" /\ UNCHANGED conn
          \/ undo'[s] = "rolled" /\ conn'[s].state = "bare" /\ ~conn'[s].locks
          \/ undo'[s] = "ok" /\ conn'[s].state = "closed" /\ ~conn'[s].locks
      BY <1>6, <2>1 DEF UndoStep, Pop, RollBack, Close, TypeOK
    <2>3. SessionOK(s)'
      BY <1>1, <1>3, <1>5, <1>6, <2>1, <2>2 DEF SessionOK, Current, Through, clientVars, Tools
    <2> QED  BY <1>4, <2>3 DEF LockInv
  <1>7. CASE Begin(s)
    <2>1. /\ Current(s) /\ at[s[1]] = "begin" /\ tool[s].op = "begin" /\ tool[s].state = "queued"
          /\ Awaited(s) /\ conn[s].state = "none"
      BY <1>5, <1>7 DEF Begin, Thread, SessionOK, Awaited, Current, Tools
    <2>2. undo' = undo
      BY <1>7 DEF Begin
    <2>3. \/ s \in known' /\ conn'[s].state = "sandbox" /\ tool'[s].state = "ok"
          \/ UNCHANGED <<conn, known>> /\ tool'[s].state = "failed"
      <3>1. /\ Reply(s, "ok", None) => tool'[s].state = "ok"
            /\ Reply(s, "failed", None) => tool'[s].state = "failed"
        BY <2>1, ReplyEffect, CountTypes
      <3>2. conn' = [conn EXCEPT ![s].state = "sandbox"] => conn'[s].state = "sandbox"
        BY DEF TypeOK
      <3> QED  BY <1>7, <3>1, <3>2 DEF Begin
    <2>4. SessionOK(s)'
      BY <1>1, <1>3, <1>5, <1>7, <2>1, <2>2, <2>3
         DEF SessionOK, Current, Through, clientVars, Tools, ToolStep
    <2> QED  BY <1>4, <2>4 DEF LockInv
  <1>8. CASE ToolStep(s) /\ ~Begin(s)
    <2>1. /\ tool[s].op \in Tools \ {"begin"} /\ UNCHANGED <<undo, known>>
      BY <1>8 DEF ToolStep, LookUp, Count, Execute, ExecuteFails, ExecuteOutside,
         TriggerLog, Thread, Tools, serverVars
    <2>2. \/ conn'[s] = conn[s]
          \/ conn[s].state \in {"sandbox", "bare"} /\ conn'[s].state \in {"sandbox", "outside"}
          \/ conn[s].state = "sandbox" /\ conn'[s].state = "aborted" /\ ~conn'[s].locks
      BY <1>8, <2>1, ConnEffect DEF Execute, ExecuteOutside, RollBack, Close, TypeOK
    <2>3. SessionOK(s)'
      BY <1>1, <1>3, <1>5, <1>8, <2>1, <2>2
         DEF SessionOK, Current, Through, clientVars, Tools, Awaited
    <2> QED  BY <1>4, <2>3 DEF LockInv
  <1> QED
    BY <1>6, <1>7, <1>8

\* Where opening and closing a session cannot get lost, no client leaves rows
\* locked behind it: not after an error, not after a call that was given up and
\* whose thread is still at work, not when the statement runs after the roll-back.
THEOREM NothingLeftLocked ==
  ASSUME "begin" \notin Lossy, "rollback" \notin Lossy
  PROVE  Spec => []NoLockLeft
  <1>1. Init => LockInv
    <2> SUFFICES ASSUME Init, NEW s \in Sessions PROVE SessionOK(s)
      BY DEF LockInv
    <2>1. s[1] \in Sims /\ s[2] \in {1, 2}
      BY InitTyping, SessionPairs
    <2>2. /\ at[s[1]] = "idle" /\ attempt[s[1]] = 1 /\ undo[s] = "idle"
          /\ tool[s].op = "none" /\ conn[s].state = "none" /\ ~conn[s].locks
      BY <2>1 DEF Init, NoThread
    <2> QED  BY <2>1, <2>2 DEF SessionOK, Current, Through, Tools
  <1>2. TypeOK /\ LockInv /\ UNCHANGED vars => LockInv'
    BY DEF vars, LockInv, SessionOK, Current, Through
  <1>3. TypeOK /\ LockInv /\ [Next]_vars => LockInv'
    BY <1>2, LockClient, LockServer DEF Next
  <1>4. TypeOK /\ LockInv => NoLockLeft
    <2> SUFFICES ASSUME TypeOK, LockInv, NEW s \in Sessions,
                        at[s[1]] \in {"conclude", "done"} \/ s[2] < attempt[s[1]]
                 PROVE  ~conn[s].locks
      BY DEF NoLockLeft
    <2>1. SessionOK(s) /\ s[1] \in Sims /\ s[2] \in {1, 2} /\ attempt[s[1]] \in {1, 2}
      BY SessionPairs DEF LockInv, TypeOK
    <2>2. conn[s].state \in {"none", "closed"}
      BY <2>1 DEF SessionOK, Current, Through
    <2> QED  BY <2>1, <2>2 DEF SessionOK
  <1> QED
    BY <1>1, <1>3, <1>4, SandboxTyping, PTL DEF Spec

=============================================================================
