--------------------------- MODULE CheckOperations ---------------------------
(***************************************************************************)
(* CheckOperationsTimeout and CheckEventsTimeout (src/unnamed/part_003):   *)
(* the history is split by Model.Partition (KvModel: by key) or, for an    *)
(* Event history, Model.PartitionEvent; one goroutine per partition runs   *)
(* checkSingle and sends its answer on the unbuffered channel results, and *)
(* the caller's loop receives answers until one is false (then it stores   *)
(* kill = 1 and stops), all have arrived, or the timeout fires.            *)
(*                                                                         *)
(* A goroutine's checkSingle is taken at the level of LinSpec, which the   *)
(* Linearizability module shows it implements on histories whose calls    *)
(* and returns have distinct times and on Event histories: it answers     *)
(* whether its partition is linearizable; once kill is set it may instead *)
(* return false at any iteration (it polls kill at the top of its loop).  *)
(* With equal times checkSingle may reject a linearizable history         *)
(* (lin_equal_times), so Histories must not contain such histories.       *)
(***************************************************************************)
EXTENDS KvModel, FiniteSets

CONSTANTS Histories,      \* the Operation histories a caller may pass
          EventHistories, \* the Event histories a caller may pass
          Nil,
          Timeouts   \* the timeout > 0 flags a caller may pass: TRUE when the
                     \* loop also selects on time.After

LOCAL Lin == INSTANCE LinSpec WITH history <- <<>>, verdict <- Nil

VARIABLES hist,    \* the history passed in
          gr,      \* per partition: "checking", "sending" or "exited"
          answer,  \* per partition: what its checkSingle returned, or Nil
          kill,    \* the shared int32 kill flag
          ok, count,
          pc,      \* the caller: "loop" or "returned"
          hasTimeout \* the caller passed timeout > 0

vars == <<hist, gr, answer, kill, ok, count, pc, hasTimeout>>

\* An Event history is one whose records carry an id.
IsEvents(h) == \E i \in DOMAIN h : "id" \in DOMAIN h[i]

\* The keys of an Operation history, and the partition of one key.
HistKeys(h) == {h[i].input.key : i \in DOMAIN h}
Sub(h, k) == SelectSeq(h, LAMBDA o : o.input.key = k)

\* NoPartitionEvent: the whole Event history is one partition, named All.
All == "all"
NoPartitionEvent(h) == [p \in {All} |-> h]

\* The partitions by name: KvModel sets Partition and not PartitionEvent,
\* so fillDefault gives CheckEventsTimeout NoPartitionEvent.
Partitions ==
    IF IsEvents(hist) THEN NoPartitionEvent(hist)
    ELSE [k \in HistKeys(hist) |-> Sub(hist, k)]

PartKeys == IF IsEvents(hist) THEN {All} ELSE HistKeys(hist)

\* The operations a partition records, whichever form it came in.
OpsOf(h) == IF IsEvents(h) THEN Lin!EventOps(h) ELSE h

\* checkSingle's answer on every partition a history of the model has.  It
\* is a pure function of the partition, so it is tabulated once.
SubHistories ==
    {Sub(h, k) : h \in Histories, k \in Keys} \cup {OpsOf(e) : e \in EventHistories}
Verdict == [p \in SubHistories |-> Lin!IsLinearizable(p)]

\* Partition, then a goroutine started per partition.
Init ==
    /\ hist \in Histories \cup EventHistories
    /\ gr = [k \in PartKeys |-> "checking"]
    /\ answer = [k \in PartKeys |-> Nil]
    /\ kill = 0
    /\ ok = TRUE
    /\ count = 0
    /\ pc = "loop"
    /\ hasTimeout \in Timeouts

\* checkSingle runs to its end and returns its verdict (LinSpec's, in the
\* scope where Linearizability refines LinSpec).
CheckSingle(k) ==
    /\ gr[k] = "checking"
    /\ answer' = [answer EXCEPT ![k] = Verdict[OpsOf(Partitions[k])]]
    /\ gr' = [gr EXCEPT ![k] = "sending"]
    /\ UNCHANGED <<hist, kill, ok, count, pc, hasTimeout>>

KilledAlways(k) ==
    /\ gr[k] = "checking"
    /\ answer' = [answer EXCEPT ![k] = FALSE]
    /\ gr' = [gr EXCEPT ![k] = "sending"]
    /\ UNCHANGED <<hist, kill, ok, count, pc, hasTimeout>>

\* checkSingle sees kill != 0 at the top of an iteration and returns false.
Killed(k) ==
    /\ gr[k] = "checking"
    /\ kill # 0
    /\ answer' = [answer EXCEPT ![k] = FALSE]
    /\ gr' = [gr EXCEPT ![k] = "sending"]
    /\ UNCHANGED <<hist, kill, ok, count, pc, hasTimeout>>

ReceiveCountEarly(k) ==
    /\ pc = "loop"
    /\ gr[k] = "sending"
    /\ gr' = [gr EXCEPT ![k] = "exited"]
    /\ LET okNow == ok /\ answer[k]
       IN /\ ok' = okNow
          /\ IF ~okNow
                THEN /\ kill' = 1
                     /\ pc' = "returned"
                     /\ UNCHANGED count
                ELSE /\ count' = count + 1
                     /\ pc' = IF count + 1 >= Cardinality(PartKeys) - 1 THEN "returned" ELSE "loop"
                     /\ UNCHANGED kill
    /\ UNCHANGED <<hist, answer, hasTimeout>>

ReceiveCountLate(k) ==
    /\ pc = "loop"
    /\ gr[k] = "sending"
    /\ gr' = [gr EXCEPT ![k] = "exited"]
    /\ LET okNow == ok /\ answer[k]
       IN /\ ok' = okNow
          /\ IF ~okNow
                THEN /\ kill' = 1
                     /\ pc' = "returned"
                     /\ UNCHANGED count
                ELSE /\ count' = count + 1
                     /\ pc' = IF count >= Cardinality(PartKeys) THEN "returned" ELSE "loop"
                     /\ UNCHANGED kill
    /\ UNCHANGED <<hist, answer, hasTimeout>>

\* results <- v meets result := <-results: the channel is unbuffered, so
\* the send completes only when the caller's loop takes it.
Receive(k) ==
    /\ pc = "loop"
    /\ gr[k] = "sending"
    /\ gr' = [gr EXCEPT ![k] = "exited"]
    /\ LET okNow == ok /\ answer[k]
       IN /\ ok' = okNow
          /\ IF ~okNow
                THEN /\ kill' = 1
                     /\ pc' = "returned"
                     /\ UNCHANGED count
                ELSE /\ count' = count + 1
                     /\ pc' = IF count + 1 >= Cardinality(PartKeys) THEN "returned" ELSE "loop"
                     /\ UNCHANGED kill
    /\ UNCHANGED <<hist, answer, hasTimeout>>

\* case <-timeoutChan: the loop stops with ok as it stands.
Timeout ==
    /\ hasTimeout
    /\ pc = "loop"
    /\ pc' = "returned"
    /\ UNCHANGED <<hist, gr, answer, kill, ok, count, hasTimeout>>

Next ==
    \/ \E k \in PartKeys : CheckSingle(k) \/ Killed(k) \/ Receive(k)
    \/ Timeout

\* The partition ids an initial history can give: keys for Operation
\* histories, All for Event histories.
PartIds == (IF Histories # {} THEN Keys ELSE {}) \cup (IF EventHistories # {} THEN {All} ELSE {})

\* The Go scheduler runs every runnable goroutine and the timer fires.
Spec == Init /\ [][Next]_vars /\ WF_vars(Timeout)
        /\ \A k \in PartIds : WF_vars(k \in PartKeys /\ CheckSingle(k))
                        /\ WF_vars(k \in PartKeys /\ Receive(k))

-----------------------------------------------------------------------------
(***************************************************************************)
(* Properties.                                                              *)
(***************************************************************************)

\* The operations of one key in the history, whichever form it came in.
KeyOps(k) == SelectSeq(OpsOf(hist), LAMBDA o : o.input.key = k)

\* A key-value history is linearizable exactly when the operations of
\* each key are (KvModel's state is the value of one key).
Linearizable == \A k \in HistKeys(OpsOf(hist)) : Lin!IsLinearizable(KeyOps(k))

\* Without a timeout, what CheckOperations or CheckEvents returns is the
\* verdict on the whole history: true exactly when the operations of every
\* key are linearizable. The loop must take every answer before it returns
\* true, and stop at the first false one, which a killed goroutine's false
\* can never be; and each partition must hold the operations of one key.
ReturnedVerdict ==
    pc = "returned" /\ ~hasTimeout => (ok <=> Linearizable)

\* With a timeout, a false answer is still sound: some partition is not
\* linearizable. Only true may be inconclusive (the comment at the
\* timeout case says so).
RejectSound ==
    pc = "returned" /\ ~ok => ~Linearizable

\* CheckOperationsTimeout returns: its loop ends whatever the goroutines
\* and the timer do.
CheckReturns == <>(pc = "returned")

=============================================================================
