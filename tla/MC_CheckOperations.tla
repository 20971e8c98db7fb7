------------------------- MODULE MC_CheckOperations -------------------------
(***************************************************************************)
(* Histories of one to NOps operations over two keys, with call and       *)
(* return times in 1..MaxTime, and Event histories of NEvOps operations.  *)
(* With DistinctTimes every call and return has its own time: the scope   *)
(* in which lin_check_single shows that checkSingle answers LinSpec, so   *)
(* that a goroutine's checkSingle may be taken at that level.             *)
(* AllowEmpty adds the empty history, for which the loop of               *)
(* CheckOperations never returns without a timeout.                       *)
(***************************************************************************)
EXTENDS CheckOperations, TLC

CONSTANTS k1, k2, NOps, NEvOps, MaxTime, AllowEmpty, DistinctTimes

MCKeys == {k1, k2}

OpsOver(n) ==
    [1..n -> {o \in [input : KvInputs, output : KvOutputs,
                     call : 1..MaxTime, ret : 1..MaxTime] :
                 /\ o.call <= o.ret
                 /\ o.input.op # 0 => o.output = <<>>}]

\* A get returns a string of at most MaxOut tokens; put and append return
\* an empty KvOutput.
Shapes == {o \in [input : KvInputs, output : KvOutputs] : o.input.op # 0 => o.output = <<>>}

\* Call and return times, calls in history order (the partitions keep it,
\* and makeEntries sorts by time); with DistinctTimes the 2n events take
\* the times 1..2n, one each, since only their order matters.
Timings(n) ==
    LET T == IF DistinctTimes THEN 2 * n ELSE MaxTime
        Pairs == {p \in (1..T) \X (1..T) : p[1] < p[2] \/ (~DistinctTimes /\ p[1] = p[2])}
    IN
    {t \in [1..n -> Pairs] :
        /\ \A i \in 1..n - 1 : t[i][1] <= t[i + 1][1]
        /\ DistinctTimes =>
             \A i, j \in 1..n : \A a, b \in {1, 2} :
                 <<i, a>> # <<j, b>> => t[i][a] # t[j][b]}

HistoriesOf(n) ==
    {[i \in 1..n |-> [input |-> s[i].input, output |-> s[i].output,
                      call |-> t[i][1], ret |-> t[i][2]]] :
        s \in [1..n -> Shapes], t \in Timings(n)}

MCHistories == UNION {HistoriesOf(n) : n \in (IF AllowEmpty THEN 0 ELSE 1)..NOps}

\* The orders of the 2n events of n operations in which each call comes
\* before its return: an event is <<operation, is a return>>.
EventOrders(n) ==
    {o \in [1..2*n -> (1..n) \X BOOLEAN] :
        /\ \A a, b \in 1..2*n : a # b => o[a] # o[b]
        /\ \A a, b \in 1..2*n : o[a][1] = o[b][1] /\ ~o[a][2] /\ o[b][2] => a < b}

\* Event histories of NEvOps operations: the operation's call carries its
\* input, its return its output, both its number as id.
MCEventHistories ==
    {[j \in 1..2*NEvOps |-> [kind |-> o[j][2], id |-> o[j][1],
                             value |-> IF o[j][2] THEN ops[o[j][1]].output
                                       ELSE ops[o[j][1]].input]] :
        ops \in OpsOver(NEvOps), o \in EventOrders(NEvOps)}

MCNoEvents == {}

=============================================================================
