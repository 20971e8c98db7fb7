------------------------- MODULE MC_Linearizability -------------------------
(***************************************************************************)
(* Histories of NOps operations, and event streams of NEvOps operations,  *)
(* on one key for checkSingle.  Operations are listed by call time:        *)
(* makeEntries sorts by time, so the order of the history only fixes the   *)
(* ids, and listing them another way renames ids.                          *)
(***************************************************************************)
EXTENDS Linearizability, TLC

CONSTANTS k1, NOps, NEvOps, MaxTime, DistinctTimes

MCKeys == {k1}

\* Call and return times: call <= return, calls in history order, and in
\* the runs with DistinctTimes every event at its own time.
Timings(n) ==
    {t \in [1..n -> (1..MaxTime) \X (1..MaxTime)] :
        /\ \A i \in 1..n : t[i][1] <= t[i][2]
        /\ \A i \in 1..n - 1 : t[i][1] <= t[i + 1][1]
        /\ DistinctTimes =>
             /\ \A i \in 1..n : t[i][1] < t[i][2]
             /\ \A i, j \in 1..n : \A a, b \in {1, 2} :
                  <<i, a>> # <<j, b>> => t[i][a] # t[j][b]}

\* A get returns a string of at most MaxOut tokens; put and append return
\* an empty KvOutput.
OpShapes == {[input |-> in, output |-> out] : in \in KvInputs, out \in KvOutputs}
              \cap {o \in [input : KvInputs, output : KvOutputs] : o.input.op # 0 => o.output = <<>>}

HistoriesOf(n) ==
    {[i \in 1..n |-> [input |-> s[i].input, output |-> s[i].output,
                      call |-> t[i][1], ret |-> t[i][2]]] :
        s \in [1..n -> OpShapes], t \in Timings(n)}

MCHistories == HistoriesOf(NOps)

\* Event histories: the calls and returns of a history of NEvOps
\* operations in time order, the i-th operation with id 2 * (NEvOps - i + 1),
\* so that renumber has ids to make dense.
EventsOf(h) ==
    LET es == CHOOSE s \in makeEntries(h) : TRUE
    IN [i \in DOMAIN es |-> [kind |-> es[i].kind = "return", value |-> es[i].value,
                             id |-> 2 * (NEvOps - es[i].id)]]

MCEventHistories == {EventsOf(h) : h \in HistoriesOf(NEvOps)}

MCNoEvents == {}

=============================================================================
