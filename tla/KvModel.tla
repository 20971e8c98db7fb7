------------------------------ MODULE KvModel ------------------------------
(***************************************************************************)
(* The sequential key/value model the linearizability checker is run with  *)
(* (src/linearizability/models.go, KvModel) and the Operation records it   *)
(* checks (src/unnamed/part_002, Operation).                               *)
(*                                                                         *)
(* A string is a sequence of tokens drawn from Vals, so that put and       *)
(* append do what they do to a Go string: replace it or concatenate to it. *)
(* Operation numbers follow KvInput.Op: 0 get, 1 put, 2 append.            *)
(***************************************************************************)
EXTENDS Naturals, Sequences, SequencesExt

CONSTANTS Vals,     \* the tokens a put or append may carry
          Keys,     \* the keys operations name
          MaxOut    \* the longest string a get in a history may return

\* KvInput{Op, Key, Value}; KvOutput{Value}. Only a get's output is read.
KvInputs == [op : {0}, key : Keys, value : {<<>>}]
       \cup [op : {1, 2}, key : Keys, value : {<<v>> : v \in Vals}]
KvOutputs == BoundedSeq(Vals, MaxOut)

\* Model.Init: the value of a key before any operation is "".
KvInit == <<>>

\* Model.Step: whether the operation may take effect in st with this
\* output, and the state after it.
KvStep(st, inp, out) ==
    CASE inp.op = 0 -> [ok |-> out = st, st |-> st]
      [] inp.op = 1 -> [ok |-> TRUE, st |-> inp.value]
      [] inp.op = 2 -> [ok |-> TRUE, st |-> st \o inp.value]

\* Model.Partition: the operations of each key form one sub-history;
\* the order of operations inside it is the order of the history.
Partition(h) ==
    {SelectSeq(h, LAMBDA o : o.input.key = k) : k \in {h[i].input.key : i \in DOMAIN h}}

=============================================================================
