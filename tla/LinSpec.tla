------------------------------ MODULE LinSpec ------------------------------
(***************************************************************************)
(* What a check of one history promises (spec section 4.5): it ends, and   *)
(* it answers true exactly when some total order of the operations that    *)
(* respects real time is accepted step by step by the sequential model.   *)
(* An operation a precedes b in real time when a returned before b was     *)
(* called (a.ret < b.call); operations that overlap may go either way.     *)
(*                                                                         *)
(* This is the reference the checker's search is compared with: it tries *)
(* every order instead of searching.                                       *)
(***************************************************************************)
EXTENDS KvModel, FiniteSets

CONSTANT Nil   \* no verdict yet

VARIABLES history, verdict

\* The model accepts the operations of h in the order ord (a sequence of
\* indices of h).
RECURSIVE Accepts(_, _, _)
Accepts(h, ord, st) ==
    IF ord = <<>> THEN TRUE
    ELSE LET r == KvStep(st, h[Head(ord)].input, h[Head(ord)].output)
         IN r.ok /\ Accepts(h, Tail(ord), r.st)

RespectsRealTime(h, ord) ==
    \A i, j \in DOMAIN ord : i < j => ~(h[ord[j]].ret < h[ord[i]].call)

IsLinearizable(h) ==
    \E ord \in SetToSeqs(DOMAIN h) : RespectsRealTime(h, ord) /\ Accepts(h, ord, KvInit)

\* The operations an Event history records (spec section 4.5): an event is
\* [kind, value, id] with kind TRUE for a return; each id has a call and a
\* later return, and an event's position in the stream is its time.
EventOps(ev) ==
    LET cs == SelectSeq([i \in DOMAIN ev |-> i], LAMBDA i : ~ev[i].kind)
        retOf(c) == CHOOSE r \in DOMAIN ev : ev[r].kind /\ ev[r].id = ev[c].id
    IN [k \in DOMAIN cs |-> [input |-> ev[cs[k]].value, output |-> ev[retOf(cs[k])].value,
                             call |-> cs[k], ret |-> retOf(cs[k])]]

\* The history is whatever the caller passes; the verdict is not yet known.
Init == verdict = Nil

Decide == verdict = Nil /\ verdict' = IsLinearizable(history) /\ UNCHANGED history

Spec == Init /\ [][Decide]_<<history, verdict>> /\ WF_<<history, verdict>>(Decide)

=============================================================================
