--------------------------- MODULE Linearizability ---------------------------
(***************************************************************************)
(* checkSingle (src/unnamed/part_003), the Wing-Gong search the            *)
(* linearizability checker runs on one partition of a history, together   *)
(* with the list it runs on: makeEntries sorts the call and return entries *)
(* by time and makeLinkedEntries links them, a call to its return.         *)
(*                                                                         *)
(* Node 0 is the head node checkSingle inserts; node i > 0 is the i-th     *)
(* entry of the sorted slice. next and prev are the list pointers; match   *)
(* the call-to-return pointer, Nil for a return (and for a call whose      *)
(* return was not met first by the backward walk of makeLinkedEntries).    *)
(* linearized is a bitset of the Bitset module, and the cache, a map from  *)
(* a bitset's hash to the entries with that hash, is the set of those      *)
(* entries, looked up by hash and then equals and ShallowEqual.            *)
(* One step of the model is one iteration of checkSingle's loop.           *)
(*                                                                         *)
(* The list is built from an Operation history (CheckOperations:          *)
(* makeEntries) or from an Event history (CheckEvents: renumber, then      *)
(* convertEntries).                                                        *)
(***************************************************************************)
EXTENDS Integers, KvModel, FiniteSets, Bitset

CONSTANTS Histories,      \* the Operation histories a check may be given
          EventHistories, \* the Event histories a check may be given
          Nil

VARIABLES hist,       \* the history being checked
          ents,       \* makeEntries(hist): the entries sorted by time
          match, next, prev,
          entry,      \* the node the loop is at
          state,      \* the model state after the linearized operations
          linearized, \* bitset of the ids of the operations linearized so far
          calls,      \* stack of <<node, state before it>>
          cache,      \* (linearized, state) pairs already explored
          result      \* Nil, or what checkSingle returned

vars == <<hist, ents, match, next, prev, entry, state, linearized, calls, cache, result>>

(***************************************************************************)
(* makeEntries: a call and a return entry per operation, id = position in  *)
(* the history, then sort.Sort by time. sort.Sort is not stable, so the    *)
(* order of entries with equal times is any order.                         *)
(***************************************************************************)
Entries(h) ==
    {[kind |-> "call", value |-> h[i].input, id |-> i - 1, time |-> h[i].call] : i \in DOMAIN h}
    \cup {[kind |-> "return", value |-> h[i].output, id |-> i - 1, time |-> h[i].ret] : i \in DOMAIN h}

RECURSIVE SortedByTime(_)
SortedByTime(E) ==
    IF E = {} THEN {<<>>}
    ELSE LET first == {e \in E : \A f \in E : e.time <= f.time}
         IN UNION {{<<e>> \o s : s \in SortedByTime(E \ {e})} : e \in first}

makeEntries(h) == SortedByTime(Entries(h))

(***************************************************************************)
(* makeLinkedEntries walks the slice from its end; a return is recorded in *)
(* the map match[id], a call takes what the map holds when it is met, so  *)
(* a call is linked to its return only if the return comes after it.      *)
(***************************************************************************)
MatchOf(es, i) ==
    LET later == {j \in i+1..Len(es) : es[j].kind = "return" /\ es[j].id = es[i].id}
    IN IF es[i].kind = "call" /\ later # {} THEN CHOOSE j \in later : TRUE ELSE Nil

(***************************************************************************)
(* CheckEvents.  An Event is [kind, value, id], kind FALSE for CallEvent   *)
(* and TRUE for ReturnEvent.  renumber gives each id, in order of first    *)
(* appearance, the next of 0, 1, ...: the number of distinct ids seen      *)
(* before it.  convertEntries keeps the order and sets time to -1.         *)
(***************************************************************************)
FirstAt(ev, x) == CHOOSE i \in DOMAIN ev : ev[i].id = x /\ \A j \in 1..i-1 : ev[j].id # x

\* Slip: the map lookup dropped, every event gets the next id.
renumberFresh(ev) == [i \in DOMAIN ev |-> [ev[i] EXCEPT !.id = i - 1]]

renumber(ev) ==
    [i \in DOMAIN ev |->
        [ev[i] EXCEPT !.id = Cardinality({ev[j].id : j \in 1..FirstAt(ev, ev[i].id) - 1})]]

convertEntries(ev) ==
    [i \in DOMAIN ev |-> [kind |-> IF ev[i].kind THEN "return" ELSE "call",
                          value |-> ev[i].value, id |-> ev[i].id, time |-> -1]]

\* Slip: a cached entry found by its bitset alone.
cacheContainsLinearizedOnly(c, lin, st) ==
    \E e \in c : hash(e.linearized) = hash(lin) /\ equals(lin, e.linearized)

\* cacheContains: the bucket cache[lin.hash()], then equals on the
\* bitsets and ShallowEqual on the states.
cacheContains(c, lin, st) ==
    \E e \in c : hash(e.linearized) = hash(lin) /\ equals(lin, e.linearized) /\ e.state = st

(***************************************************************************)
(* lift and unlift, each pointer store in the order the code makes it.     *)
(* entry.next is never nil in lift: a linked call's return follows it.     *)
(***************************************************************************)
lift(e) ==
    LET m  == match[e]
        n1 == [next EXCEPT ![prev[e]] = next[e]]
        p1 == [prev EXCEPT ![next[e]] = prev[e]]
        n2 == [n1 EXCEPT ![p1[m]] = n1[m]]
        p2 == IF n1[m] # Nil THEN [p1 EXCEPT ![n1[m]] = p1[m]] ELSE p1
    IN next' = n2 /\ prev' = p2

unliftNoNextPrev(e) ==
    LET m  == match[e]
        n1 == [next EXCEPT ![prev[m]] = m]
        n2 == [n1 EXCEPT ![prev[e]] = e]
        p2 == [prev EXCEPT ![n2[e]] = e]
    IN next' = n2 /\ prev' = p2

unlift(e) ==
    LET m  == match[e]
        n1 == [next EXCEPT ![prev[m]] = m]
        p1 == IF n1[m] # Nil THEN [prev EXCEPT ![n1[m]] = m] ELSE prev
        n2 == [n1 EXCEPT ![p1[e]] = e]
        p2 == [p1 EXCEPT ![n2[e]] = e]
    IN next' = n2 /\ prev' = p2

Init ==
    /\ \/ hist \in Histories /\ ents \in makeEntries(hist)
       \/ hist \in EventHistories /\ ents = convertEntries(renumber(hist))
    /\ match = [i \in 1..Len(ents) |-> MatchOf(ents, i)]
    /\ next = [i \in 0..Len(ents) |-> IF i < Len(ents) THEN i + 1 ELSE Nil]
    /\ prev = [i \in 0..Len(ents) |-> IF i = 0 THEN Nil ELSE i - 1]
    /\ entry = 1
    /\ state = KvInit
    /\ linearized = newBitset(Len(ents) \div 2)
    /\ calls = <<>>
    /\ cache = {}
    /\ result = Nil

\* The loop runs while headEntry.next != nil.
Looping == result = Nil /\ next[0] # Nil

\* A call whose step the model accepts into an unexplored (linearized,
\* state): cache a clone with its bit set, push it, set its bit, lift it
\* and its return, restart at head.
Linearize ==
    /\ Looping
    /\ match[entry] # Nil
    /\ LET r      == KvStep(state, ents[entry].value, ents[match[entry]].value)
           newLin == set(linearized, ents[entry].id)
       IN /\ r.ok
          /\ ~cacheContains(cache, newLin, r.st)
          /\ cache' = cache \cup {[linearized |-> newLin, state |-> r.st]}
          /\ calls' = Append(calls, <<entry, state>>)
          /\ state' = r.st
          /\ linearized' = newLin
          /\ lift(entry)
          /\ entry' = next'[0]
    /\ UNCHANGED <<hist, ents, match, result>>

\* A call the model rejects here, or whose outcome is cached: move on.
Skip ==
    /\ Looping
    /\ match[entry] # Nil
    /\ LET r == KvStep(state, ents[entry].value, ents[match[entry]].value)
       IN ~r.ok \/ cacheContains(cache, set(linearized, ents[entry].id), r.st)
    /\ entry' = next[entry]
    /\ UNCHANGED <<hist, ents, match, next, prev, state, linearized, calls, cache, result>>

\* A return entry of a call not linearized yet: undo the last choice and
\* resume after it.
Backtrack ==
    /\ Looping
    /\ match[entry] = Nil
    /\ calls # <<>>
    /\ LET top == Last(calls)
       IN /\ state' = top[2]
          /\ linearized' = clear(linearized, ents[top[1]].id)
          /\ calls' = Front(calls)
          /\ unlift(top[1])
          /\ entry' = next[top[1]]
    /\ UNCHANGED <<hist, ents, match, cache, result>>

\* Nothing left to undo: the history is not linearizable.
Fail ==
    /\ Looping
    /\ match[entry] = Nil
    /\ calls = <<>>
    /\ result' = FALSE
    /\ UNCHANGED <<hist, ents, match, next, prev, entry, state, linearized, calls, cache>>

\* Every operation lifted out of the list: linearizable.
Succeed ==
    /\ result = Nil
    /\ next[0] = Nil
    /\ result' = TRUE
    /\ UNCHANGED <<hist, ents, match, next, prev, entry, state, linearized, calls, cache>>

Next == Linearize \/ Skip \/ Backtrack \/ Fail \/ Succeed

\* checkSingle is one goroutine's loop; the Go scheduler runs it on.
Spec == Init /\ [][Next]_vars /\ WF_vars(Next)

-----------------------------------------------------------------------------
(***************************************************************************)
(* Properties.                                                              *)
(***************************************************************************)

\* The nodes of the list, from the head: walking next from node 0.
RECURSIVE Walk(_, _)
Walk(n, k) == IF n = Nil \/ k = 0 THEN <<>> ELSE <<n>> \o Walk(next[n], k - 1)

\* lift and unlift keep the list exactly the entries of the operations not
\* linearized, in sorted order, with prev the inverse of next: a pointer
\* store lost or made in the wrong order in lift or unlift breaks it only
\* after a lift, a backtrack and a later lift of neighbouring entries.
ListMatchesLinearized ==
    LET w == Walk(next[0], Len(ents) + 1)
    IN /\ w = SelectSeq([i \in 1..Len(ents) |-> i],
                        LAMBDA i : ~get(linearized, ents[i].id))
       /\ \A k \in 1..Len(w) : prev[w[k]] = IF k = 1 THEN 0 ELSE w[k - 1]

\* The ids a bitset of this check holds.
Members(b) == {pos \in 0..(Len(ents) \div 2 - 1) : get(b, pos)}

\* The cache lookup of a call the model accepts answers by the set of ids
\* and the state: cacheContains finds the new (bitset, state) pair exactly
\* when an entry with the same ids and state was cached.  The bitset's
\* equals must compare every word and equal bitsets must hash alike, or
\* the search prunes a branch it never explored; with ids spread over two
\* words, this needs two orders of linearization reaching equal states.
CacheLookupExact ==
    LET r == KvStep(state, ents[entry].value, ents[match[entry]].value)
        lin == set(linearized, ents[entry].id)
    IN Looping /\ match[entry] # Nil /\ r.ok =>
         (cacheContains(cache, lin, r.st) <=>
            \E e \in cache : Members(e.linearized) = Members(lin) /\ e.state = r.st)

\* The operations of the history checked, whichever form it came in (an
\* Event has an id, an Operation has none).
LOCAL Events == INSTANCE LinSpec WITH history <- <<>>, verdict <- Nil
Operations == IF \E i \in DOMAIN hist : "id" \in DOMAIN hist[i]
              THEN Events!EventOps(hist) ELSE hist

\* checkSingle refines the reference: it ends, and answers true exactly
\* when a real-time-respecting order the KV model accepts exists, whether
\* the history came as Operations or as Events renumbered and converted.
Ref == INSTANCE LinSpec WITH history <- Operations, verdict <- result
RefinesLinSpec == Ref!Spec

=============================================================================
