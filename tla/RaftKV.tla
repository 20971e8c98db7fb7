------------------------------- MODULE RaftKV -------------------------------
(***************************************************************************)
(* The replicated key-value layer (package raftkv: KVServer in            *)
(* unnamed/part_005, Clerk in kvraft/client.go) over an abstract Raft.     *)
(*                                                                         *)
(* Raft is reduced to what the KV layer can observe: one leader log lg     *)
(* whose first commitLen entries are committed; Start on the leader        *)
(* appends to it, a change of leader may cut the uncommitted suffix, and   *)
(* the apply channel of every replica delivers lg in order (or a snapshot  *)
(* of a committed prefix).  A replica that is not the leader answers       *)
(* Start with isLeader = false.  The module Raft checks the protocol that  *)
(* provides this.                                                          *)
(*                                                                         *)
(* Data is abstracted to one key: a value is the sequence of the tags      *)
(* <<clientId, requestId>> of the writes that produced it, so an append    *)
(* applied twice shows up as a repeated tag.                               *)
(***************************************************************************)
EXTENDS Naturals, Sequences, SequencesExt, FiniteSets

CONSTANTS
    NServers,        \* len(servers); replicas are 0 .. NServers - 1
    Client,          \* clerks (model values; clientId = nrand())
    Nil,             \* a missing map entry or channel
    MaxReq,          \* requests a clerk issues (requestId < MaxReq)
    MaxLog,          \* bound on the length of the Raft log
    Snapshots,       \* maxraftstate != -1: snapshots reach the apply channel
    DelayedRequests  \* the RPC layer may deliver a request after Call gave up

Server == 0 .. (NServers - 1)
Commands == {"put", "append", "get"}

VARIABLES
    lg, commitLen, leader,              \* abstract Raft
    data, ack, applied, resultCh,       \* KVServer
    handlers,                           \* appendEntryToLog calls waiting in select
    pending, reqId, hint, done,         \* Clerk
    net                                 \* clerk RPCs in flight

raftVars == <<lg, commitLen, leader>>
kvVars == <<data, ack, applied, resultCh>>
clerkVars == <<pending, reqId, hint, done>>
vars == <<raftVars, kvVars, handlers, clerkVars, net>>

-----------------------------------------------------------------------------
(* The state machine.                                                      *)

Tag(op) == <<op.clientId, op.requestId>>

\* Slip: the duplicate test with > in place of >=.
isDuplicatedStrict(a, op) == a[op.clientId] # Nil /\ a[op.clientId] > op.requestId

\* isDuplicated: the client's last request id is at least this one.
isDuplicated(a, op) == a[op.clientId] # Nil /\ a[op.clientId] >= op.requestId

\* The value a get reads: "" for a missing key (ErrNoKey).
ValueOf(d) == IF d = Nil THEN <<>> ELSE d

\* applyOp on the state [data, ack]: put and append unless duplicated
\* (append on a missing key appends to ""), and ack[clientId] = requestId
\* for every command.
applyOp(st, op) ==
    LET dup == isDuplicated(st.ack, op)
    IN  [data |-> CASE op.command = "put" /\ ~dup -> <<Tag(op)>>
                    [] op.command = "append" /\ ~dup -> ValueOf(st.data) \o <<Tag(op)>>
                    [] OTHER -> st.data,
         ack |-> [st.ack EXCEPT ![op.clientId] = op.requestId]]

\* The Result applyOp returns: a get carries the value read.
ResultOf(st, op) ==
    [clientId |-> op.clientId, requestId |-> op.requestId,
     value |-> IF op.command = "get" THEN ValueOf(st.data) ELSE <<>>]

\* StartKVServer: empty data and ack maps.
InitState == [data |-> Nil, ack |-> [c \in Client |-> Nil]]

\* The state after applying the first k committed entries in order: what a
\* snapshot taken at index k holds.
StateAt(k) == FoldLeft(applyOp, InitState, SubSeq(lg, 1, k))

\* Decoding a snapshot into the existing maps: keys the snapshot holds are
\* overwritten, the others are kept.
MergeMap(old, new) == IF new = Nil THEN old ELSE new

\* kv.Run: drain a stale result from resultCh[index] (or create the
\* channel), then send the new one.
SendResult(ch, r) == <<r>>

\* Slip: isMatch comparing nothing.
isMatchAlways(entry, result) == TRUE

\* isMatch: the result is that of the request this handler proposed.
isMatch(entry, result) ==
    entry.clientId = result.clientId /\ entry.requestId = result.requestId

-----------------------------------------------------------------------------
(* Messages.                                                               *)

\* PutAppendArgs and GetArgs: the command, ClientId and RequestId.  Key and
\* Value are left out: there is one key, and a write's value is its tag.
Args(cmd, c, id) == [command |-> cmd, clientId |-> c, requestId |-> id]

\* PutAppendReply and GetReply as delivered to clerk c: WrongLeader and
\* Value (Err follows from the value); idx, the log index the result came
\* from, is kept for the properties only.
KVReply(c, wrongLeader, value, idx) ==
    [type |-> "reply", client |-> c, wrongLeader |-> wrongLeader, value |-> value, idx |-> idx]

\* A Call of the clerk to replica s; live is FALSE once the Call gave up.
Req(s, op) == [type |-> "req", srv |-> s, op |-> op, live |-> TRUE]

\* The reply of a handler, sent only while the Call still waits for it.
Reply(live, op, wrongLeader, value, idx) ==
    IF live
    THEN {KVReply(op.clientId, wrongLeader, value, idx)}
    ELSE {}

-----------------------------------------------------------------------------

Init ==
    /\ lg = <<>> /\ commitLen = 0 /\ leader \in Server
    /\ data = [s \in Server |-> Nil]
    /\ ack = [s \in Server |-> [c \in Client |-> Nil]]
    /\ applied = [s \in Server |-> 0]
    /\ resultCh = [s \in Server |-> [k \in 1..MaxLog |-> Nil]]
    /\ handlers = {}
    /\ pending = [c \in Client |-> Nil]
    /\ reqId = [c \in Client |-> 0]
    /\ hint = [c \in Client |-> 0]
    /\ done = {}
    /\ net = {}

-----------------------------------------------------------------------------
(* Abstract Raft.                                                          *)

\* The leader's entries reach a majority: one more entry is committed.
RaftCommit ==
    /\ commitLen < Len(lg)
    /\ commitLen' = commitLen + 1
    /\ UNCHANGED <<lg, leader, kvVars, handlers, clerkVars, net>>

\* A new leader is elected; its log holds every committed entry and may
\* lack any part of the uncommitted suffix.
LeaderChange(s, n) ==
    /\ s # leader
    /\ n \in commitLen .. Len(lg)
    /\ leader' = s
    /\ lg' = SubSeq(lg, 1, n)
    /\ UNCHANGED <<commitLen, kvVars, handlers, clerkVars, net>>

-----------------------------------------------------------------------------
(* KVServer.                                                               *)

\* Get / PutAppend -> appendEntryToLog: rf.Start(entry); a replica that is
\* not the leader answers WrongLeader at once.  The leader appends the entry
\* at index Len(lg) + 1, creates resultCh[index] if absent, and waits.
HandleRequest(m) ==
    LET s == m.srv
        idx == Len(lg) + 1
    IN
    /\ m.type = "req"
    /\ \/ /\ s # leader
          /\ net' = (net \ {m}) \cup Reply(m.live, m.op, TRUE, <<>>, 0)
          /\ UNCHANGED <<lg, resultCh, handlers>>
       \/ /\ s = leader
          /\ Len(lg) < MaxLog
          /\ lg' = Append(lg, m.op)
          /\ resultCh' = [resultCh EXCEPT ![s][idx] = IF @ = Nil THEN <<>> ELSE @]
          /\ handlers' = handlers \cup {[srv |-> s, op |-> m.op, idx |-> idx, live |-> m.live]}
          /\ net' = net \ {m}
    /\ UNCHANGED <<commitLen, leader, data, ack, applied, clerkVars>>

\* appendEntryToLog, select: a result is taken from resultCh[index]; it is
\* returned if isMatch, otherwise the reply is WrongLeader.
HandlerResult(h) ==
    LET ch == resultCh[h.srv][h.idx]
    IN
    /\ ch # Nil /\ ch # <<>>
    /\ resultCh' = [resultCh EXCEPT ![h.srv][h.idx] = <<>>]
    /\ handlers' = handlers \ {h}
    /\ net' = net \cup
              IF isMatch(h.op, Head(ch))
              THEN Reply(h.live, h.op, FALSE, Head(ch).value, h.idx)
              ELSE Reply(h.live, h.op, TRUE, <<>>, 0)
    /\ UNCHANGED <<raftVars, data, ack, applied, clerkVars>>

\* appendEntryToLog, select: 240 ms pass; the reply is WrongLeader.
HandlerTimeout(h) ==
    /\ handlers' = handlers \ {h}
    /\ net' = net \cup Reply(h.live, h.op, TRUE, <<>>, 0)
    /\ UNCHANGED <<raftVars, kvVars, clerkVars>>

\* kv.Run, a command: applyOp under kv.mu, then the result replaces whatever
\* resultCh[index] holds (the channel is created if absent).
Apply(s) ==
    LET k == applied[s] + 1
        st == [data |-> data[s], ack |-> ack[s]]
        op == lg[k]
        new == applyOp(st, op)
    IN
    /\ applied[s] < commitLen
    /\ data' = [data EXCEPT ![s] = new.data]
    /\ ack' = [ack EXCEPT ![s] = new.ack]
    /\ resultCh' = [resultCh EXCEPT ![s][k] = SendResult(@, ResultOf(st, op))]
    /\ applied' = [applied EXCEPT ![s] = k]
    /\ UNCHANGED <<raftVars, handlers, clerkVars, net>>

\* kv.Run, a snapshot: Raft installed the leader's snapshot of index k past
\* this replica's commit index; data and ack are decoded into the maps.
InstallSnapshot(s, k) ==
    LET snap == StateAt(k)
    IN
    /\ Snapshots
    /\ applied[s] < k /\ k <= commitLen
    /\ data' = [data EXCEPT ![s] = MergeMap(@, snap.data)]
    /\ ack' = [ack EXCEPT ![s] = [c \in Client |-> MergeMap(@[c], snap.ack[c])]]
    /\ applied' = [applied EXCEPT ![s] = k]
    /\ UNCHANGED <<raftVars, resultCh, handlers, clerkVars, net>>

-----------------------------------------------------------------------------
(* Clerk.                                                                  *)

\* Get / PutAppend: the next requestId is taken under ck.mu and the request
\* goes to the replica believed to be the leader.
ClerkCall(c, cmd) ==
    LET op == Args(cmd, c, reqId[c])
    IN
    /\ pending[c] = Nil
    /\ reqId[c] < MaxReq
    /\ reqId' = [reqId EXCEPT ![c] = @ + 1]
    /\ pending' = [pending EXCEPT ![c] = op]
    /\ net' = net \cup {Req(hint[c], op)}
    /\ UNCHANGED <<raftVars, kvVars, handlers, hint, done>>

\* The retry loop: ck.leader = (ck.leader + 1) % len(ck.servers) and Call
\* again with the same arguments.
Retry(c) == hint' = [hint EXCEPT ![c] = (@ + 1) % NServers]

\* Call returns with a reply: done unless WrongLeader, else retry.
ClerkReceive(m) ==
    LET c == m.client
    IN
    /\ m.type = "reply"
    /\ \/ /\ ~m.wrongLeader
          /\ done' = done \cup {[op |-> pending[c], value |-> m.value, idx |-> m.idx]}
          /\ pending' = [pending EXCEPT ![c] = Nil]
          /\ net' = net \ {m}
          /\ UNCHANGED hint
       \/ /\ m.wrongLeader
          /\ net' = (net \ {m}) \cup {Req((hint[c] + 1) % NServers, pending[c])}
          /\ Retry(c)
          /\ UNCHANGED <<pending, done>>
    /\ UNCHANGED <<raftVars, kvVars, handlers, reqId>>

\* Call returns false: no reply within its timeout (request or reply lost,
\* replica unreachable).  A reply still on its way is discarded, a handler
\* still running answers nobody, and a request not yet delivered is lost
\* or, under DelayedRequests, still delivered later.  Then retry.
ClerkCallFail(c) ==
    LET mine(x) == x.op.clientId = c /\ x.live
        orphan(x) == [x EXCEPT !.live = FALSE]
        reqs == {m \in net : m.type = "req" /\ mine(m)}
        rest == {m \in net : m.type = "req" => ~mine(m)}
        kept == {m \in rest : m.type = "reply" => m.client # c}
    IN
    /\ pending[c] # Nil
    /\ handlers' = {IF mine(h) THEN orphan(h) ELSE h : h \in handlers}
    /\ net' = kept \cup (IF DelayedRequests THEN {orphan(m) : m \in reqs} ELSE {})
                    \cup {Req((hint[c] + 1) % NServers, pending[c])}
    /\ Retry(c)
    /\ UNCHANGED <<raftVars, kvVars, pending, reqId, done>>

-----------------------------------------------------------------------------

Next ==
    \/ RaftCommit
    \/ \E s \in Server, n \in 0 .. MaxLog : LeaderChange(s, n)
    \/ \E m \in net : HandleRequest(m) \/ ClerkReceive(m)
    \/ \E h \in handlers : HandlerResult(h) \/ HandlerTimeout(h)
    \/ \E s \in Server : Apply(s) \/ \E k \in 1 .. MaxLog : InstallSnapshot(s, k)
    \/ \E c \in Client : ClerkCallFail(c) \/ \E cmd \in Commands : ClerkCall(c, cmd)

Spec == Init /\ [][Next]_vars

-----------------------------------------------------------------------------
(* Properties.                                                             *)

\* What the first k committed entries should produce: each put or append
\* takes effect at its first occurrence in the log and never again.
IntendedStep(st, op) ==
    IF op.command = "get" \/ Tag(op) \in st.seen THEN st
    ELSE [data |-> IF op.command = "put" THEN <<Tag(op)>>
                   ELSE ValueOf(st.data) \o <<Tag(op)>>,
          seen |-> st.seen \cup {Tag(op)}]

Intended(k) == FoldLeft(IntendedStep, [data |-> Nil, seen |-> {}], SubSeq(lg, 1, k)).data

\* Effectively-once writes (spec section 4.4 and 8): every replica's data is
\* the committed prefix it has applied with each write taking effect once,
\* although the clerk retries after lost replies and timeouts, so one
\* request can be committed several times.  It rests on kv.applyOp and
\* isDuplicated comparing with ack, and on ack never forgetting a request.
AppliedExactlyOnce ==
    \A s \in Server : data[s] = Intended(applied[s])

\* A clerk's completed operation took effect at the log index whose result
\* it returned: the entry there is the clerk's own request, and a get
\* returned the value of the writes before it.  This is the linearization
\* point.  It rests on isMatch rejecting a result of another entry that a
\* new leader placed at the index an old one returned from Start.
ResultMatchesLog ==
    \A d \in done :
        /\ d.idx \in 1 .. commitLen
        /\ lg[d.idx] = d.op
        /\ d.op.command = "get" => d.value = ValueOf(Intended(d.idx - 1))

=============================================================================
