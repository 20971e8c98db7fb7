-------------------------------- MODULE Raft --------------------------------
(***************************************************************************)
(* The consensus replica of src/raft/raft.go: election, replication,       *)
(* commit and apply, with every RPC handler and every reply handler as one *)
(* atomic step (each runs under rf.mu in the code), the Run goroutine as a *)
(* small program counter (it reads rf.state without the lock), and the     *)
(* network as a set of in-flight requests and replies that may be lost or  *)
(* delivered in any order.                                                 *)
(*                                                                         *)
(* Two timing facts the code relies on are constants:                      *)
(*   BoundedElectionDelay: every message of a replica arrives (or is lost) *)
(*     before its election timer (200-500 ms) fires;                       *)
(*   BoundedHeartbeatRTT: a leader's request to a peer is answered (or     *)
(*     lost) before the next heartbeat 60 ms later is sent.                *)
(* With both FALSE the network is fully asynchronous.                      *)
(*                                                                         *)
(* The Persister of each replica (src/unnamed/part_001) is the pair saved  *)
(* (raftstate) and snapshot; a replica may crash and be made again from    *)
(* them, at most MaxRestarts times in a behaviour.                         *)
(***************************************************************************)
EXTENDS Naturals, Sequences, FiniteSets, FiniteSetsExt

CONSTANTS Server,      \* the replicas (rf.peers)
          Nil,         \* votedFor = -1, and the sentinel entry's command
          MaxTerm,     \* no election is started from a term >= MaxTerm
          MaxIndex,    \* Start is refused once the log reaches MaxIndex
          Snapshots,   \* kv.maxraftstate != -1: the KV server asks for snapshots
          LossyNetwork,\* labrpc may lose requests and replies
          BoundedElectionDelay,
          BoundedHeartbeatRTT,
          MaxRestarts  \* bound on crash-and-Make steps in a behaviour

ASSUME MaxTerm \in Nat /\ MaxIndex \in Nat /\ MaxRestarts \in Nat
ASSUME \A c \in {Snapshots, LossyNetwork, BoundedElectionDelay, BoundedHeartbeatRTT} :
           c \in BOOLEAN

Follower == "Follower"
Candidate == "Candidate"
Leader == "Leader"

VARIABLES
    currentTerm, state, votedFor, voteCount,   \* rf.currentTerm ... rf.voteCount
    log,            \* rf.log: log[i][1] is the sentinel (base index and term)
    commitIndex, lastApplied,
    nextIndex, matchIndex,
    run,            \* where the Run goroutine is: "Loop", "Campaign", "Select"
    rvPending,      \* a broadcastRequestVote goroutine has not run yet
    hbSignal,       \* rf.chanHeartbeat is non-empty
    winSignal,      \* rf.chanWinElect is non-empty
    applied,        \* the ApplyMsgs sent on rf.chanApply, in order
    msgs,           \* requests and replies in flight
    saved,          \* persister.raftstate: the decoded getRaftState()
    snapshot,       \* persister.snapshot: its (index, term) header, or Nil
    runSave,        \* what Run's unlocked persist read, not yet saved, or Nil
    restarts        \* crashes so far

serverVars == <<currentTerm, state, votedFor, voteCount>>
logVars == <<log, commitIndex, lastApplied, applied>>
leaderVars == <<nextIndex, matchIndex>>
driverVars == <<run, rvPending, hbSignal, winSignal>>
persistVars == <<saved, snapshot, runSave, restarts>>
vars == <<serverVars, logVars, leaderVars, driverVars, msgs, persistVars>>

-----------------------------------------------------------------------------
(* Logs.  An entry is [index, term, cmd]; position p of log[i] holds index *)
(* Base + p - 1, as rf.log[index - baseIndex] does in the code.  The KV    *)
(* server never submits the same Op twice at one leader and index, so a    *)
(* command is named by the Start call that submitted it: its replica, with *)
(* the entry's term and index.  An ApplyMsg is the entry it carries; a     *)
(* snapshot ApplyMsg is the sentinel of the snapshot point (cmd = Nil).    *)

Entry(k, t, c) == [index |-> k, term |-> t, cmd |-> c]

getLastLogIndex(lg) == lg[Len(lg)].index
getLastLogTerm(lg) == lg[Len(lg)].term
BaseIndex(lg) == lg[1].index
TermAt(lg, k) == lg[k - BaseIndex(lg) + 1].term

\* isUpToDate: the candidate's last (term, index) is at least ours.
isUpToDate(lg, candidateTerm, candidateIndex) ==
    \/ candidateTerm > getLastLogTerm(lg)
    \/ candidateTerm = getLastLogTerm(lg) /\ candidateIndex >= getLastLogIndex(lg)

\* The fast-backup loop of AppendEntries: the index after the last entry
\* below prevLogIndex whose term differs from log[prevLogIndex]; the reply
\* keeps its zero value when no such entry exists above the base.
NextTryOnConflict(lg, prev) ==
    LET differ == {k \in BaseIndex(lg)..(prev - 1) : TermAt(lg, k) # TermAt(lg, prev)}
    IN  IF differ = {} THEN 0 ELSE Max(differ) + 1

\* Slip in the suffix slice rf.log[i+1:]: rf.log[i:] keeps the matching
\* entry twice.
trimLogKeepMatch(lg, lii, lit) ==
    LET match == {p \in 1..Len(lg) : lg[p].index = lii /\ lg[p].term = lit}
    IN  <<Entry(lii, lit, Nil)>> \o
            (IF match = {} THEN <<>> ELSE SubSeq(lg, Max(match), Len(lg)))

\* trimLog: a sentinel for the snapshot point, then the suffix after an
\* entry matching it, if the log has one.
trimLog(lg, lii, lit) ==
    LET match == {p \in 1..Len(lg) : lg[p].index = lii /\ lg[p].term = lit}
    IN  <<Entry(lii, lit, Nil)>> \o
            (IF match = {} THEN <<>> ELSE SubSeq(lg, Max(match) + 1, Len(lg)))

\* count > len(rf.peers)/2
Majority(n) == n > Cardinality(Server) \div 2

\* Slip: the votedFor test left out.
RequestVoteGrantAgain(voted, lg, m) == isUpToDate(lg, m.mlastLogTerm, m.mlastLogIndex)

\* RequestVote: not yet voted for another in this term, and the
\* candidate's log is at least as up to date.
RequestVoteGrant(voted, lg, m) ==
    /\ voted \in {Nil, m.msrc}
    /\ isUpToDate(lg, m.mlastLogTerm, m.mlastLogIndex)

\* AppendEntries: log[prevLogIndex] exists above the base and its term is
\* not prevLogTerm.
LogConflict(lg, prev, prevTerm) ==
    prev >= BaseIndex(lg) /\ prevTerm # TermAt(lg, prev)

\* Slip: rf.log[:PrevLogIndex-baseIndex] loses the entry at prevLogIndex.
MergeEntriesDropPrev(lg, prev, entries) ==
    SubSeq(lg, 1, prev - BaseIndex(lg)) \o entries

\* AppendEntries: rf.log[:PrevLogIndex-baseIndex+1] then the leader's
\* entries; whatever followed prevLogIndex is cut, matching or not.
MergeEntries(lg, prev, entries) ==
    SubSeq(lg, 1, prev - BaseIndex(lg) + 1) \o entries

\* min of raft/util.go.
min(x, y) == IF x < y THEN x ELSE y

\* Slip: the commitIndex < LeaderCommit test left out.
FollowerCommitAlways(ci, leaderCommit, last) == min(leaderCommit, last)

\* AppendEntries: commitIndex = min(LeaderCommit, last index) when the
\* leader's is higher.
FollowerCommit(ci, leaderCommit, last) ==
    IF ci < leaderCommit THEN min(leaderCommit, last) ELSE ci

\* Slip: the LastIncludedIndex > commitIndex test left out.
SnapshotIsNewerAlways(ci, lii) == TRUE

\* InstallSnapshot: the snapshot goes past what is already committed.
SnapshotIsNewer(ci, lii) == lii > ci

-----------------------------------------------------------------------------
(* Persister.  getRaftState encodes currentTerm, votedFor and log; the     *)
(* model keeps them decoded, and readPersist reads back what was saved.    *)

RaftState(t, v, lg) == [currentTerm |-> t, votedFor |-> v, log |-> lg]

SaveRaftState(i, data) == saved' = [saved EXCEPT ![i] = data]

SaveStateAndSnapshot(i, data, snap) ==
    /\ saved' = [saved EXCEPT ![i] = data]
    /\ snapshot' = [snapshot EXCEPT ![i] = snap]

\* rf.persist() at the end of a handler (deferred, or its last statement):
\* the state the step leaves, saved under rf.mu before the reply is sent.
persist(i) ==
    /\ SaveRaftState(i, RaftState(currentTerm'[i], votedFor'[i], log'[i]))
    /\ UNCHANGED <<snapshot, runSave, restarts>>

-----------------------------------------------------------------------------
(* Network.                                                                *)

Reply(req, resp) == msgs' = (msgs \ {req}) \cup {resp}
Discard(m) == msgs' = msgs \ {m}

\* Nothing of replica i is in flight and no vote broadcast of it is pending:
\* under BoundedElectionDelay this is the only time its election timer fires.
Quiet(i) ==
    BoundedElectionDelay =>
        /\ ~rvPending[i]
        /\ \A m \in msgs : i \notin {m.msrc, m.mdst}

\* No replication request or reply between i and j is in flight: under
\* BoundedHeartbeatRTT every round has been answered (or lost) before the
\* next one is sent.
Idle(i, j) ==
    BoundedHeartbeatRTT =>
        \A m \in msgs : ~(/\ {m.msrc, m.mdst} = {i, j}
                          /\ m.mtype \in {"AEReq", "AEResp", "ISReq", "ISResp"})

\* Stepping down on a higher term, as every handler does.
StepDown(i, t) ==
    /\ currentTerm' = [currentTerm EXCEPT ![i] = t]
    /\ state' = [state EXCEPT ![i] = Follower]
    /\ votedFor' = [votedFor EXCEPT ![i] = Nil]

-----------------------------------------------------------------------------
(* Make: every replica a follower in term 0 with only the sentinel entry;  *)
(* the persister is empty, so readPersist and recoverFromSnapshot return   *)
(* at once, and the closing persist() saves that state.                    *)

Init ==
    /\ currentTerm = [i \in Server |-> 0]
    /\ state = [i \in Server |-> Follower]
    /\ votedFor = [i \in Server |-> Nil]
    /\ voteCount = [i \in Server |-> 0]
    /\ log = [i \in Server |-> <<Entry(0, 0, Nil)>>]
    /\ commitIndex = [i \in Server |-> 0]
    /\ lastApplied = [i \in Server |-> 0]
    /\ nextIndex = [i \in Server |-> [j \in Server |-> 0]]
    /\ matchIndex = [i \in Server |-> [j \in Server |-> 0]]
    /\ run = [i \in Server |-> "Loop"]
    /\ rvPending = [i \in Server |-> FALSE]
    /\ hbSignal = [i \in Server |-> FALSE]
    /\ winSignal = [i \in Server |-> FALSE]
    /\ applied = [i \in Server |-> <<>>]
    /\ msgs = {}
    /\ saved = [i \in Server |-> RaftState(0, Nil, <<Entry(0, 0, Nil)>>)]
    /\ snapshot = [i \in Server |-> Nil]
    /\ runSave = [i \in Server |-> Nil]
    /\ restarts = 0

-----------------------------------------------------------------------------
(* Run: the driver goroutine.  It switches on rf.state without the lock,   *)
(* so reading the state and acting on it are separate steps.               *)

\* Follower select: a heartbeat signal is consumed and the loop goes on.
\* hbSignal says the buffered channel is non-empty; taking all its signals
\* at once only lets the timer fire sooner than in the code.
FollowerHeartbeat(i) ==
    /\ run[i] = "Loop" /\ state[i] = Follower /\ hbSignal[i]
    /\ hbSignal' = [hbSignal EXCEPT ![i] = FALSE]
    /\ UNCHANGED <<serverVars, logVars, leaderVars, run, rvPending, winSignal, msgs>>
    /\ UNCHANGED persistVars

\* Follower select: the election timer fires; rf.state = STATE_CANDIDATE,
\* then rf.persist() without rf.mu: getRaftState reads the three fields
\* here, and SaveRaftState stores them in a later step (RunPersist).
\* A select with a signal already buffered takes the signal instead.
FollowerTimeout(i) ==
    /\ run[i] = "Loop" /\ state[i] = Follower /\ ~hbSignal[i]
    /\ currentTerm[i] < MaxTerm
    /\ Quiet(i)
    /\ state' = [state EXCEPT ![i] = Candidate]
    /\ runSave' = [runSave EXCEPT ![i] = RaftState(currentTerm[i], votedFor[i], log[i])]
    /\ run' = [run EXCEPT ![i] = "Persist"]
    /\ UNCHANGED <<currentTerm, votedFor, voteCount, logVars, leaderVars,
                   rvPending, hbSignal, winSignal, msgs, saved, snapshot, restarts>>

\* The SaveRaftState of that persist: whatever handlers saved since the
\* read is overwritten with the state as it was read.
RunPersist(i) ==
    /\ run[i] = "Persist"
    /\ SaveRaftState(i, runSave[i])
    /\ runSave' = [runSave EXCEPT ![i] = Nil]
    /\ run' = [run EXCEPT ![i] = "Loop"]
    /\ UNCHANGED <<serverVars, logVars, leaderVars, rvPending, hbSignal, winSignal,
                   msgs, snapshot, restarts>>

\* The switch reads rf.state = STATE_CANDIDATE before taking rf.mu.
ReadCandidate(i) ==
    /\ run[i] = "Loop" /\ state[i] = Candidate
    /\ currentTerm[i] < MaxTerm
    /\ run' = [run EXCEPT ![i] = "Campaign"]
    /\ UNCHANGED <<serverVars, logVars, leaderVars, rvPending, hbSignal, winSignal, msgs>>
    /\ UNCHANGED persistVars

\* Under rf.mu: a new term, a vote for itself, persist; then go
\* broadcastRequestVote and wait in the select.
Campaign(i) ==
    /\ run[i] = "Campaign"
    /\ currentTerm' = [currentTerm EXCEPT ![i] = @ + 1]
    /\ votedFor' = [votedFor EXCEPT ![i] = i]
    /\ voteCount' = [voteCount EXCEPT ![i] = 1]
    /\ rvPending' = [rvPending EXCEPT ![i] = TRUE]
    /\ run' = [run EXCEPT ![i] = "Select"]
    /\ UNCHANGED <<state, logVars, leaderVars, hbSignal, winSignal, msgs>>
    /\ persist(i)

\* broadcastRequestVote: arguments taken under rf.mu, one request per peer
\* while rf.state is still STATE_CANDIDATE.
broadcastRequestVote(i) ==
    /\ rvPending[i]
    /\ rvPending' = [rvPending EXCEPT ![i] = FALSE]
    /\ msgs' = IF state[i] # Candidate THEN msgs
               ELSE msgs \cup
                    {[mtype |-> "RVReq", msrc |-> i, mdst |-> j,
                      mterm |-> currentTerm[i],
                      mlastLogIndex |-> getLastLogIndex(log[i]),
                      mlastLogTerm |-> getLastLogTerm(log[i])] : j \in Server \ {i}}
    /\ UNCHANGED <<serverVars, logVars, leaderVars, run, hbSignal, winSignal>>
    /\ UNCHANGED persistVars

\* Candidate select, heartbeat case: rf.state = STATE_FOLLOWER (unlocked).
CandidateHeartbeat(i) ==
    /\ run[i] = "Select" /\ hbSignal[i]
    /\ state' = [state EXCEPT ![i] = Follower]
    /\ hbSignal' = [hbSignal EXCEPT ![i] = FALSE]
    /\ run' = [run EXCEPT ![i] = "Loop"]
    /\ UNCHANGED <<currentTerm, votedFor, voteCount, logVars, leaderVars,
                   rvPending, winSignal, msgs>>
    /\ UNCHANGED persistVars

\* Candidate select, chanWinElect case: a win signal is taken, whichever
\* election sent it; the channel is buffered and nothing else drains it.
CandidateWin(i) ==
    /\ run[i] = "Select" /\ winSignal[i]
    /\ run' = [run EXCEPT ![i] = "Loop"]
    /\ winSignal' = [winSignal EXCEPT ![i] = FALSE]
    /\ UNCHANGED <<serverVars, logVars, leaderVars, rvPending, hbSignal, msgs>>
    /\ UNCHANGED persistVars

\* Candidate select, timer case: back to the top of the loop.
CandidateTimeout(i) ==
    /\ run[i] = "Select"
    /\ Quiet(i)
    /\ run' = [run EXCEPT ![i] = "Loop"]
    /\ UNCHANGED <<serverVars, logVars, leaderVars, rvPending, hbSignal, winSignal, msgs>>
    /\ UNCHANGED persistVars

\* The request broadcastHeartbeat builds for peer j.
HeartbeatTo(i, j) ==
    LET lg == log[i]
        base == BaseIndex(lg)
        prev == nextIndex[i][j] - 1
    IN  IF nextIndex[i][j] > base
        THEN [mtype |-> "AEReq", msrc |-> i, mdst |-> j,
              mterm |-> currentTerm[i],
              mprevLogIndex |-> prev,
              mprevLogTerm |-> IF prev >= base THEN TermAt(lg, prev) ELSE 0,
              mentries |-> IF nextIndex[i][j] <= getLastLogIndex(lg)
                           THEN SubSeq(lg, nextIndex[i][j] - base + 1, Len(lg))
                           ELSE <<>>,
              mleaderCommit |-> commitIndex[i]]
        ELSE [mtype |-> "ISReq", msrc |-> i, mdst |-> j,
              mterm |-> currentTerm[i],
              mlastIncludedIndex |-> base,
              mlastIncludedTerm |-> lg[1].term]

\* Leader loop: go broadcastHeartbeat, one request to every peer, every
\* 60 ms; under BoundedHeartbeatRTT the previous round is over by then.
broadcastHeartbeat(i) ==
    /\ run[i] = "Loop" /\ state[i] = Leader
    /\ \A p \in Server \ {i} : Idle(i, p)
    /\ msgs' = msgs \cup {HeartbeatTo(i, j) : j \in Server \ {i}}
    /\ msgs' # msgs
    /\ UNCHANGED <<serverVars, logVars, leaderVars, driverVars>>
    /\ UNCHANGED persistVars

-----------------------------------------------------------------------------
(* Client entry point.                                                     *)

\* Start: a leader appends the command at the next index and persists.
Start(i) ==
    /\ state[i] = Leader
    /\ getLastLogIndex(log[i]) < MaxIndex
    /\ log' = [log EXCEPT ![i] =
                 Append(@, Entry(getLastLogIndex(@) + 1, currentTerm[i], i))]
    /\ UNCHANGED <<serverVars, commitIndex, lastApplied, applied,
                   leaderVars, driverVars, msgs>>
    /\ persist(i)

\* applyLog: every entry in (lastApplied, commitIndex] goes on the apply
\* channel in order, then lastApplied = commitIndex.  Every raise of
\* commitIndex starts one (go rf.applyLog()); one started while nothing is
\* left to apply does nothing, so the goroutine is pending exactly while
\* lastApplied < commitIndex.  With commitIndex past the end of the log the
\* read of rf.log[i - baseIndex] panics; no step is taken (CommitWithinLog).
applyLog(i) ==
    /\ lastApplied[i] < commitIndex[i]
    /\ commitIndex[i] <= getLastLogIndex(log[i])
    /\ LET lg == log[i]
           base == BaseIndex(lg)
       IN  applied' = [applied EXCEPT ![i] =
                         @ \o SubSeq(lg, lastApplied[i] - base + 2, commitIndex[i] - base + 1)]
    /\ lastApplied' = [lastApplied EXCEPT ![i] = commitIndex[i]]
    /\ UNCHANGED <<serverVars, log, commitIndex, leaderVars, driverVars, msgs>>
    /\ UNCHANGED persistVars

\* CreateSnapshot: the KV server, having applied index k and found the
\* Raft state too large, has the log trimmed to k (go kv.rf.CreateSnapshot,
\* so the call may run well after the apply); refused unless base < k <= last.
\* The trimmed state and the snapshot, headed by the new base, are saved
\* together.
CreateSnapshot(i, k) ==
    /\ Snapshots
    /\ k <= lastApplied[i]
    /\ BaseIndex(log[i]) < k /\ k <= getLastLogIndex(log[i])
    /\ log' = [log EXCEPT ![i] = trimLog(@, k, TermAt(@, k))]
    /\ SaveStateAndSnapshot(i, RaftState(currentTerm[i], votedFor[i], log'[i]),
                            [index |-> k, term |-> TermAt(log[i], k)])
    /\ UNCHANGED <<runSave, restarts>>
    /\ UNCHANGED <<serverVars, commitIndex, lastApplied, applied,
                   leaderVars, driverVars, msgs>>

-----------------------------------------------------------------------------
(* RPC handlers (receiver side).  Each runs under rf.mu and answers.       *)

\* RequestVote: reject a stale term; adopt a newer one; grant if not yet
\* voted for another and the candidate's log is at least as up to date.
\* The deferred persist runs on every path, before the reply leaves.
RequestVote(m) ==
    LET i == m.mdst
        j == m.msrc
        newer == m.mterm > currentTerm[i]
        voted == IF newer THEN Nil ELSE votedFor[i]
        grant == RequestVoteGrant(voted, log[i], m)
        resp(t, g) == [mtype |-> "RVResp", msrc |-> i, mdst |-> j, mterm |-> t,
                       mvoteGranted |-> g, margsTerm |-> m.mterm]
    IN  /\ m.mtype = "RVReq"
        /\ \/ /\ m.mterm < currentTerm[i]
              /\ Reply(m, resp(currentTerm[i], FALSE))
              /\ UNCHANGED serverVars
           \/ /\ m.mterm >= currentTerm[i]
              /\ currentTerm' = [currentTerm EXCEPT ![i] = m.mterm]
              /\ state' = [state EXCEPT ![i] = IF newer THEN Follower ELSE @]
              /\ votedFor' = [votedFor EXCEPT ![i] = IF grant THEN j ELSE voted]
              /\ Reply(m, resp(m.mterm, grant))
              /\ UNCHANGED voteCount
        /\ UNCHANGED <<logVars, leaderVars, driverVars>>
        /\ persist(i)

\* The reply an AppendEntries request m gets from replica i.
AEResp(m, t, ok, nextTry) ==
    [mtype |-> "AEResp", msrc |-> m.mdst, mdst |-> m.msrc, mterm |-> t,
     msuccess |-> ok, mnextTryIndex |-> nextTry, margsTerm |-> m.mterm,
     mlastSent |-> IF m.mentries = <<>> THEN Nil
                   ELSE m.mentries[Len(m.mentries)].index]

\* AppendEntries: reject a stale term; otherwise adopt the term, signal the
\* heartbeat, and either report where to retry or cut the log after
\* prevLogIndex, append the entries and take the leader's commit index;
\* the deferred persist runs on every path.
AppendEntries(m) ==
    LET i == m.mdst
        lg == log[i]
        base == BaseIndex(lg)
        last == getLastLogIndex(lg)
        prev == m.mprevLogIndex
        newLog == MergeEntries(lg, prev, m.mentries)
        conflict == LogConflict(lg, prev, m.mprevLogTerm)
    IN
    /\ m.mtype = "AEReq"
    /\ \/ /\ m.mterm < currentTerm[i]
          /\ Reply(m, AEResp(m, currentTerm[i], FALSE, last + 1))
          /\ UNCHANGED <<serverVars, logVars, hbSignal>>
       \/ /\ m.mterm >= currentTerm[i]
          /\ currentTerm' = [currentTerm EXCEPT ![i] = m.mterm]
          /\ state' = [state EXCEPT ![i] = IF m.mterm > currentTerm[i] THEN Follower ELSE @]
          /\ votedFor' = [votedFor EXCEPT ![i] = IF m.mterm > currentTerm[i] THEN Nil ELSE @]
          /\ hbSignal' = [hbSignal EXCEPT ![i] = TRUE]
          /\ \/ /\ prev <= last /\ conflict
                /\ Reply(m, AEResp(m, m.mterm, FALSE, NextTryOnConflict(lg, prev)))
                /\ UNCHANGED logVars
             \/ /\ prev <= last /\ ~conflict /\ prev >= base - 1
                /\ log' = [log EXCEPT ![i] = newLog]
                /\ Reply(m, AEResp(m, m.mterm, TRUE, prev + Len(m.mentries)))
                /\ commitIndex' = [commitIndex EXCEPT ![i] =
                         FollowerCommit(@, m.mleaderCommit, getLastLogIndex(newLog))]
                /\ UNCHANGED <<lastApplied, applied>>
             \* The early return past the last entry, and the fall-through
             \* below the base that leaves NextTryIndex at zero.
             \/ /\ prev > last \/ prev < base - 1
                /\ Reply(m, AEResp(m, m.mterm, FALSE, IF prev > last THEN last + 1 ELSE 0))
                /\ UNCHANGED logVars
    /\ persist(i)
    /\ UNCHANGED <<voteCount, leaderVars, run, rvPending, winSignal>>

\* InstallSnapshot: as AppendEntries for the term; a snapshot beyond the
\* commit index replaces the log prefix, moves commitIndex and lastApplied
\* to it and goes on the apply channel.  A newer term is persisted; a taken
\* snapshot is saved with the state (SaveStateAndSnapshot, args.Data).
InstallSnapshot(m) ==
    LET i == m.mdst
        lii == m.mlastIncludedIndex
        resp(t) == [mtype |-> "ISResp", msrc |-> i, mdst |-> m.msrc, mterm |-> t,
                    margsTerm |-> m.mterm, mlastIncludedIndex |-> lii]
    IN
    /\ m.mtype = "ISReq"
    /\ \/ /\ m.mterm < currentTerm[i]
          /\ Reply(m, resp(currentTerm[i]))
          /\ UNCHANGED <<serverVars, logVars, hbSignal>>
          /\ UNCHANGED persistVars
       \/ /\ m.mterm >= currentTerm[i]
          /\ currentTerm' = [currentTerm EXCEPT ![i] = m.mterm]
          /\ state' = [state EXCEPT ![i] = IF m.mterm > currentTerm[i] THEN Follower ELSE @]
          /\ votedFor' = [votedFor EXCEPT ![i] = IF m.mterm > currentTerm[i] THEN Nil ELSE @]
          /\ hbSignal' = [hbSignal EXCEPT ![i] = TRUE]
          /\ Reply(m, resp(m.mterm))
          /\ IF SnapshotIsNewer(commitIndex[i], lii)
             THEN /\ log' = [log EXCEPT ![i] = trimLog(@, lii, m.mlastIncludedTerm)]
                  /\ commitIndex' = [commitIndex EXCEPT ![i] = lii]
                  /\ lastApplied' = [lastApplied EXCEPT ![i] = lii]
                  /\ applied' = [applied EXCEPT ![i] = Append(@, Entry(lii, m.mlastIncludedTerm, Nil))]
                  /\ SaveStateAndSnapshot(i, RaftState(currentTerm'[i], votedFor'[i], log'[i]),
                                          [index |-> lii, term |-> m.mlastIncludedTerm])
                  /\ UNCHANGED <<runSave, restarts>>
             ELSE /\ UNCHANGED <<log, commitIndex, lastApplied, applied>>
                  /\ IF m.mterm > currentTerm[i] THEN persist(i) ELSE UNCHANGED persistVars
    /\ UNCHANGED <<voteCount, leaderVars, run, rvPending, winSignal>>

-----------------------------------------------------------------------------
(* Reply handlers (the caller's goroutine after Call returns, under rf.mu).*)

\* sendRequestVote: ignore a reply to an old election; step down on a newer
\* term; count a granted vote and become leader on a majority.  The
\* deferred persist runs on every path.
RequestVoteReply(m) ==
    LET i == m.mdst
        stale == state[i] # Candidate \/ currentTerm[i] # m.margsTerm
    IN
    /\ m.mtype = "RVResp"
    /\ Discard(m)
    /\ \/ /\ stale
          /\ UNCHANGED <<serverVars, leaderVars, winSignal>>
       \/ /\ ~stale /\ currentTerm[i] < m.mterm
          /\ StepDown(i, m.mterm)
          /\ UNCHANGED <<voteCount, leaderVars, winSignal>>
       \/ /\ ~stale /\ currentTerm[i] >= m.mterm /\ ~m.mvoteGranted
          /\ UNCHANGED <<serverVars, leaderVars, winSignal>>
       \/ /\ ~stale /\ currentTerm[i] >= m.mterm /\ m.mvoteGranted
          /\ voteCount' = [voteCount EXCEPT ![i] = @ + 1]
          /\ IF Majority(voteCount[i] + 1)
             THEN /\ state' = [state EXCEPT ![i] = Leader]
                  /\ nextIndex' = [nextIndex EXCEPT ![i] =
                                     [j \in Server |-> getLastLogIndex(log[i]) + 1]]
                  /\ matchIndex' = [matchIndex EXCEPT ![i] = [j \in Server |-> 0]]
                  /\ winSignal' = [winSignal EXCEPT ![i] = TRUE]
             ELSE UNCHANGED <<state, leaderVars, winSignal>>
          /\ UNCHANGED <<currentTerm, votedFor>>
    /\ UNCHANGED <<logVars, run, rvPending, hbSignal>>
    /\ persist(i)

\* Slip: count > len(rf.peers)/2 written as >= in the commit loop.
CommitTargetHalf(i, mi) ==
    LET lg == log[i]
        last == getLastLogIndex(lg)
        ok(n) == /\ \A k \in n..last : TermAt(lg, k) = currentTerm[i]
                 /\ 1 + Cardinality({p \in Server \ {i} : mi[p] >= n})
                        >= Cardinality(Server) \div 2
        targets == {n \in (commitIndex[i] + 1)..last : ok(n)}
    IN  IF targets = {} THEN commitIndex[i] ELSE Max(targets)

\* The commit loop of sendAppendEntries: the greatest N above commitIndex
\* such that log[N..last] are all of the current term and a majority
\* (the leader and the peers with matchIndex >= N) holds N.
CommitTarget(i, mi) ==
    LET lg == log[i]
        last == getLastLogIndex(lg)
        ok(n) == /\ \A k \in n..last : TermAt(lg, k) = currentTerm[i]
                 /\ Majority(1 + Cardinality({p \in Server \ {i} : mi[p] >= n}))
        targets == {n \in (commitIndex[i] + 1)..last : ok(n)}
    IN  IF targets = {} THEN commitIndex[i] ELSE Max(targets)

\* sendAppendEntries: ignore a reply when no longer leader of that term;
\* step down on a newer term; otherwise move nextIndex/matchIndex and run
\* the commit loop.
AppendEntriesReply(m) ==
    LET i == m.mdst
        j == m.msrc
        last == getLastLogIndex(log[i])
        next == IF ~m.msuccess THEN min(m.mnextTryIndex, last)
                ELSE IF m.mlastSent = Nil THEN nextIndex[i][j] ELSE m.mlastSent + 1
        match == IF m.msuccess /\ m.mlastSent # Nil THEN m.mlastSent ELSE matchIndex[i][j]
        mi == [matchIndex[i] EXCEPT ![j] = match]
        target == CommitTarget(i, mi)
    IN
    /\ m.mtype = "AEResp"
    /\ Discard(m)
    /\ UNCHANGED <<log, lastApplied, applied, driverVars>>
    /\ \/ /\ state[i] # Leader \/ m.margsTerm # currentTerm[i]
          /\ UNCHANGED <<serverVars, leaderVars, commitIndex>>
          /\ UNCHANGED persistVars
       \/ /\ state[i] = Leader /\ m.margsTerm = currentTerm[i]
          /\ m.mterm > currentTerm[i]
          /\ StepDown(i, m.mterm)
          /\ persist(i)
          /\ UNCHANGED <<voteCount, leaderVars, commitIndex>>
       \/ /\ state[i] = Leader /\ m.margsTerm = currentTerm[i]
          /\ m.mterm <= currentTerm[i]
          /\ nextIndex' = [nextIndex EXCEPT ![i][j] = next]
          /\ matchIndex' = [matchIndex EXCEPT ![i] = mi]
          /\ commitIndex' = [commitIndex EXCEPT ![i] = target]
          /\ UNCHANGED serverVars
          /\ UNCHANGED persistVars

\* sendInstallSnapshot: as above, then the peer is known to hold the
\* snapshot point.
InstallSnapshotReply(m) ==
    LET i == m.mdst
        j == m.msrc
    IN
    /\ m.mtype = "ISResp"
    /\ Discard(m)
    /\ UNCHANGED <<logVars, driverVars>>
    /\ \/ /\ state[i] # Leader \/ m.margsTerm # currentTerm[i]
          /\ UNCHANGED <<serverVars, leaderVars>>
          /\ UNCHANGED persistVars
       \/ /\ state[i] = Leader /\ m.margsTerm = currentTerm[i]
          /\ m.mterm > currentTerm[i]
          /\ StepDown(i, m.mterm)
          /\ persist(i)
          /\ UNCHANGED <<voteCount, leaderVars>>
       \/ /\ state[i] = Leader /\ m.margsTerm = currentTerm[i]
          /\ m.mterm <= currentTerm[i]
          /\ nextIndex' = [nextIndex EXCEPT ![i][j] = m.mlastIncludedIndex + 1]
          /\ matchIndex' = [matchIndex EXCEPT ![i][j] = m.mlastIncludedIndex]
          /\ UNCHANGED serverVars
          /\ UNCHANGED persistVars

\* The network loses a request or a reply (Call returns false).  The
\* caller's sendRequestVote still runs its deferred persist.
Drop(m) ==
    /\ LossyNetwork
    /\ Discard(m)
    /\ UNCHANGED <<serverVars, logVars, leaderVars, driverVars>>
    /\ CASE m.mtype = "RVReq"  -> persist(m.msrc)
          [] m.mtype = "RVResp" -> persist(m.mdst)
          [] OTHER              -> UNCHANGED persistVars

-----------------------------------------------------------------------------
(* Crash and Make.  The tester disconnects the replica, copies its         *)
(* persister and calls Make with the copy: what the old instance saves     *)
(* afterwards is lost, and the requests and replies to or from it die with *)
(* its endpoints.                                                          *)

\* Slip: the trimLog call left out of recoverFromSnapshot.
recoverFromSnapshotNoTrim(lg, snap) ==
    IF snap = Nil
    THEN [log |-> lg, commitIndex |-> 0, applied |-> <<>>]
    ELSE [log |-> lg, commitIndex |-> snap.index,
          applied |-> <<Entry(snap.index, snap.term, Nil)>>]

\* recoverFromSnapshot: with a snapshot, lastApplied = commitIndex = its
\* index, the log trimmed to it, and the snapshot sent on the new apply
\* channel.
recoverFromSnapshot(lg, snap) ==
    IF snap = Nil
    THEN [log |-> lg, commitIndex |-> 0, applied |-> <<>>]
    ELSE [log |-> trimLog(lg, snap.index, snap.term), commitIndex |-> snap.index,
          applied |-> <<Entry(snap.index, snap.term, Nil)>>]

\* Make on the persister copy: a follower, readPersist, recoverFromSnapshot,
\* persist, and a new Run goroutine with new channels.
Restart(i) ==
    LET data == saved[i]
        rec == recoverFromSnapshot(data.log, snapshot[i])
    IN
    /\ restarts < MaxRestarts
    /\ restarts' = restarts + 1
    /\ currentTerm' = [currentTerm EXCEPT ![i] = data.currentTerm]
    /\ votedFor' = [votedFor EXCEPT ![i] = data.votedFor]
    /\ state' = [state EXCEPT ![i] = Follower]
    /\ voteCount' = [voteCount EXCEPT ![i] = 0]
    /\ log' = [log EXCEPT ![i] = rec.log]
    /\ commitIndex' = [commitIndex EXCEPT ![i] = rec.commitIndex]
    /\ lastApplied' = [lastApplied EXCEPT ![i] = rec.commitIndex]
    /\ applied' = [applied EXCEPT ![i] = rec.applied]
    /\ nextIndex' = [nextIndex EXCEPT ![i] = [j \in Server |-> 0]]
    /\ matchIndex' = [matchIndex EXCEPT ![i] = [j \in Server |-> 0]]
    /\ run' = [run EXCEPT ![i] = "Loop"]
    /\ rvPending' = [rvPending EXCEPT ![i] = FALSE]
    /\ hbSignal' = [hbSignal EXCEPT ![i] = FALSE]
    /\ winSignal' = [winSignal EXCEPT ![i] = FALSE]
    /\ msgs' = {m \in msgs : i \notin {m.msrc, m.mdst}}
    /\ SaveRaftState(i, RaftState(data.currentTerm, data.votedFor, rec.log))
    /\ runSave' = [runSave EXCEPT ![i] = Nil]
    /\ UNCHANGED snapshot

-----------------------------------------------------------------------------

Next ==
    \/ \E i \in Server :
          \/ FollowerHeartbeat(i) \/ FollowerTimeout(i) \/ RunPersist(i)
          \/ ReadCandidate(i) \/ Campaign(i) \/ broadcastRequestVote(i)
          \/ CandidateHeartbeat(i) \/ CandidateWin(i) \/ CandidateTimeout(i)
          \/ broadcastHeartbeat(i) \/ applyLog(i)
          \/ Start(i)
          \/ \E k \in 1..MaxIndex : CreateSnapshot(i, k)
          \/ Restart(i)
    \/ \E m \in msgs :
          \/ RequestVote(m) \/ RequestVoteReply(m)
          \/ AppendEntries(m) \/ AppendEntriesReply(m)
          \/ InstallSnapshot(m) \/ InstallSnapshotReply(m)
          \/ Drop(m)

Spec == Init /\ [][Next]_vars

-----------------------------------------------------------------------------
(* Properties.                                                             *)

Message ==
    [mtype : {"RVReq", "RVResp", "AEReq", "AEResp", "ISReq", "ISResp"},
     msrc : Server, mdst : Server, mterm : Nat]

TypeOK ==
    /\ currentTerm \in [Server -> 0..(MaxTerm + 1)]
    /\ state \in [Server -> {Follower, Candidate, Leader}]
    /\ votedFor \in [Server -> Server \cup {Nil}]
    /\ voteCount \in [Server -> Nat]
    /\ \A i \in Server : /\ Len(log[i]) >= 1
                         /\ \A p \in 1..Len(log[i]) : log[i][p].index = BaseIndex(log[i]) + p - 1
    /\ commitIndex \in [Server -> Nat] /\ lastApplied \in [Server -> Nat]
    /\ nextIndex \in [Server -> [Server -> Nat]]
    /\ matchIndex \in [Server -> [Server -> Nat]]
    /\ run \in [Server -> {"Loop", "Persist", "Campaign", "Select"}]
    /\ rvPending \in [Server -> BOOLEAN] /\ hbSignal \in [Server -> BOOLEAN]
    /\ winSignal \in [Server -> BOOLEAN]
    /\ \A m \in msgs : [mtype |-> m.mtype, msrc |-> m.msrc, mdst |-> m.mdst,
                        mterm |-> m.mterm] \in Message
    /\ \A i \in Server : /\ saved[i].currentTerm \in 0..(MaxTerm + 1)
                         /\ saved[i].votedFor \in Server \cup {Nil}
                         /\ snapshot[i] = Nil \/ snapshot[i] \in [index : Nat, term : Nat]
    /\ restarts \in 0..MaxRestarts

\* Election safety (spec section 8): no two replicas are leader in the same
\* term.  It rests on RequestVote granting one vote per term and on Run
\* starting a new term only while still a candidate.
ElectionSafety ==
    \A i, j \in Server :
        (i # j /\ state[i] = Leader /\ state[j] = Leader) => currentTerm[i] # currentTerm[j]

\* State machine safety (spec section 8): the apply channels of any two
\* replicas deliver the same command at the same index, so their key-value
\* stores go through the same states.  It rests on commit only at a majority
\* in the leader's own term and on elections preferring up-to-date logs.
StateMachineSafety ==
    \A i, j \in Server :
    \A p \in 1..Len(applied[i]), q \in 1..Len(applied[j]) :
        LET a == applied[i][p]
            b == applied[j][q]
        IN  a.index = b.index =>
                /\ a.term = b.term
                /\ (a.cmd # Nil /\ b.cmd # Nil) => a.cmd = b.cmd

\* The entry at commitIndex is in the log: AppendEntries caps commitIndex
\* at the last index, and applyLog reads rf.log[commitIndex - baseIndex],
\* which panics outside the log.  It rests on AppendEntries never cutting
\* entries the follower has acknowledged, and on the log keeping its
\* sentinel through merges and trims.
CommitWithinLog ==
    \A i \in Server : \E p \in 1..Len(log[i]) : log[i][p].index = commitIndex[i]

\* The KV server sees each replica's apply channel in order: an entry is
\* the one after the previous message, and a snapshot (InstallSnapshot)
\* only moves forward.  kv.applyOp relies on this to apply each command
\* once; it rests on applyLog starting at lastApplied + 1 and on
\* InstallSnapshot only taking snapshots past commitIndex.
AppliedInOrder ==
    \A i \in Server : \A p \in 1..Len(applied[i]) :
        LET before == IF p = 1 THEN 0 ELSE applied[i][p - 1].index
            b == applied[i][p]
        IN  IF b.cmd = Nil THEN b.index > before ELSE b.index = before + 1

\* Commit progress is never undone: no step but a restart lowers a
\* replica's commitIndex or lastApplied (AppendEntries only raises
\* commitIndex when the leader's is higher; applyLog sets lastApplied to
\* commitIndex).
CommitMonotone ==
    [][restarts' = restarts =>
         \A i \in Server : /\ commitIndex'[i] >= commitIndex[i]
                           /\ lastApplied'[i] >= lastApplied[i]]_vars

\* What the persister's snapshot holds is never ahead of the replica: its
\* log starts at or after the snapshot point and its commitIndex has
\* reached it, across crashes.  The raft state saved beside the snapshot
\* can be older than it (Run's unlocked persist may store a state read
\* before an InstallSnapshot), so this rests on recoverFromSnapshot
\* trimming the restored log to the snapshot, and on CreateSnapshot and
\* InstallSnapshot saving the trimmed log with the snapshot.
SnapshotCovered ==
    \A i \in Server :
        snapshot[i] # Nil =>
            /\ BaseIndex(log[i]) >= snapshot[i].index
            /\ commitIndex[i] >= snapshot[i].index

=============================================================================
