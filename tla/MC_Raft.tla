------------------------------- MODULE MC_Raft -------------------------------
(* Three replicas, terms and logs bounded by the cfg. *)
EXTENDS Raft, TLC, FiniteSets

CONSTANTS s1, s2, s3,
          MaxInFlight   \* bound on requests and replies in the network at once

MCServer == {s1, s2, s3}

\* A two-replica cluster: a majority is both replicas.
MCServer2 == {s1, s2}


InFlightBound == Cardinality(msgs) <= MaxInFlight

\* At most one replica campaigns at a time (a scope for the replication
\* runs; MC_Raft_election.cfg lets campaigns overlap).
OneCampaign == Cardinality({i \in Server : state[i] = Candidate}) <= 1

\* nextIndex and matchIndex are read only while leader and reset on winning;
\* voteCount is read only while candidate and reset by Campaign.  States
\* that differ only in these stale values behave alike.
LiveLeaderVars == [i \in Server |->
                      IF state[i] = Leader THEN <<nextIndex[i], matchIndex[i]>> ELSE Nil]
LiveVoteCount == [i \in Server |-> IF state[i] = Candidate THEN voteCount[i] ELSE 0]
\* The saved raft state is read back only by Restart: once no restart is
\* left it is left out of the view (the snapshot header stays, as
\* SnapshotCovered reads it).
LivePersistVars == IF restarts = MaxRestarts THEN <<snapshot, restarts>> ELSE persistVars
StateView == <<currentTerm, state, votedFor, LiveVoteCount, log, commitIndex, lastApplied,
               applied, LiveLeaderVars, run, rvPending, hbSignal, winSignal, msgs,
               LivePersistVars>>

Symmetry == Permutations(Server)

=============================================================================
