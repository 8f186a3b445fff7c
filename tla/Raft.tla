---------------------------------- MODULE Raft ----------------------------------
(* The Raft library (user/libs/raft.cpp) as CeftReplica of                        *)
(* uipcp-normal-ceft.cpp drives it: leader election, log replication with          *)
(* pipelined AppendEntries, the single timer, client requests that wait for their  *)
(* entry to be applied, and restarts from the log file.  Every handler runs under  *)
(* rib->mutex and is one action.                                                   *)
EXTENDS Naturals, Sequences, FiniteSets

CONSTANTS
    Replica,         \* the replicas, all of them peers of each other
    None,            \* the empty replica id, and an absent pending response
    Command,         \* client commands, each submitted once
    ChunkLen,        \* log entries that fit in kMaxLogChunkBytes
    LoneCandidates,  \* no two replicas become candidates in the same term
    MaxTerm, ChannelCap, MaxHeartbeats, MaxLoss, MaxRestart   \* bounds

ASSUME RaftAssumption ==
    /\ None \notin Replica
    /\ ChunkLen \in Nat /\ ChunkLen > 0
    /\ LoneCandidates \in BOOLEAN
    /\ MaxTerm \in Nat /\ ChannelCap \in Nat /\ MaxHeartbeats \in Nat
    /\ MaxLoss \in Nat /\ MaxRestart \in Nat

VARIABLES
    current_term, voted_for, log,    \* on disk; an entry is [term, cmd]
    state, leader_id, votes_collected, last_log_term, commit_index,
    match_index, next_index_acked, next_index_unacked,   \* of each peer
    timer,        \* type of the timer that runs
    pending,      \* client responses waiting, by log index
    net,          \* messages in transit, by sender and receiver, in order
    applied,      \* entries fed to the state machine (last_applied is its length)
    committed,    \* what leaders have committed: [index, entry, term of the leader]
    answered,     \* responses sent: [the command asked for, the one applied]
    submitted, heartbeats, losses, restarts

diskVars == <<current_term, voted_for, log>>
roleVars == <<state, leader_id, votes_collected, timer>>
peerVars == <<match_index, next_index_acked, next_index_unacked>>
smVars == <<commit_index, applied, pending, answered>>
envVars == <<submitted, heartbeats, losses, restarts>>
vars == <<diskVars, roleVars, last_log_term, peerVars, smVars, committed, net, envVars>>

Peers(r) == Replica \ {r}
Channel == Replica \X Replica
LastIndex(r) == Len(log[r])

\* log_entry_get_term(): the term of an entry of a log, 0 for index 0.
TermAt(lg, i) == IF i = 0 THEN 0 ELSE lg[i].term

\* quorum(): ceil(0.5 * (servers.size() + 1)).
quorum == (Cardinality(Replica) + 1) \div 2

--------------------------------------------------------------------------------
(* Output messages and timers.                                                  *)

\* The messages `out` (a sequence for each peer) leave r after `n` was received.
SendFrom(r, out, n) ==
    net' = [c \in Channel |-> IF c[1] = r THEN n[c] \o out[c[2]] ELSE n[c]]

Reply(r, to, m, n) == net' = [n EXCEPT ![<<r, to>>] = Append(@, m)]

Room(r) == \A p \in Peers(r) : Len(net[<<r, p>>]) < ChannelCap
RoomTo(r, p) == Len(net[<<r, p>>]) < ChannelCap

\* The message at the head of the channel from s to r.
Arrives(s, r, type) ==
    net[<<s, r>>] # <<>> /\ Head(net[<<s, r>>]).type = type

Received(s, r) == [net EXCEPT ![<<s, r>>] = Tail(@)]

\* process_sm_output() first executes the Stop commands, then the Restart ones: the
\* timer that was restarted is the one that runs.
RestartTimer(r, type) == timer' = [timer EXCEPT ![r] = type]

\* Mutant of back_to_follower: the heartbeat timer is not stopped.
BackToFollowerKeepTimer(r) ==
    /\ state' = [state EXCEPT ![r] = "Follower"]
    /\ votes_collected' = [votes_collected EXCEPT ![r] = 0]
    /\ UNCHANGED timer

\* back_to_follower(), but for voted_for and leader_id, which its callers set.
back_to_follower(r) ==
    /\ state' = [state EXCEPT ![r] = "Follower"]
    /\ votes_collected' = [votes_collected EXCEPT ![r] = 0]
    /\ RestartTimer(r, "Election")

\* catch_up_term(): a message of a newer term makes r a follower without a vote.
CatchUp(r, term) ==
    /\ term > current_term[r] /\ back_to_follower(r)
    /\ current_term' = [current_term EXCEPT ![r] = term]
    /\ voted_for' = [voted_for EXCEPT ![r] = None]
    /\ leader_id' = [leader_id EXCEPT ![r] = None]

--------------------------------------------------------------------------------
(* prepare_append_entries().                                                    *)

\* How many messages go to a peer whose next entry is `next`: the loop ends as soon
\* as at most one entry is left.
Chunks(lg, next) ==
    IF Len(lg) <= next + ChunkLen THEN 1 ELSE (Len(lg) - next + ChunkLen - 1) \div ChunkLen

\* next_index_unacked after sending `chunks` messages.
NextAfter(lg, next, chunks) ==
    IF next + chunks * ChunkLen > Len(lg) THEN Len(lg) + 1 ELSE next + chunks * ChunkLen

AppendEntriesMsg(r, lg, from, to) ==
    [type |-> "ae", term |-> current_term[r], leader_id |-> r,
     leader_commit |-> commit_index[r], prev_log_index |-> from - 1,
     prev_log_term |-> TermAt(lg, from - 1), entries |-> SubSeq(lg, from, to)]

\* The messages to a peer, the first one starting at entry `next`.
AppendEntriesTo(r, lg, next) ==
    [k \in 1..Chunks(lg, next) |->
        AppendEntriesMsg(r, lg, NextAfter(lg, next, k - 1), NextAfter(lg, next, k) - 1)]

\* Everything from start[p] on is sent to each peer p.
prepare_append_entries(r, lg, start, n) ==
    /\ next_index_unacked' = [next_index_unacked EXCEPT ![r] =
           [p \in Peers(r) |-> NextAfter(lg, start[p], Chunks(lg, start[p]))]]
    /\ SendFrom(r, [p \in Replica |-> IF p = r THEN <<>> ELSE AppendEntriesTo(r, lg, start[p])], n)

--------------------------------------------------------------------------------
(* Applying entries.                                                            *)

\* Mutant of ResponseDue: the term of the pending response is not compared.
ResponseDueAnyTerm(r, lg, i) == TRUE

\* apply() sends the pending response at index i if the entry that is applied there is of
\* the term in which the request was submitted.
ResponseDue(r, lg, i) == pending[r][i].term = lg[i].term

\* apply_committed_entries() up to index `upto` of `lg`, with the apply() of
\* CeftReplica: a pending response at an applied index is forgotten in any case.
ApplyUpTo(r, lg, upto) ==
    LET done == {i \in DOMAIN pending[r] : Len(applied[r]) < i /\ i <= upto}
    IN  /\ commit_index' = [commit_index EXCEPT ![r] = upto]
        /\ applied' = [applied EXCEPT ![r] = @ \o SubSeq(lg, Len(@) + 1, upto)]
        /\ pending' = [pending EXCEPT ![r] = [i \in DOMAIN @ \ done |-> @[i]]]
        /\ answered' = answered \cup
             {[asked |-> pending[r][i].cmd, got |-> lg[i].cmd] :
                 i \in {j \in done : ResponseDue(r, lg, j)}}

--------------------------------------------------------------------------------
(* Timers.                                                                      *)

\* timer_expired(Election): become a candidate and ask for votes.
ElectionTimeout(r) ==
    /\ timer[r] = "Election" /\ state[r] # "Leader" /\ Room(r)
    /\ current_term[r] < MaxTerm
    /\ LoneCandidates => \A p \in Replica : current_term[p] <= current_term[r]
    /\ state' = [state EXCEPT ![r] = "Candidate"]
    /\ current_term' = [current_term EXCEPT ![r] = @ + 1]
    /\ voted_for' = [voted_for EXCEPT ![r] = r]
    /\ votes_collected' = [votes_collected EXCEPT ![r] = 1]
    /\ leader_id' = [leader_id EXCEPT ![r] = None]
    /\ SendFrom(r, [p \in Replica |-> IF p = r THEN <<>> ELSE
           <<[type |-> "rv", term |-> current_term[r] + 1, candidate_id |-> r,
              last_log_index |-> LastIndex(r), last_log_term |-> last_log_term[r]]>>], net)
    /\ UNCHANGED <<log, timer, last_log_term, peerVars, smVars, committed, envVars>>

\* timer_expired(HeartBeat): what was not sent yet goes to every peer, and what was not
\* acknowledged to the peers `rtx` whose RtxTimeout has passed.
HeartbeatTimeout(r) ==
    /\ timer[r] = "HeartBeat" /\ heartbeats < MaxHeartbeats /\ heartbeats' = heartbeats + 1
    /\ \E rtx \in SUBSET Peers(r) :
         prepare_append_entries(r, log[r],
             [p \in Peers(r) |-> IF p \in rtx THEN next_index_acked[r][p]
                                 ELSE next_index_unacked[r][p]], net)
    /\ UNCHANGED <<diskVars, roleVars, last_log_term, match_index, next_index_acked, smVars,
                   committed, submitted, losses, restarts>>

--------------------------------------------------------------------------------
(* Input messages.                                                              *)


\* The candidate's log is at least as up-to-date as ours.
UpToDate(r, m) ==
    \/ m.last_log_term > last_log_term[r]
    \/ m.last_log_term = last_log_term[r] /\ m.last_log_index >= LastIndex(r)

VoteReply(r, s, term, granted) ==
    Reply(r, s, [type |-> "rvr", term |-> term, vote_granted |-> granted], Received(s, r))

\* request_vote_input(), for a request of an old, the current or a new term.
request_vote_input(s, r) ==
    /\ Arrives(s, r, "rv") /\ RoomTo(r, s)
    /\ LET m == Head(net[<<s, r>>])
           free == m.term > current_term[r] \/ voted_for[r] = None
           granted == m.term >= current_term[r] /\ free /\ UpToDate(r, m)
       IN  /\ IF m.term > current_term[r]
              THEN /\ back_to_follower(r)
                   /\ current_term' = [current_term EXCEPT ![r] = m.term]
                   /\ leader_id' = [leader_id EXCEPT ![r] = None]
                   /\ voted_for' = [voted_for EXCEPT ![r] = IF granted THEN s ELSE None]
              ELSE /\ UNCHANGED <<current_term, roleVars>>
                   /\ voted_for' = [voted_for EXCEPT ![r] = IF granted THEN s ELSE @]
           /\ VoteReply(r, s, current_term'[r], granted)
    /\ UNCHANGED <<log, last_log_term, peerVars, smVars, committed, envVars>>

\* The last vote that was missing makes r leader (request_vote_resp_input()).
BecomeLeader(r, n) ==
    LET start == [p \in Peers(r) |-> LastIndex(r) + 1]
    IN  /\ state' = [state EXCEPT ![r] = "Leader"]
        /\ leader_id' = [leader_id EXCEPT ![r] = r]
        /\ RestartTimer(r, "HeartBeat")
        /\ match_index' = [match_index EXCEPT ![r] = [p \in Peers(r) |-> 0]]
        /\ next_index_acked' = [next_index_acked EXCEPT ![r] = start]
        /\ prepare_append_entries(r, log[r], start, n)

\* request_vote_resp_input(); it does not ask whether r still is a candidate.
request_vote_resp_input(s, r) ==
    /\ Arrives(s, r, "rvr") /\ Room(r)
    /\ LET m == Head(net[<<s, r>>])
           counts == m.term = current_term[r] /\ state[r] # "Leader" /\ m.vote_granted
       IN  \/ /\ CatchUp(r, m.term)
              /\ net' = Received(s, r) /\ UNCHANGED peerVars
           \/ /\ m.term <= current_term[r] /\ ~counts
              /\ net' = Received(s, r)
              /\ UNCHANGED <<current_term, voted_for, roleVars, peerVars>>
           \/ /\ counts
              /\ votes_collected' = [votes_collected EXCEPT ![r] = @ + 1]
              /\ IF votes_collected[r] + 1 < quorum
                 THEN /\ net' = Received(s, r)
                      /\ UNCHANGED <<state, leader_id, timer, peerVars>>
                 ELSE BecomeLeader(r, Received(s, r))
              /\ UNCHANGED <<current_term, voted_for>>
    /\ UNCHANGED <<log, last_log_term, smVars, committed, envVars>>

\* The entries of an AppendEntries continue our log.
EntriesFit(r, m) ==
    /\ m.prev_log_index <= LastIndex(r)
    /\ m.prev_log_term = TermAt(log[r], m.prev_log_index)


\* Mutant of LogWith: the entries get the term of the message.
LogWithNewTerm(r, m) ==
    SubSeq(log[r], 1, m.prev_log_index) \o
        [k \in DOMAIN m.entries |-> [m.entries[k] EXCEPT !.term = m.term]]

\* log_truncate() and append_log_entry() for each entry.
LogWith(r, m) == SubSeq(log[r], 1, m.prev_log_index) \o m.entries

AppendReply(r, s, index, success) ==
    Reply(r, s, [type |-> "aer", term |-> current_term'[r], follower_id |-> r,
                 log_index |-> index, success |-> success], Received(s, r))

\* append_entries_input() for a sender of an old term: only a negative answer.
AppendEntriesOutdated(s, r) ==
    /\ Arrives(s, r, "ae") /\ RoomTo(r, s) /\ Head(net[<<s, r>>]).term < current_term[r]
    /\ UNCHANGED <<diskVars, roleVars, last_log_term, peerVars, smVars, committed, envVars>>
    /\ AppendReply(r, s, Head(net[<<s, r>>]).prev_log_index, FALSE)


CommitMoves(r, m) == m.leader_commit > commit_index[r]

\* append_entries_input() otherwise: follow the sender, which clears the vote, take the
\* entries that fit, then the commit index of the leader, also on a heartbeat.
append_entries_input(s, r) ==
    /\ Arrives(s, r, "ae") /\ RoomTo(r, s) /\ Head(net[<<s, r>>]).term >= current_term[r]
    /\ LET m == Head(net[<<s, r>>])
           fit == m.entries # <<>> /\ EntriesFit(r, m)
           lg == IF fit THEN LogWith(r, m) ELSE log[r]
           upto == IF m.leader_commit < Len(lg) THEN m.leader_commit ELSE Len(lg)
       IN  /\ back_to_follower(r)
           /\ current_term' = [current_term EXCEPT ![r] = m.term]
           /\ voted_for' = [voted_for EXCEPT ![r] = None]
           /\ leader_id' = [leader_id EXCEPT ![r] = m.leader_id]
           /\ log' = [log EXCEPT ![r] = lg]
           /\ last_log_term' = [last_log_term EXCEPT ![r] = IF fit THEN TermAt(lg, Len(lg)) ELSE @]
           /\ IF CommitMoves(r, m) THEN ApplyUpTo(r, lg, upto) ELSE UNCHANGED smVars
           /\ IF m.entries = <<>> THEN net' = Received(s, r)
              ELSE AppendReply(r, s, IF fit THEN Len(lg) ELSE m.prev_log_index, fit)
    /\ UNCHANGED <<peerVars, committed, envVars>>

\* match_indices_quorum: enough peers, with ourselves, have entry i.
QuorumMatches(r, match, i) ==
    \E p \in Peers(r) : match[p] >= i /\ Cardinality({q \in Peers(r) : match[q] >= i}) >= quorum - 1

\* The highest index a quorum has, starting from the commit index.
NextCommit(r, match) ==
    CHOOSE n \in commit_index[r]..(LastIndex(r) + 1) :
        /\ \A i \in (commit_index[r] + 1)..n : QuorumMatches(r, match, i)
        /\ n = LastIndex(r) + 1 \/ ~QuorumMatches(r, match, n + 1)

\* A positive answer moves the indices of the follower forward and may commit.
AppendAccepted(r, m) ==
    LET f == m.follower_id
        forward == m.log_index + 1 >= next_index_acked[r][f]
        match == IF forward THEN [match_index[r] EXCEPT ![f] = m.log_index] ELSE match_index[r]
        n == NextCommit(r, match)
        commits == /\ n # commit_index[r] /\ n <= LastIndex(r)
                   /\ log[r][n].term = current_term[r]
    IN  /\ match_index' = [match_index EXCEPT ![r] = match]
        /\ next_index_acked' =
             IF forward THEN [next_index_acked EXCEPT ![r][f] = m.log_index + 1] ELSE next_index_acked
        /\ UNCHANGED next_index_unacked
        /\ IF commits
           THEN /\ ApplyUpTo(r, log[r], n)
                /\ committed' = committed \cup
                     {[index |-> i, entry |-> log[r][i], term |-> current_term[r]] :
                         i \in (commit_index[r] + 1)..n}
           ELSE UNCHANGED <<smVars, committed>>

\* A negative answer moves them back.
AppendRefused(r, m) ==
    LET f == m.follower_id
        lower == IF m.log_index < next_index_acked[r][f] THEN m.log_index
                 ELSE next_index_acked[r][f] - 1
        next == IF lower > 1 THEN lower ELSE 1
    IN  /\ next_index_acked' = [next_index_acked EXCEPT ![r][f] = next]
        /\ next_index_unacked' = [next_index_unacked EXCEPT ![r][f] = next]
        /\ UNCHANGED <<match_index, smVars, committed>>

\* append_entries_resp_input().
append_entries_resp_input(s, r) ==
    /\ Arrives(s, r, "aer")
    /\ LET m == Head(net[<<s, r>>])
       IN  \/ /\ CatchUp(r, m.term)
              /\ UNCHANGED <<peerVars, smVars, committed>>
           \/ /\ m.term < current_term[r]
              /\ UNCHANGED <<current_term, voted_for, roleVars, peerVars, smVars, committed>>
           \/ /\ m.term = current_term[r]
              /\ IF m.success THEN AppendAccepted(r, m) ELSE AppendRefused(r, m)
              /\ UNCHANGED <<current_term, voted_for, roleVars>>
    /\ net' = Received(s, r)
    /\ UNCHANGED <<log, last_log_term, envVars>>

--------------------------------------------------------------------------------
(* Clients, losses and restarts.                                                *)

\* A client's command reaches a leader: submit(), and the response becomes pending.
Submit(r) ==
    /\ state[r] = "Leader" /\ Room(r)
    /\ \E c \in Command \ submitted :
         LET lg == Append(log[r], [term |-> current_term[r], cmd |-> c])
         IN  /\ submitted' = submitted \cup {c}
             /\ log' = [log EXCEPT ![r] = lg]
             /\ last_log_term' = [last_log_term EXCEPT ![r] = current_term[r]]
             /\ prepare_append_entries(r, lg, next_index_unacked[r], net)
             /\ pending' = [pending EXCEPT ![r] = [i \in DOMAIN @ \cup {Len(lg)} |->
                    IF i = Len(lg) THEN [term |-> current_term[r], cmd |-> c] ELSE @[i]]]
    /\ UNCHANGED <<current_term, voted_for, roleVars, match_index, next_index_acked,
                   commit_index, applied, answered, committed, heartbeats, losses, restarts>>

\* A message is lost.
Lose(s, r) ==
    /\ net[<<s, r>>] # <<>> /\ losses < MaxLoss
    /\ net' = Received(s, r) /\ losses' = losses + 1
    /\ UNCHANGED <<diskVars, roleVars, last_log_term, peerVars, smVars, committed, submitted, heartbeats, restarts>>

\* The daemon of r is restarted: init() recovers what the log file holds.
Restart(r) ==
    /\ restarts < MaxRestart /\ restarts' = restarts + 1
    /\ state' = [state EXCEPT ![r] = "Follower"]
    /\ leader_id' = [leader_id EXCEPT ![r] = None]
    /\ votes_collected' = [votes_collected EXCEPT ![r] = 0]
    /\ RestartTimer(r, "Election")
    /\ last_log_term' = [last_log_term EXCEPT ![r] = 0]
    /\ commit_index' = [commit_index EXCEPT ![r] = 0]
    /\ applied' = [applied EXCEPT ![r] = <<>>]
    /\ pending' = [pending EXCEPT ![r] = <<>>]
    /\ match_index' = [match_index EXCEPT ![r] = [p \in Peers(r) |-> 0]]
    /\ next_index_acked' = [next_index_acked EXCEPT ![r] = [p \in Peers(r) |-> LastIndex(r) + 1]]
    /\ next_index_unacked' = [next_index_unacked EXCEPT ![r] = [p \in Peers(r) |-> LastIndex(r) + 1]]
    /\ UNCHANGED <<diskVars, net, answered, committed, submitted, heartbeats, losses>>

Init ==
    /\ current_term = [r \in Replica |-> 0] /\ voted_for = [r \in Replica |-> None]
    /\ log = [r \in Replica |-> <<>>]
    /\ state = [r \in Replica |-> "Follower"] /\ leader_id = [r \in Replica |-> None]
    /\ votes_collected = [r \in Replica |-> 0] /\ last_log_term = [r \in Replica |-> 0]
    /\ commit_index = [r \in Replica |-> 0] /\ applied = [r \in Replica |-> <<>>]
    /\ match_index = [r \in Replica |-> [p \in Peers(r) |-> 0]]
    /\ next_index_acked = [r \in Replica |-> [p \in Peers(r) |-> 1]]
    /\ next_index_unacked = [r \in Replica |-> [p \in Peers(r) |-> 1]]
    /\ timer = [r \in Replica |-> "Election"] /\ pending = [r \in Replica |-> <<>>]
    /\ net = [c \in Channel |-> <<>>]
    /\ committed = {} /\ answered = {} /\ submitted = {} /\ heartbeats = 0 /\ losses = 0 /\ restarts = 0

Next ==
    \/ \E r \in Replica :
         ElectionTimeout(r) \/ HeartbeatTimeout(r) \/ Submit(r) \/ Restart(r)
    \/ \E s, r \in Replica :
         \/ request_vote_input(s, r) \/ request_vote_resp_input(s, r)
         \/ AppendEntriesOutdated(s, r) \/ append_entries_input(s, r)
         \/ append_entries_resp_input(s, r) \/ Lose(s, r)

Spec == Init /\ [][Next]_vars

--------------------------------------------------------------------------------
(* Properties.                                                                  *)

\* Entries of the same term at the same index head identical logs.
LogMatching ==
    \A r, s \in Replica : \A i \in 1..LastIndex(r) :
        i <= LastIndex(s) /\ log[r][i].term = log[s][i].term
            => SubSeq(log[r], 1, i) = SubSeq(log[s], 1, i)



\* A client is told of the result of its own command: the entry applied at the index of
\* its pending response is the one that was submitted for it.
ResponseIsForCommand == \A a \in answered : a.asked = a.got

\* "One and only one timer is active at all times": the heartbeat timer of a leader,
\* the election timer of everybody else.
TimerMatchesRole == \A r \in Replica : timer[r] = (IF state[r] = "Leader" THEN "HeartBeat" ELSE "Election")


\* "Each term has one and only one leader."
ElectionSafety ==
    \A r, s \in Replica :
        state[r] = "Leader" /\ state[s] = "Leader" /\ current_term[r] = current_term[s] => r = s
================================================================================
