---------------------------------- MODULE Dtp ----------------------------------
(* The EFCP data transfer machine of a normal IPCP (kernel/normal.c): the two   *)
(* ends of one flow, one direction of it: the send half of struct dtp at the    *)
(* writing end, its receive half at the reading end, and `dnet` and `cnet`, the *)
(* data and control PDUs in transit between them.                               *)
(*                                                                              *)
(* Every critical section under dtp->lock is one action.  PDUs are handed to    *)
(* rmt_tx() after the unlock: the transit queues stand for that delay too.      *)
(* SDUs go up to rl_sdu_rx_flow() after the unlock, and two receiving contexts  *)
(* can race there: `rxp` holds what each of them has still to hand over.        *)
(* Timers carry no clock: a pending timer fires at any moment, except where the *)
(* ratio between two intervals of the code forbids it (see SndInactTmr).        *)
EXTENDS Integers, Sequences, FiniteSets, Queues

CONSTANTS
    FlowCtrl,       \* DTCP_CFG_FLOW_CTRL with fc_type RLITE_FC_T_WIN
    RtxCtrl,        \* DTCP_CFG_RTX_CTRL
    Shaper,         \* dtcp.bandwidth # 0: the token bucket may put the writer to sleep
    Initiator,      \* the writing end is the one that asked for the flow
    InOrder,        \* in_order_delivery
    MaxSduGap,      \* max_sdu_gap
    InitialCredit,  \* dtcp.fc.cfg.w.initial_credit
    MaxCwqLen,      \* dtcp.fc.cfg.w.max_cwq_len
    MaxRtxqLen,     \* dtcp.rtx.max_rtxq_len
    InitialA,       \* dtcp.initial_a
    UpperIpcp,      \* the reading end is an upper IPCP, not an application
    CgwinMin, CgwinMax, SeqqMaxLen, RxqSizeMax, \* the #defines, scaled down
    RxCpu           \* contexts that run rl_normal_sdu_rx() for this flow

CONSTANTS
    Reorder,        \* PDUs overtake each other in transit
    DrfProtected,   \* the DRF PDU is not lost, overtaken or retransmitted
    ExactRtx,       \* the retransmission timeout exceeds the round trip
    MaxSdus, MaxDataLoss, MaxCtrlLoss, MaxRtx, MaxSndInact, MaxRcvInact,
    MaxEagain, MaxOom   \* bounds on how often each event happens

\* The flags that bring in the acknowledgements (rl_normal_sdu_rx_consumed()).
Controlled == FlowCtrl \/ RtxCtrl

\* DTCP_PRESENT() at either end: policies2flowcfg() does not give the flow of the
\* target DTCP_CFG_SHAPER.
SndDtcpPresent == Controlled \/ (Shaper /\ Initiator)
RcvDtcpPresent == Controlled \/ (Shaper /\ ~Initiator)

ASSUME ConfigAssumption ==
    /\ FlowCtrl \in BOOLEAN /\ RtxCtrl \in BOOLEAN /\ Shaper \in BOOLEAN
    /\ Initiator \in BOOLEAN /\ InOrder \in BOOLEAN /\ UpperIpcp \in BOOLEAN
    /\ MaxSduGap \in Nat /\ InitialCredit \in Nat /\ MaxCwqLen \in Nat
    /\ InitialA \in Nat /\ SeqqMaxLen \in Nat /\ RxqSizeMax \in Nat
    /\ MaxRtxqLen \in Nat \ {0}      \* rl_normal_flow_init() refuses zero
    /\ CgwinMin \in Nat \ {0} /\ CgwinMax \in Nat
    /\ RtxCtrl => FlowCtrl /\ MaxSduGap = 0     \* what flowspec2flowcfg() builds

ASSUME EnvAssumption ==
    /\ Reorder \in BOOLEAN /\ DrfProtected \in BOOLEAN /\ ExactRtx \in BOOLEAN
    /\ MaxSdus \in Nat /\ MaxDataLoss \in Nat /\ MaxCtrlLoss \in Nat /\ MaxRtx \in Nat
    /\ MaxSndInact \in Nat /\ MaxRcvInact \in Nat /\ MaxEagain \in Nat /\ MaxOom \in Nat

VARIABLES   \* the send half of struct dtp
    next_seq_num_to_use, snd_lwe, snd_rwe, last_seq_num_sent,
    last_ctrl_seq_num_rcvd, cwq, rtxq, cgwin,
    acked,      \* ghost: one past the last sequence number an ACK took out of the rtxq
    cwq_late    \* ghost: PDUs that left the cwq since snd_inact_tmr was last started

VARIABLES   \* the receive half
    rcv_lwe, rcv_next_seq_num, rcv_rwe, last_lwe_sent, last_seq_num_acked,
    next_snd_ctl_seq, seqq

VARIABLES
    flags,      \* the DTP_F_ flags that are set, at either end
    tmrs,       \* the timers that are pending, and "rtx_cb" while rtx_tmr_cb() runs
    dnet, cnet, \* PDUs in transit, oldest first
    rxp,        \* SDUs each receiving context took under the lock, not yet queued
    rx_q,       \* flow->txrx.rx_q
    writer,     \* "run", or "sleep" in rl_io_write_iter() after -EAGAIN
    written,    \* SDUs write() accepted so far; SDU k is the k-th of them
    delivered,  \* SDUs the reading end got, in the order it got them
    used        \* how often each bounded event happened

sndSeq == <<next_seq_num_to_use, last_seq_num_sent, cwq>>
sndWin == <<snd_lwe, snd_rwe, last_ctrl_seq_num_rcvd>>
sndRtx == <<rtxq, acked>>
sndVars == <<sndSeq, sndWin, sndRtx, cgwin, cwq_late>>
rcvVars == <<rcv_lwe, rcv_next_seq_num, rcv_rwe, last_lwe_sent, last_seq_num_acked,
             next_snd_ctl_seq, seqq>>
ioVars == <<rxp, rx_q, delivered>>
vars == <<sndVars, rcvVars, flags, tmrs, dnet, cnet, ioVars, writer, written, used>>

SDU == 1..MaxSdus
DataPdu == [seqnum : Nat, drf : BOOLEAN, sdu : SDU]
CtrlPdu == [seqnum : Nat, fc : BOOLEAN, ack : BOOLEAN, ack_nack_seq_num : Nat,
            new_rwe : Nat, new_lwe : Nat]
RxItem == [sdu : SDU, cons_seqnum : Nat]
Flag == {"DRF_SET", "DRF_EXPECTED"}
Tmr == {"rtx", "rtx_cb", "snd_inact", "a", "rcv_inact"}
Event == {"dloss", "closs", "rtx", "sinact", "rinact", "eagain", "oom"}

Credit == IF FlowCtrl THEN InitialCredit ELSE 0

Init ==
    /\ next_seq_num_to_use = 0 /\ snd_lwe = 0 /\ snd_rwe = Credit
    /\ last_seq_num_sent = -1 /\ last_ctrl_seq_num_rcvd = 0
    /\ cwq = <<>> /\ rtxq = <<>> /\ cgwin = CgwinMin /\ acked = 0 /\ cwq_late = 0
    /\ rcv_lwe = 0 /\ rcv_next_seq_num = 0 /\ rcv_rwe = Credit
    /\ last_lwe_sent = 0 /\ last_seq_num_acked = 0 /\ next_snd_ctl_seq = 0
    /\ seqq = <<>>
    /\ flags = {"DRF_SET", "DRF_EXPECTED"} /\ tmrs = {}
    /\ dnet = <<>> /\ cnet = <<>>
    /\ rxp = [c \in RxCpu |-> <<>>] /\ rx_q = <<>> /\ delivered = <<>>
    /\ writer = "run" /\ written = 0
    /\ used = [e \in Event |-> 0]

\* a - b > k and a - b >= k in the unsigned arithmetic of the code.
UGt(a, b, k) == a < b \/ a - b > k
UGe(a, b, k) == a < b \/ a - b >= k

Spend(e, max) == used[e] < max /\ used' = [used EXCEPT ![e] = @ + 1]

--------------------------------------------------------------------------------
(* Writing: rl_io_write_iter() calling rl_normal_sdu_write().                   *)

flow_blocked ==
    \/ FlowCtrl /\ next_seq_num_to_use > snd_rwe /\ Len(cwq) >= MaxCwqLen
    \/ RtxCtrl /\ \/ UGt(next_seq_num_to_use, snd_lwe, cgwin)
                  \/ Len(rtxq) >= MaxRtxqLen

NewPdu == [seqnum |-> next_seq_num_to_use, drf |-> "DRF_SET" \in flags,
           sdu |-> written + 1]

MayWrite == writer = "run" /\ written < MaxSdus

\* The token bucket is short of bytes: sleep without the inactivity timer.
TokenBucketSleep ==
    /\ Shaper /\ MayWrite
    /\ tmrs' = tmrs \ {"snd_inact"}
    /\ UNCHANGED <<sndVars, rcvVars, flags, dnet, cnet, ioVars, writer, written, used>>

SduWriteBlocked ==
    /\ MayWrite /\ flow_blocked
    /\ tmrs' = tmrs \ {"snd_inact"}
    /\ writer' = "sleep"
    /\ UNCHANGED <<sndVars, rcvVars, flags, dnet, cnet, ioVars, written, used>>

TakeSeqnum ==
    /\ MayWrite /\ ~flow_blocked
    /\ next_seq_num_to_use' = next_seq_num_to_use + 1
    /\ flags' = flags \ {"DRF_SET"}
    /\ UNCHANGED <<sndWin, cgwin, rcvVars, cnet, ioVars, writer>>

\* Beyond the window: into the closed window queue, snd_inact_tmr as it was.
SduWriteCwq ==
    /\ FlowCtrl /\ next_seq_num_to_use > snd_rwe
    /\ TakeSeqnum
    /\ cwq' = Append(cwq, NewPdu)
    /\ written' = written + 1
    /\ UNCHANGED <<last_seq_num_sent, sndRtx, cwq_late, tmrs, dnet, used>>

\* Mutant of InWindow: the window edge is off by one.
InWindowOffByOne ==
    /\ FlowCtrl => next_seq_num_to_use <= snd_rwe + 1
    /\ TakeSeqnum
    /\ last_seq_num_sent' = next_seq_num_to_use
    /\ UNCHANGED cwq

InWindow ==
    /\ FlowCtrl => next_seq_num_to_use <= snd_rwe
    /\ TakeSeqnum
    /\ last_seq_num_sent' = IF FlowCtrl \/ ~SndDtcpPresent THEN next_seq_num_to_use
                            ELSE last_seq_num_sent
    /\ UNCHANGED cwq

\* Mutant of PushAndArm: rtx_tmr is not started.
PushNotArmed(pdus) ==
    /\ rtxq' = IF RtxCtrl THEN rtxq \o pdus ELSE rtxq
    /\ tmrs' = tmrs \cup {"snd_inact"}
    /\ cwq_late' = 0
    /\ UNCHANGED acked

\* rl_rtxq_push() of the clones of `pdus`, and snd_inact_tmr.
PushAndArm(pdus) ==
    /\ rtxq' = IF RtxCtrl THEN rtxq \o pdus ELSE rtxq
    /\ tmrs' = tmrs \cup (IF RtxCtrl THEN {"rtx"} ELSE {})
                   \cup (IF SndDtcpPresent THEN {"snd_inact"} ELSE {})
    /\ cwq_late' = IF SndDtcpPresent THEN 0 ELSE cwq_late
    /\ UNCHANGED acked

SduWriteTx ==
    /\ InWindow /\ PushAndArm(<<NewPdu>>)
    /\ dnet' = Append(dnet, NewPdu)
    /\ written' = written + 1
    /\ UNCHANGED used

\* No memory for the rtxq clone: write() fails, the sequence number is spent.
SduWriteOom ==
    /\ RtxCtrl /\ InWindow
    /\ Spend("oom", MaxOom)
    /\ UNCHANGED <<sndRtx, cwq_late, tmrs, dnet, written>>

\* A non-blocking write that rmt_tx() answers with -EAGAIN: write() fails, the
\* sequence number (and the DRF flag) is spent.
SduWriteEagain ==
    /\ ~RtxCtrl /\ InWindow /\ PushAndArm(<<>>)
    /\ Spend("eagain", MaxEagain)
    /\ UNCHANGED <<dnet, written>>

SduWrite == \/ TokenBucketSleep \/ SduWriteBlocked \/ SduWriteCwq \/ SduWriteTx
            \/ SduWriteOom \/ SduWriteEagain

--------------------------------------------------------------------------------
(* The send half: control PDUs and timers.                                      *)

DuplicateCtrl(c) ==
    /\ c.seqnum <= last_ctrl_seq_num_rcvd + 1
    /\ last_ctrl_seq_num_rcvd # 0 /\ c.seqnum <= last_ctrl_seq_num_rcvd

WindowBackward(c) == c.new_rwe < snd_rwe \/ c.new_lwe < snd_lwe
WindowMoves(c) == c.fc /\ ~WindowBackward(c)

\* How many PDUs the new right edge lets out of the cwq.  The initial
\* last_seq_num_sent is -1, the largest unsigned number.
CwqOpen(c) ==
    IF ~WindowMoves(c) \/ last_seq_num_sent = -1 \/ last_seq_num_sent >= c.new_rwe THEN 0
    ELSE IF Len(cwq) <= c.new_rwe - last_seq_num_sent
         THEN Len(cwq) ELSE c.new_rwe - last_seq_num_sent

\* Mutant of WindowUpdate: last_seq_num_sent stays behind what leaves the cwq.
WindowUpdateUncounted(c) ==
    /\ snd_rwe' = IF WindowMoves(c) THEN c.new_rwe ELSE snd_rwe
    /\ snd_lwe' = IF WindowMoves(c) THEN c.new_lwe ELSE snd_lwe
    /\ cwq' = PopFront(cwq, CwqOpen(c))
    /\ dnet' = dnet \o SubSeq(cwq, 1, CwqOpen(c))
    /\ UNCHANGED <<last_seq_num_sent, cwq_late>>

WindowUpdate(c) ==
    /\ snd_rwe' = IF WindowMoves(c) THEN c.new_rwe ELSE snd_rwe
    /\ snd_lwe' = IF WindowMoves(c) THEN c.new_lwe ELSE snd_lwe
    /\ cwq' = PopFront(cwq, CwqOpen(c))
    /\ last_seq_num_sent' = last_seq_num_sent + CwqOpen(c)
    /\ cwq_late' = IF CwqOpen(c) > 0 THEN 1 ELSE cwq_late
    /\ dnet' = dnet \o SubSeq(cwq, 1, CwqOpen(c))

\* Mutant of AckUpdate: the PDU the receiver expects next counts as acknowledged.
AckUpdateOneMore(c, q) ==
    LET n == IF c.ack THEN Below(q, c.ack_nack_seq_num + 1) ELSE 0
    IN  /\ rtxq' = PopFront(q, n)
        /\ tmrs' = IF n < Len(q) THEN tmrs \cup {"rtx"} ELSE tmrs \ {"rtx"}
        /\ acked' = IF n = 0 THEN acked ELSE q[n].seqnum + 1
        /\ UNCHANGED cgwin

\* q is the rtxq with the PDUs from the cwq: an ACK removes what it covers.
AckUpdate(c, q) ==
    LET n == IF c.ack THEN Below(q, c.ack_nack_seq_num) ELSE 0
    IN  /\ rtxq' = PopFront(q, n)
        /\ tmrs' = IF n < Len(q) /\ (c.ack \/ q # rtxq) THEN tmrs \cup {"rtx"}
                   ELSE IF n = Len(q) /\ c.ack THEN tmrs \ {"rtx"} ELSE tmrs
        /\ acked' = IF n = 0 THEN acked ELSE q[n].seqnum + 1
        /\ cgwin' = IF ~c.ack \/ cgwin >= CgwinMax THEN cgwin
                    ELSE IF used["rtx"] > 0 THEN cgwin + 1 ELSE 2 * cgwin

\* Mutant of SduRxCtrl: PDUs leave the cwq without a clone in the rtxq.
SduRxCtrlNoClone(i) ==
    /\ IF DuplicateCtrl(cnet[i])
       THEN UNCHANGED <<sndVars, tmrs, dnet>>
       ELSE /\ last_ctrl_seq_num_rcvd' = cnet[i].seqnum
            /\ WindowUpdate(cnet[i]) /\ AckUpdate(cnet[i], rtxq)
            /\ UNCHANGED next_seq_num_to_use
    /\ cnet' = DropAt(cnet, i)
    /\ writer' = "run"
    /\ UNCHANGED <<rcvVars, flags, ioVars, written, used>>


\* The whole of sdu_rx_ctrl().  The result of rl_rtxq_push() on a PDU popped from
\* the cwq is ignored: the PDU is sent even if it could not be cloned.
SduRxCtrl(i) ==
    LET c == cnet[i]
        n == CwqOpen(c)
    IN  /\ IF DuplicateCtrl(c)
           THEN UNCHANGED <<sndVars, tmrs, dnet, used>>
           ELSE /\ last_ctrl_seq_num_rcvd' = c.seqnum
                /\ WindowUpdate(c)
                /\ UNCHANGED next_seq_num_to_use
                /\ \/ /\ AckUpdate(c, IF RtxCtrl THEN rtxq \o SubSeq(cwq, 1, n) ELSE rtxq)
                      /\ UNCHANGED used
                   \/ /\ RtxCtrl /\ Spend("oom", MaxOom)
                      /\ \E k \in 1..n : AckUpdate(c, rtxq \o DropAt(SubSeq(cwq, 1, n), k))
        /\ cnet' = DropAt(cnet, i)
        /\ writer' = "run"                        \* rl_write_restart_flow()
        /\ UNCHANGED <<rcvVars, flags, ioVars, written>>

\* With ExactRtx a timeout means loss: neither the PDU nor its ACK is on its way.
MayExpire(p) ==
    /\ ~(DrfProtected /\ p.drf)
    /\ ExactRtx => /\ \A i \in DOMAIN dnet : dnet[i].seqnum # p.seqnum
                   /\ cnet = <<>> /\ "a" \notin tmrs

\* rtx_tmr_cb() up to the transmissions: the PDUs f picks from the rtxq have
\* expired; none, if the ACK of the one that had got hold of the lock first.
RtxTmrFor(f) ==
    /\ "rtx" \in tmrs /\ "rtx_cb" \notin tmrs
    /\ \A j, k \in DOMAIN f : j < k => f[j] < f[k]
    /\ \A k \in DOMAIN f : MayExpire(rtxq[f[k]])
    /\ IF f = <<>> THEN UNCHANGED used
       ELSE IF ExactRtx THEN used' = [used EXCEPT !["rtx"] = 1] ELSE Spend("rtx", MaxRtx)
    /\ dnet' = dnet \o [k \in DOMAIN f |-> rtxq[f[k]]]
    /\ tmrs' = (tmrs \ {"snd_inact"}) \cup {"rtx_cb"}
    /\ cgwin' = IF f = <<>> THEN cgwin
                ELSE IF cgwin \div 2 < CgwinMin THEN CgwinMin ELSE cgwin \div 2
    /\ UNCHANGED <<sndSeq, sndWin, sndRtx, cwq_late, rcvVars, flags, cnet, ioVars,
                   writer, written>>

Picks == UNION {[1..n -> 1..Len(rtxq)] : n \in 0..Len(rtxq)}

RtxTmr == \E f \in Picks : RtxTmrFor(f)

\* The last critical section of rtx_tmr_cb(), after the transmissions.
RtxTmrEnd ==
    /\ "rtx_cb" \in tmrs
    /\ tmrs' = (tmrs \ {"rtx_cb"}) \cup {"snd_inact"}
    /\ cwq_late' = 0
    /\ UNCHANGED <<sndSeq, sndWin, sndRtx, cgwin, rcvVars, flags, dnet, cnet, ioVars,
                   writer, written, used>>

dtp_snd_reset ==
    /\ flags' = flags \cup {"DRF_SET"}
    /\ next_seq_num_to_use' = 0 /\ snd_lwe' = 0 /\ snd_rwe' = Credit
    /\ last_seq_num_sent' = -1 /\ last_ctrl_seq_num_rcvd' = 0
    /\ cgwin' = IF FlowCtrl THEN CgwinMin ELSE cgwin
    /\ acked' = 0

\* Mutant of SndInactTmr: the rtxq is flushed, rtx_tmr goes on.
SndInactTmrRtxOn ==
    /\ "snd_inact" \in tmrs /\ (cwq_late = 1 \/ dnet = <<>>)
    /\ Spend("sinact", MaxSndInact)
    /\ dtp_snd_reset
    /\ tmrs' = tmrs \ {"snd_inact"}
    /\ rtxq' = <<>> /\ cwq' = <<>> /\ cwq_late' = 0 /\ writer' = "run"
    /\ UNCHANGED <<rcvVars, dnet, cnet, ioVars, written>>

\* Mutant of SndInactTmr: the cwq is not flushed.
SndInactTmrKeepCwq ==
    /\ "snd_inact" \in tmrs
    /\ cwq_late = 1 \/ (dnet = <<>> /\ {"rcv_inact", "rtx"} \cap tmrs = {})
    /\ Spend("sinact", MaxSndInact)
    /\ dtp_snd_reset
    /\ tmrs' = tmrs \ {"rtx", "snd_inact"}
    /\ rtxq' = <<>> /\ cwq_late' = 0 /\ writer' = "run"
    /\ UNCHANGED <<cwq, rcvVars, dnet, cnet, ioVars, written>>

\* snd_inact_tmr runs for 3(MPL+R+A) from the last write or retransmission.  By
\* then the PDU sent at that moment has left the network, rcv_inact_tmr (2(MPL+R+A)
\* from the last arrival) has expired, and rtx_tmr, whose period is shorter and
\* whose callback starts snd_inact_tmr again, is off.  PDUs that left the cwq since
\* did not start it again, and nothing is known about those.
SndInactTmr ==
    /\ "snd_inact" \in tmrs
    /\ cwq_late = 1 \/ (dnet = <<>> /\ {"rcv_inact", "rtx"} \cap tmrs = {})
    /\ Spend("sinact", MaxSndInact)
    /\ dtp_snd_reset
    /\ tmrs' = tmrs \ {"rtx", "snd_inact"}
    /\ rtxq' = <<>> /\ cwq' = <<>> /\ cwq_late' = 0
    /\ writer' = "run"
    /\ UNCHANGED <<rcvVars, dnet, cnet, ioVars, written>>

--------------------------------------------------------------------------------
(* The receive half.                                                            *)

CtrlPduOf(fc, ack, lwe, next, rwe) ==
    [seqnum |-> next_snd_ctl_seq, fc |-> fc, ack |-> ack, ack_nack_seq_num |-> next,
     new_rwe |-> rwe, new_lwe |-> lwe]

\* ctrl_pdu_alloc() with rcv_lwe, rcv_next_seq_num and rcv_rwe as given.
ctrl_pdu_alloc(fc, ack, lwe, next, rwe) ==
    /\ cnet' = Append(cnet, CtrlPduOf(fc, ack, lwe, next, rwe))
    /\ last_seq_num_acked' = next
    /\ last_lwe_sent' = lwe

HalfWindow == Credit \div 2

AckDue(ack_immediate, lwe, next, lsent, lacked) ==
    /\ Controlled
    /\ \/ ack_immediate
       \/ InitialA = 0
       \/ UGe(lwe, lsent, HalfWindow)
       \/ UGe(next, lacked, HalfWindow)

\* Mutant of sdu_rx_sv_update: credit counts from what arrived, not from what was read.
SvUpdateFromNext(ack_immediate, lwe, next, lsent, lacked, T) ==
    /\ rcv_lwe' = lwe /\ rcv_next_seq_num' = next /\ rcv_rwe' = next + InitialCredit
    /\ IF AckDue(ack_immediate, lwe, next, lsent, lacked)
       THEN /\ ctrl_pdu_alloc(FlowCtrl, RtxCtrl, lwe, next, next + InitialCredit)
            /\ tmrs' = T \ {"a"}
       ELSE /\ last_lwe_sent' = lsent /\ last_seq_num_acked' = lacked
            /\ UNCHANGED cnet
            /\ tmrs' = IF InitialA > 0 THEN T \cup {"a"} ELSE T

\* sdu_rx_sv_update() after its caller has set rcv_lwe, rcv_next_seq_num,
\* last_lwe_sent and last_seq_num_acked to lwe, next, lsent and lacked, with T the
\* pending timers.
sdu_rx_sv_update(ack_immediate, lwe, next, lsent, lacked, T) ==
    LET rwe == IF FlowCtrl THEN lwe + InitialCredit ELSE rcv_rwe
    IN  /\ rcv_lwe' = lwe /\ rcv_next_seq_num' = next /\ rcv_rwe' = rwe
        /\ IF AckDue(ack_immediate, lwe, next, lsent, lacked)
           THEN /\ ctrl_pdu_alloc(FlowCtrl, RtxCtrl, lwe, next, rwe)
                /\ tmrs' = T \ {"a"}
           ELSE /\ last_lwe_sent' = lsent /\ last_seq_num_acked' = lacked
                /\ UNCHANGED cnet
                /\ tmrs' = IF InitialA > 0 THEN T \cup {"a"} ELSE T

CtlSeqAfter(ack) == IF ack THEN next_snd_ctl_seq + 1 ELSE next_snd_ctl_seq

\* Mutant of seqq_push: no look for a duplicate.
SeqqPushTwice(q, p) == IF Len(q) >= SeqqMaxLen THEN q ELSE InsertSorted(q, p)

\* Inserts p in the sequencing queue, sorted, unless it is full or p is there.
seqq_push(q, p) ==
    IF Len(q) >= SeqqMaxLen \/ \E i \in DOMAIN q : q[i].seqnum = p.seqnum THEN q
    ELSE InsertSorted(q, p)

\* How far q[i] is from its predecessor in the (sorted) seqq, or from `next`.
GapBefore(q, next, i) == q[i].seqnum - (IF i = 1 THEN next ELSE q[i - 1].seqnum + 1)

\* seqq_pop_many(): how many PDUs at the front follow each other within the gap.  (The
\* code scans on; SeqqWaits makes what comes later lie beyond the gap as well.)
SeqqPopCount(q, next) ==
    CHOOSE n \in 0..Len(q) :
        /\ \A i \in 1..n : GapBefore(q, next, i) \in 0..MaxSduGap
        /\ n < Len(q) => GapBefore(q, next, n + 1) \notin 0..MaxSduGap

\* Mutant of Item: consumption is reported up to the previous sequence number.
ItemBefore(p, seqnum) == [sdu |-> p.sdu, cons_seqnum |-> seqnum - 1]

Item(p, seqnum) == [sdu |-> p.sdu, cons_seqnum |-> seqnum]
TmrsOnRx == IF RcvDtcpPresent THEN tmrs \cup {"rcv_inact"} ELSE tmrs

StartsRun(p) == "DRF_EXPECTED" \in flags \/ p.drf

\* Mutant of Gap: one too small.
GapOffByOne(p) == p.seqnum - rcv_next_seq_num - 1

Gap(p) == p.seqnum - rcv_next_seq_num

\* A PDU that starts a run, or is taken for one.
RxStart(c, p) ==
    LET seq1 == p.seqnum + 1
    IN  /\ StartsRun(p)
        /\ flags' = flags \ {"DRF_EXPECTED"}
        /\ sdu_rx_sv_update(FALSE, seq1, seq1, seq1, seq1, TmrsOnRx)
        /\ next_snd_ctl_seq' = IF p.drf THEN 0
                               ELSE CtlSeqAfter(AckDue(FALSE, seq1, seq1, seq1, seq1))
        /\ rxp' = [rxp EXCEPT ![c] = <<Item(p, p.seqnum)>>]
        /\ UNCHANGED seqq

RxDuplicate(c, p) ==
    /\ ~StartsRun(p) /\ Gap(p) < 0
    /\ tmrs' = TmrsOnRx
    /\ IF RtxCtrl /\ rcv_next_seq_num >= last_lwe_sent
       THEN /\ ctrl_pdu_alloc(TRUE, TRUE, rcv_lwe, rcv_next_seq_num, rcv_rwe)
            /\ next_snd_ctl_seq' = CtlSeqAfter(TRUE)
       ELSE UNCHANGED <<cnet, last_lwe_sent, last_seq_num_acked, next_snd_ctl_seq>>
    /\ UNCHANGED <<flags, rcv_lwe, rcv_next_seq_num, rcv_rwe, seqq, rxp>>

\* The sequence number follows the last one delivered within max_sdu_gap.  What
\* it releases from the seqq is handed over with its own sequence number.
RxDeliver(c, p) ==
    LET n == SeqqPopCount(seqq, p.seqnum + 1)
        next == IF n = 0 THEN p.seqnum + 1 ELSE seqq[n].seqnum + 1
        lwe == IF UpperIpcp THEN next ELSE rcv_lwe
    IN  /\ ~StartsRun(p) /\ Gap(p) \in 0..MaxSduGap
        /\ seqq' = PopFront(seqq, n)
        /\ sdu_rx_sv_update(FALSE, lwe, next, last_lwe_sent, last_seq_num_acked, TmrsOnRx)
        /\ next_snd_ctl_seq' =
             CtlSeqAfter(AckDue(FALSE, lwe, next, last_lwe_sent, last_seq_num_acked))
        /\ rxp' = [rxp EXCEPT ![c] = <<Item(p, p.seqnum)>> \o
                                      [i \in 1..n |-> Item(seqq[i], p.seqnum)]]
        /\ UNCHANGED flags

\* Beyond the gap: dropped, or kept in the seqq.  (The third reason the comment
\* gives to keep it, the A timeout, is a local variable that is always zero.)
BeyondGap(p) == ~StartsRun(p) /\ Gap(p) > MaxSduGap
GapIsFinal == (InOrder \/ RcvDtcpPresent) /\ ~RtxCtrl

RxDrop(c, p) ==
    /\ BeyondGap(p) /\ GapIsFinal
    /\ sdu_rx_sv_update(FALSE, rcv_lwe, rcv_next_seq_num, last_lwe_sent,
                        last_seq_num_acked, TmrsOnRx)
    /\ next_snd_ctl_seq' = CtlSeqAfter(AckDue(FALSE, rcv_lwe, rcv_next_seq_num,
                                              last_lwe_sent, last_seq_num_acked))
    /\ UNCHANGED <<flags, seqq, rxp>>

RxKeep(c, p) ==
    /\ BeyondGap(p) /\ ~GapIsFinal
    /\ tmrs' = TmrsOnRx
    /\ seqq' = seqq_push(seqq, p)
    /\ UNCHANGED <<flags, rcv_lwe, rcv_next_seq_num, rcv_rwe, last_lwe_sent,
                   last_seq_num_acked, next_snd_ctl_seq, cnet, rxp>>

\* With DrfProtected the DRF PDU is first out of the network.
MayArrive(i) ==
    /\ Reorder \/ i = 1
    /\ DrfProtected => dnet[i].drf \/ \A j \in DOMAIN dnet : ~dnet[j].drf

\* Context c takes the data PDU dnet[i] through the critical section.
rl_normal_sdu_rx(c, i) ==
    /\ rxp[c] = <<>> /\ MayArrive(i)
    /\ \/ RxStart(c, dnet[i]) \/ RxDuplicate(c, dnet[i]) \/ RxDeliver(c, dnet[i])
       \/ RxDrop(c, dnet[i]) \/ RxKeep(c, dnet[i])
    /\ dnet' = DropAt(dnet, i)
    /\ UNCHANGED <<sndVars, rx_q, delivered, writer, written, used>>

\* rl_sdu_rx_flow() for the next SDU of context c: up to the upper IPCP, or into
\* the rx_q, which is limited only when the flow has no flow control.
rl_sdu_rx_flow(c) ==
    /\ rxp[c] # <<>>
    /\ rxp' = [rxp EXCEPT ![c] = Tail(@)]
    /\ IF UpperIpcp
       THEN delivered' = Append(delivered, Head(rxp[c]).sdu) /\ UNCHANGED rx_q
       ELSE /\ rx_q' = IF ~FlowCtrl /\ Len(rx_q) > RxqSizeMax THEN rx_q
                       ELSE Append(rx_q, Head(rxp[c]))
            /\ UNCHANGED delivered
    /\ UNCHANGED <<sndVars, rcvVars, flags, tmrs, dnet, cnet, writer, written, used>>

\* rl_io_read_iter() of a whole SDU, with rl_normal_sdu_rx_consumed().
Read ==
    LET lwe == Head(rx_q).cons_seqnum + 1
    IN  /\ rx_q # <<>>
        /\ rx_q' = Tail(rx_q)
        /\ delivered' = Append(delivered, Head(rx_q).sdu)
        /\ IF Controlled
           THEN /\ sdu_rx_sv_update(FALSE, lwe, rcv_next_seq_num, last_lwe_sent,
                                    last_seq_num_acked, tmrs)
                /\ next_snd_ctl_seq' = CtlSeqAfter(AckDue(FALSE, lwe, rcv_next_seq_num,
                                                     last_lwe_sent, last_seq_num_acked))
                /\ UNCHANGED seqq
           ELSE UNCHANGED <<rcvVars, cnet, tmrs>>
        /\ UNCHANGED <<sndVars, flags, dnet, rxp, writer, written, used>>

ATmr ==
    /\ "a" \in tmrs
    /\ sdu_rx_sv_update(TRUE, rcv_lwe, rcv_next_seq_num, last_lwe_sent,
                        last_seq_num_acked, tmrs \ {"a"})
    /\ next_snd_ctl_seq' = CtlSeqAfter(AckDue(TRUE, rcv_lwe, rcv_next_seq_num,
                                              last_lwe_sent, last_seq_num_acked))
    /\ UNCHANGED <<sndVars, seqq, flags, dnet, ioVars, writer, written, used>>

dtp_rcv_reset ==
    /\ flags' = flags \cup {"DRF_EXPECTED"}
    /\ rcv_lwe' = 0 /\ rcv_next_seq_num' = 0 /\ rcv_rwe' = Credit
    /\ last_lwe_sent' = 0 /\ last_seq_num_acked' = 0
    /\ UNCHANGED next_snd_ctl_seq

\* Mutant of RcvInactTmr: the seqq is not flushed.
RcvInactTmrKeepSeqq ==
    /\ "rcv_inact" \in tmrs
    /\ Spend("rinact", MaxRcvInact)
    /\ dtp_rcv_reset
    /\ tmrs' = tmrs \ {"rcv_inact"}
    /\ UNCHANGED <<seqq, sndVars, dnet, cnet, ioVars, writer, written>>

RcvInactTmr ==
    /\ "rcv_inact" \in tmrs
    /\ Spend("rinact", MaxRcvInact)
    /\ dtp_rcv_reset
    /\ seqq' = <<>>
    /\ tmrs' = tmrs \ {"rcv_inact"}
    /\ UNCHANGED <<sndVars, dnet, cnet, ioVars, writer, written>>

--------------------------------------------------------------------------------
(* The network below: no route, a full queue or a bad checksum lose a PDU.      *)

LoseData(i) ==
    /\ ~(DrfProtected /\ dnet[i].drf)
    /\ Spend("dloss", MaxDataLoss)
    /\ dnet' = DropAt(dnet, i)
    /\ UNCHANGED <<sndVars, rcvVars, flags, tmrs, cnet, ioVars, writer, written>>

LoseCtrl(i) ==
    /\ Spend("closs", MaxCtrlLoss)
    /\ cnet' = DropAt(cnet, i)
    /\ UNCHANGED <<sndVars, rcvVars, flags, tmrs, dnet, ioVars, writer, written>>

CtrlArrival == \E i \in DOMAIN cnet : (Reorder \/ i = 1) /\ SduRxCtrl(i)
DataArrival == \E c \in RxCpu, i \in DOMAIN dnet : rl_normal_sdu_rx(c, i)
Loss == \/ \E i \in DOMAIN dnet : LoseData(i)
        \/ \E i \in DOMAIN cnet : LoseCtrl(i)
HandUp == \E c \in RxCpu : rl_sdu_rx_flow(c)

Next == \/ SduWrite \/ CtrlArrival \/ RtxTmr \/ RtxTmrEnd \/ SndInactTmr
        \/ DataArrival \/ HandUp \/ Read \/ ATmr \/ RcvInactTmr \/ Loss

Spec == Init /\ [][Next]_vars

\* The lower flow transmits, interrupts and timers are served, the oldest PDU of
\* the rtxq expires in its turn, the application keeps writing and reading.  Losses
\* and inactivity are never forced.
Fairness ==
    /\ WF_vars(SduWrite) /\ WF_vars(CtrlArrival) /\ WF_vars(DataArrival)
    /\ WF_vars(HandUp) /\ WF_vars(Read) /\ WF_vars(ATmr)
    /\ SF_vars(\E f \in Picks : f # <<>> /\ f[1] = 1 /\ RtxTmrFor(f)) /\ WF_vars(RtxTmrEnd)

FairSpec == Spec /\ Fairness

--------------------------------------------------------------------------------
(* Properties.                                                                  *)

SndType ==
    /\ next_seq_num_to_use \in Nat /\ snd_lwe \in Nat /\ snd_rwe \in Nat
    /\ last_seq_num_sent \in Nat \cup {-1} /\ last_ctrl_seq_num_rcvd \in Nat
    /\ cwq \in Seq(DataPdu) /\ rtxq \in Seq(DataPdu)
    /\ cgwin \in Nat /\ acked \in Nat /\ cwq_late \in {0, 1}
RcvType ==
    /\ rcv_lwe \in Nat /\ rcv_next_seq_num \in Nat /\ rcv_rwe \in Nat
    /\ last_lwe_sent \in Nat /\ last_seq_num_acked \in Nat /\ next_snd_ctl_seq \in Nat
    /\ seqq \in Seq(DataPdu)
IoType ==
    /\ rxp \in [RxCpu -> Seq(RxItem)] /\ rx_q \in Seq(RxItem) /\ delivered \in Seq(SDU)

\* Every variable, queue and PDU has the type of its C counterpart.
TypeOK ==
    /\ SndType /\ RcvType /\ IoType
    /\ flags \subseteq Flag /\ tmrs \subseteq Tmr
    /\ dnet \in Seq(DataPdu) /\ cnet \in Seq(CtrlPdu)
    /\ writer \in {"run", "sleep"} /\ written \in 0..MaxSdus
    /\ used \in [Event -> Nat]

\* The closed window queue continues the PDUs already sent without a hole, up to
\* the last sequence number given out: sdu_rx_ctrl() counts last_seq_num_sent up
\* instead of reading the sequence number of the PDU it pops, which is only right
\* if this holds.
CwqContinuesSent ==
    FlowCtrl =>
        /\ next_seq_num_to_use = last_seq_num_sent + Len(cwq) + 1
        /\ \A i \in DOMAIN cwq : cwq[i].seqnum = last_seq_num_sent + i

\* The sender never goes past the right window edge its peer granted, keeps PDUs
\* back only when the window is used up, and never holds more than max_cwq_len.
WindowRespected ==
    FlowCtrl =>
        /\ last_seq_num_sent <= snd_rwe
        /\ cwq # <<>> => last_seq_num_sent = snd_rwe
        /\ Len(cwq) <= MaxCwqLen

\* Unless a clone could not be allocated, the retransmission queue holds exactly the
\* PDUs sent and not yet acknowledged, in order: none sent from the cwq or
\* acknowledged late is forgotten.
RtxqHoldsUnacked ==
    RtxCtrl /\ used["oom"] = 0 =>
        /\ acked + Len(rtxq) = last_seq_num_sent + 1
        /\ \A i \in DOMAIN rtxq : rtxq[i].seqnum = acked + i - 1

\* An ACK takes a PDU out of the retransmission queue only if the receiver has got it
\* and everything before it: a PDU that may still have to be sent again is kept.
AckedWasReceived == RtxCtrl => acked <= rcv_next_seq_num

\* As long as a PDU waits for its ACK the retransmission timer is pending, and it is
\* not pending for nothing: no path leaves a PDU that nobody will retransmit.
RtxTimerArmed == "rtx" \in tmrs <=> rtxq # <<>>

\* What waits in the sequencing queue is sorted, without duplicates, within the
\* limit, and none of it could be delivered already.
SeqqWaits ==
    /\ Len(seqq) <= SeqqMaxLen
    /\ \A i \in DOMAIN seqq :
         /\ seqq[i].seqnum > rcv_next_seq_num + MaxSduGap
         /\ i > 1 => seqq[i - 1].seqnum < seqq[i].seqnum

\* A reliable flow delivers every SDU once and in the order of the writes, whatever
\* is lost or overtaken.
ReliableInOrder == delivered = [k \in 1..Len(delivered) |-> k]

\* normal.c says of the userspace queue that flow control "will limit [it]
\* automatically": the SDUs not yet read never exceed what the window admits, which
\* is initial_credit, one for the inclusive edge and one for the first PDU of a run,
\* that counts as consumed when it arrives.
\* Without flow control the queue has a limit of its own.
RxqLimited ==
    IF FlowCtrl THEN \A c \in RxCpu : Len(rx_q) + Len(rxp[c]) <= InitialCredit + 2
    ELSE Len(rx_q) <= RxqSizeMax + 1



\* Everything written on a reliable flow is read in the end, and nothing waits for
\* an ACK or for the window any more.
ReliableDelivery ==
    /\ <>(Len(delivered) >= MaxSdus)
    /\ <>[](rtxq = <<>> /\ cwq = <<>>)
================================================================================
