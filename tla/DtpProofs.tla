------------------------------- MODULE DtpProofs -------------------------------
(* Proofs about the EFCP machine of module Dtp, for every flow configuration,   *)
(* every number of losses, retransmissions and resets, and every reordering.    *)
EXTENDS Dtp, QueueProofs, TLAPS

\* The constants one by one.
LEMMA Constants ==
    /\ MaxSdus \in Nat /\ InitialCredit \in Nat /\ CgwinMin \in Nat
    /\ CgwinMax \in Nat /\ MaxSduGap \in Nat /\ Credit \in Nat
BY ConfigAssumption, EnvAssumption DEF Credit

\* Which parts of the type invariant a step that leaves a half alone keeps.
LEMMA UnchangedType ==
    /\ UNCHANGED sndVars /\ SndType => SndType'
    /\ UNCHANGED rcvVars /\ RcvType => RcvType'
    /\ UNCHANGED ioVars /\ IoType => IoType'
BY DEF sndVars, sndSeq, sndWin, sndRtx, rcvVars, ioVars, SndType, RcvType, IoType

\* Counting an event keeps the type of the counters.
LEMMA SpendType ==
    ASSUME NEW e \in Event, NEW max, used \in [Event -> Nat], Spend(e, max)
    PROVE  used' \in [Event -> Nat]
BY DEF Spend

\* A PDU built by rl_normal_sdu_write() has the type of a data PDU.
LEMMA NewPduType == TypeOK /\ MayWrite => NewPdu \in DataPdu
BY Constants DEF TypeOK, SndType, MayWrite, NewPdu, DataPdu, SDU

\* Writing keeps the types.
LEMMA WriteType == TypeOK /\ SduWrite => TypeOK'
<1> SUFFICES ASSUME TypeOK, SduWrite PROVE TypeOK'
    OBVIOUS
<1>1. CASE TokenBucketSleep
    BY <1>1, UnchangedType DEF TypeOK, TokenBucketSleep
<1>2. CASE SduWriteBlocked
    BY <1>2, UnchangedType DEF TypeOK, SduWriteBlocked
<1>t. TakeSeqnum => /\ RcvType' /\ IoType' /\ flags' \subseteq Flag /\ cnet' \in Seq(CtrlPdu)
                    /\ writer' \in {"run", "sleep"} /\ written + 1 \in 0..MaxSdus
                    /\ NewPdu \in DataPdu
    BY UnchangedType, NewPduType, Constants DEF TypeOK, TakeSeqnum, MayWrite
<1>w. TakeSeqnum => /\ next_seq_num_to_use' \in Nat /\ snd_lwe' \in Nat /\ snd_rwe' \in Nat
                    /\ last_ctrl_seq_num_rcvd' \in Nat /\ cgwin' \in Nat
    BY DEF TypeOK, SndType, TakeSeqnum, sndWin
<1>3. CASE SduWriteCwq
    <2>1. SndType'
        BY <1>3, <1>t, <1>w DEF TypeOK, SduWriteCwq, SndType, sndRtx
    <2>2. QED
        BY <1>3, <1>t, <2>1 DEF TypeOK, SduWriteCwq
<1>4. CASE SduWriteTx
    <2>1. rtxq' \in Seq(DataPdu) /\ dnet' \in Seq(DataPdu)
        BY <1>4, <1>t DEF TypeOK, SndType, SduWriteTx, InWindow, PushAndArm
    <2>2. tmrs' \subseteq Tmr
        BY <1>4 DEF TypeOK, SduWriteTx, PushAndArm, Tmr
    <2>3. SndType'
        BY <1>4, <1>w, <2>1 DEF TypeOK, SndType, SduWriteTx, InWindow, PushAndArm
    <2>4. QED
        BY <1>4, <1>t, <2>1, <2>2, <2>3 DEF TypeOK, SduWriteTx, InWindow
<1>5. CASE SduWriteOom
    <2>1. used' \in [Event -> Nat]
        BY <1>5, SpendType DEF TypeOK, SduWriteOom, Event
    <2>2. SndType'
        BY <1>5, <1>w DEF TypeOK, SndType, SduWriteOom, InWindow, sndRtx
    <2>3. QED
        BY <1>5, <1>t, <2>1, <2>2 DEF TypeOK, SduWriteOom, InWindow
<1>6. CASE SduWriteEagain
    <2>1. used' \in [Event -> Nat]
        BY <1>6, SpendType DEF TypeOK, SduWriteEagain, Event
    <2>2. tmrs' \subseteq Tmr
        BY <1>6 DEF TypeOK, SduWriteEagain, PushAndArm, Tmr
    <2>3. SndType'
        BY <1>6, <1>w DEF TypeOK, SndType, SduWriteEagain, InWindow, PushAndArm
    <2>4. QED
        BY <1>6, <1>t, <2>1, <2>2, <2>3 DEF TypeOK, SduWriteEagain, InWindow
<1>7. QED
    BY <1>1, <1>2, <1>3, <1>4, <1>5, <1>6 DEF SduWrite

\* Taking the head of a queue.
LEMMA HeadTail ==
    ASSUME NEW S, NEW q \in Seq(S), q # <<>>
    PROVE  Head(q) \in S /\ Tail(q) \in Seq(S)
OBVIOUS

\* The fields of a PDU have their types.
LEMMA PduFields ==
    /\ \A p \in DataPdu : p.seqnum \in Nat /\ p.sdu \in SDU
    /\ \A c \in CtrlPdu : /\ c.seqnum \in Nat /\ c.ack_nack_seq_num \in Nat
                         /\ c.new_rwe \in Nat /\ c.new_lwe \in Nat
BY DEF DataPdu, CtrlPdu

\* A control PDU moves the window and pops the cwq within their types.
LEMMA WindowUpdateType ==
    ASSUME TypeOK, NEW c \in CtrlPdu
    PROVE  /\ CwqOpen(c) \in 0..Len(cwq)
           /\ CwqOpen(c) > 0 => last_seq_num_sent \in Nat
           /\ SubSeq(cwq, 1, CwqOpen(c)) \in Seq(DataPdu)
           /\ Len(SubSeq(cwq, 1, CwqOpen(c))) = CwqOpen(c)
           /\ PopFront(cwq, CwqOpen(c)) \in Seq(DataPdu)
<1>1. CwqOpen(c) \in 0..Len(cwq) /\ (CwqOpen(c) > 0 => last_seq_num_sent \in Nat)
    BY SMTT(30) DEF TypeOK, SndType, CwqOpen, CtrlPdu
<1>2. PopFront(cwq, CwqOpen(c)) \in Seq(DataPdu)
    BY <1>1, PopFrontProperties DEF TypeOK, SndType
<1>3. QED
    BY <1>1, <1>2 DEF TypeOK, SndType

\* The prefix an ACK removes from q, and what it leaves of it.
LEMMA AckUpdateType ==
    ASSUME TypeOK, NEW c \in CtrlPdu, NEW q \in Seq(DataPdu), AckUpdate(c, q)
    PROVE  /\ rtxq' \in Seq(DataPdu) /\ acked' \in Nat /\ cgwin' \in Nat
           /\ tmrs' \subseteq Tmr
<1> DEFINE n == IF c.ack THEN Below(q, c.ack_nack_seq_num) ELSE 0
<1>1. n \in 0..Len(q)
    <2>1. c.ack_nack_seq_num \in Nat /\ \A i \in 1..Len(q) : q[i].seqnum \in Nat
        BY PduFields
    <2>2. Below(q, c.ack_nack_seq_num) \in 0..Len(q)
        BY SMTT(30), <2>1, BelowProperties
    <2>3. QED
        BY <2>2
<1>2. n > 0 => q[n].seqnum \in Nat
    BY <1>1, PduFields
<1>3. /\ rtxq' = PopFront(q, n)
      /\ tmrs' = IF n < Len(q) /\ (c.ack \/ q # rtxq) THEN tmrs \cup {"rtx"}
                 ELSE IF n = Len(q) /\ c.ack THEN tmrs \ {"rtx"} ELSE tmrs
      /\ acked' = IF n = 0 THEN acked ELSE q[n].seqnum + 1
    BY DEF AckUpdate
<1>4. cgwin' \in Nat
    BY Constants DEF AckUpdate, TypeOK, SndType
<1> HIDE DEF n
<1>5. PopFront(q, n) \in Seq(DataPdu)
    BY <1>1, PopFrontProperties
<1>6. tmrs' \subseteq Tmr
    BY <1>3 DEF TypeOK, Tmr
<1>7. acked' \in Nat
    BY SMTT(30), <1>1, <1>2, <1>3 DEF TypeOK, SndType
<1>8. QED
    BY <1>3, <1>4, <1>5, <1>6, <1>7

\* sdu_rx_ctrl() keeps the types.
LEMMA SduRxCtrlType ==
    ASSUME TypeOK, NEW i \in DOMAIN cnet, SduRxCtrl(i)
    PROVE  TypeOK'
<1> DEFINE c == cnet[i]
           n == CwqOpen(c)
<1>1. c \in CtrlPdu /\ i \in 1..Len(cnet)
    BY SMTT(30) DEF TypeOK
<1>2. /\ RcvType' /\ IoType' /\ flags' \subseteq Flag /\ writer' \in {"run", "sleep"}
      /\ written' \in 0..MaxSdus /\ cnet' \in Seq(CtrlPdu)
    BY <1>1, UnchangedType, DropAtProperties DEF SduRxCtrl, TypeOK
<1>3. CASE DuplicateCtrl(c)
    BY <1>2, <1>3, UnchangedType DEF SduRxCtrl, TypeOK
<1>4. CASE ~DuplicateCtrl(c)
    <2>1. /\ n \in 0..Len(cwq) /\ (n > 0 => last_seq_num_sent \in Nat)
          /\ SubSeq(cwq, 1, n) \in Seq(DataPdu) /\ Len(SubSeq(cwq, 1, n)) = n
          /\ PopFront(cwq, n) \in Seq(DataPdu)
        BY <1>1, WindowUpdateType
    <2>2. /\ last_ctrl_seq_num_rcvd' = c.seqnum /\ WindowUpdate(c)
          /\ UNCHANGED next_seq_num_to_use
          /\ \/ /\ AckUpdate(c, IF RtxCtrl THEN rtxq \o SubSeq(cwq, 1, n) ELSE rtxq)
                /\ UNCHANGED used
             \/ /\ RtxCtrl /\ Spend("oom", MaxOom)
                /\ \E k \in 1..n : AckUpdate(c, rtxq \o DropAt(SubSeq(cwq, 1, n), k))
        BY <1>4 DEF SduRxCtrl
    <2>3. used' \in [Event -> Nat]
        BY <2>2, SpendType DEF TypeOK, Event
    <2> HIDE DEF c
    <2>4. /\ next_seq_num_to_use' \in Nat /\ snd_lwe' \in Nat /\ snd_rwe' \in Nat
          /\ last_seq_num_sent' \in Nat \cup {-1} /\ last_ctrl_seq_num_rcvd' \in Nat
          /\ cwq' \in Seq(DataPdu) /\ cwq_late' \in {0, 1} /\ dnet' \in Seq(DataPdu)
        <3>1. /\ next_seq_num_to_use' \in Nat /\ snd_lwe' \in Nat /\ snd_rwe' \in Nat
              /\ last_ctrl_seq_num_rcvd' \in Nat /\ cwq_late' \in {0, 1}
            BY <1>1, <2>2, PduFields DEF WindowUpdate, TypeOK, SndType
        <3>2. last_seq_num_sent' \in Nat \cup {-1}
            BY SMTT(30), <2>1, <2>2 DEF WindowUpdate, TypeOK, SndType
        <3>3. cwq' \in Seq(DataPdu) /\ dnet' \in Seq(DataPdu)
            BY <2>1, <2>2 DEF WindowUpdate, TypeOK, SndType
        <3>4. QED
            BY <3>1, <3>2, <3>3
    <2>5. /\ (IF RtxCtrl THEN rtxq \o SubSeq(cwq, 1, n) ELSE rtxq) \in Seq(DataPdu)
          /\ \A k \in 1..n : rtxq \o DropAt(SubSeq(cwq, 1, n), k) \in Seq(DataPdu)
        <3>1. rtxq \in Seq(DataPdu)
            BY DEF TypeOK, SndType
        <3>2. \A k \in 1..n : DropAt(SubSeq(cwq, 1, n), k) \in Seq(DataPdu)
            BY <2>1, DropAtProperties
        <3>3. QED
            BY <2>1, <3>1, <3>2
    <2>6. /\ rtxq' \in Seq(DataPdu) /\ acked' \in Nat /\ cgwin' \in Nat
          /\ tmrs' \subseteq Tmr
        BY Zenon, <1>1, <2>2, <2>5, AckUpdateType
    <2>7. QED
        BY SMTT(30), <1>2, <2>3, <2>4, <2>6 DEF TypeOK, SndType
<1>5. QED
    BY <1>3, <1>4

\* Retransmitting keeps the types.
LEMMA RtxTmrType == TypeOK /\ RtxTmr => TypeOK'
<1> SUFFICES ASSUME TypeOK, NEW f \in Picks, RtxTmrFor(f) PROVE TypeOK'
    BY DEF RtxTmr
<1>1. /\ [k \in DOMAIN f |-> rtxq[f[k]]] \in Seq(DataPdu)
    <2>1. PICK n \in 0..Len(rtxq) : f \in [1..n -> 1..Len(rtxq)]
        BY DEF Picks
    <2>2. \A k \in 1..n : rtxq[f[k]] \in DataPdu
        BY <2>1 DEF TypeOK, SndType
    <2>3. DOMAIN f = 1..n
        BY <2>1
    <2>4. [k \in 1..n |-> rtxq[f[k]]] \in Seq(DataPdu)
        BY <2>2 DEF TypeOK, SndType
    <2>5. QED
        BY <2>3, <2>4
<1>2. dnet' \in Seq(DataPdu)
    BY <1>1 DEF RtxTmrFor, TypeOK
<1>3. used' \in [Event -> Nat]
    <2>1. CASE f = <<>>
        BY <2>1 DEF RtxTmrFor, TypeOK
    <2>2. CASE f # <<>> /\ ExactRtx
        BY <2>2 DEF RtxTmrFor, TypeOK, Event
    <2>3. CASE f # <<>> /\ ~ExactRtx
        BY <2>3, SpendType DEF RtxTmrFor, TypeOK, Event
    <2>4. QED
        BY <2>1, <2>2, <2>3
<1>4. tmrs' \subseteq Tmr
    BY DEF RtxTmrFor, TypeOK, Tmr
<1>5. cgwin' \in Nat
    BY Constants DEF RtxTmrFor, TypeOK, SndType
<1>6. SndType'
    BY <1>5 DEF RtxTmrFor, TypeOK, SndType, sndSeq, sndWin, sndRtx
<1>7. RcvType' /\ IoType'
    BY UnchangedType DEF RtxTmrFor, TypeOK
<1>8. QED
    BY <1>2, <1>3, <1>4, <1>6, <1>7 DEF RtxTmrFor, TypeOK

\* The other callbacks of the send half keep the types.
LEMMA SndTmrType == TypeOK /\ (RtxTmrEnd \/ SndInactTmr) => TypeOK'
<1>1. TypeOK /\ RtxTmrEnd => TypeOK'
    <2> SUFFICES ASSUME TypeOK, RtxTmrEnd PROVE TypeOK'
        OBVIOUS
    <2>1. SndType'
        BY DEF RtxTmrEnd, TypeOK, SndType, sndSeq, sndWin, sndRtx
    <2>2. RcvType' /\ IoType' /\ tmrs' \subseteq Tmr
        BY UnchangedType DEF RtxTmrEnd, TypeOK, Tmr
    <2>3. QED
        BY <2>1, <2>2 DEF RtxTmrEnd, TypeOK
<1>2. TypeOK /\ SndInactTmr => TypeOK'
    <2> SUFFICES ASSUME TypeOK, SndInactTmr PROVE TypeOK'
        OBVIOUS
    <2>1. SndType'
        BY Constants DEF SndInactTmr, dtp_snd_reset, TypeOK, SndType
    <2>2. RcvType' /\ IoType' /\ tmrs' \subseteq Tmr /\ flags' \subseteq Flag
        BY UnchangedType DEF SndInactTmr, dtp_snd_reset, TypeOK, Tmr, Flag
    <2>3. used' \in [Event -> Nat]
        BY SpendType DEF SndInactTmr, TypeOK, Event
    <2>4. QED
        BY <2>1, <2>2, <2>3 DEF SndInactTmr, TypeOK
<1>3. QED
    BY <1>1, <1>2

\* seqq_pop_many() stops somewhere, and where its definition says.
LEMMA SeqqPopCountProperties ==
    ASSUME NEW q \in Seq(DataPdu), NEW next \in Nat
    PROVE  /\ SeqqPopCount(q, next) \in 0..Len(q)
           /\ \A i \in 1..SeqqPopCount(q, next) : GapBefore(q, next, i) \in 0..MaxSduGap
           /\ SeqqPopCount(q, next) < Len(q)
                => GapBefore(q, next, SeqqPopCount(q, next) + 1) \notin 0..MaxSduGap
<1> DEFINE P(n) == /\ \A i \in 1..n : GapBefore(q, next, i) \in 0..MaxSduGap
                   /\ n < Len(q) => GapBefore(q, next, n + 1) \notin 0..MaxSduGap
           G == {i \in 1..Len(q) : GapBefore(q, next, i) \in 0..MaxSduGap}
<1>1. Len(q) \in Nat
    OBVIOUS
<1>2. PICK n \in 0..Len(q) : (\A i \in 1..n : i \in G) /\ (n < Len(q) => n + 1 \notin G)
    <2> HIDE DEF G
    <2> QED BY Zenon, <1>1, ScanStops
<1>3. \E m \in 0..Len(q) : P(m)
    BY <1>2
<1>4. SeqqPopCount(q, next) = CHOOSE m \in 0..Len(q) : P(m)
    BY DEF SeqqPopCount
<1>5. SeqqPopCount(q, next) \in 0..Len(q) /\ P(SeqqPopCount(q, next))
    <2> HIDE DEF P
    <2> QED BY <1>3, <1>4
<1>6. QED
    BY <1>5

\* The sequence number after the n-th PDU of a queue.
LEMMA AfterPopType ==
    ASSUME NEW q \in Seq(DataPdu), NEW n \in 0..Len(q), NEW k \in Nat
    PROVE  (IF n = 0 THEN k ELSE q[n].seqnum + 1) \in Nat
<1>1. n # 0 => q[n] \in DataPdu
    OBVIOUS
<1>2. n # 0 => q[n].seqnum \in Nat
    BY <1>1, PduFields
<1>3. QED
    BY <1>2

\* sdu_rx_sv_update() keeps the types.
LEMMA SvUpdateType ==
    ASSUME TypeOK, NEW imm, NEW lwe \in Nat, NEW next \in Nat, NEW lsent \in Nat,
           NEW lacked \in Nat, NEW T \in SUBSET Tmr,
           sdu_rx_sv_update(imm, lwe, next, lsent, lacked, T)
    PROVE  /\ rcv_lwe' = lwe /\ rcv_next_seq_num' = next /\ rcv_rwe' \in Nat
           /\ last_lwe_sent' \in Nat /\ last_seq_num_acked' \in Nat
           /\ cnet' \in Seq(CtrlPdu)
           /\ tmrs' \subseteq Tmr /\ ("rtx" \in tmrs' <=> "rtx" \in T)
<1> DEFINE rwe == IF FlowCtrl THEN lwe + InitialCredit ELSE rcv_rwe
<1>1. rwe \in Nat
    BY Constants DEF TypeOK, RcvType
<1>2. CtrlPduOf(FlowCtrl, RtxCtrl, lwe, next, rwe) \in CtrlPdu
    <2> HIDE DEF rwe
    <2>1. FlowCtrl \in BOOLEAN /\ RtxCtrl \in BOOLEAN
        BY ConfigAssumption
    <2>2. QED
        BY <1>1, <2>1 DEF CtrlPduOf, CtrlPdu, TypeOK, RcvType
<1>3. /\ rcv_lwe' = lwe /\ rcv_next_seq_num' = next /\ rcv_rwe' = rwe
    BY DEF sdu_rx_sv_update
<1>4. CASE AckDue(imm, lwe, next, lsent, lacked)
    <2>1. /\ ctrl_pdu_alloc(FlowCtrl, RtxCtrl, lwe, next, rwe)
          /\ tmrs' = T \ {"a"}
        BY <1>4 DEF sdu_rx_sv_update
    <2> HIDE DEF rwe
    <2>2. QED
        BY SMTT(30), <1>1, <1>2, <1>3, <2>1 DEF ctrl_pdu_alloc, TypeOK
<1>5. CASE ~AckDue(imm, lwe, next, lsent, lacked)
    <2>1. /\ last_lwe_sent' = lsent /\ last_seq_num_acked' = lacked
          /\ UNCHANGED cnet
          /\ tmrs' = IF InitialA > 0 THEN T \cup {"a"} ELSE T
        BY <1>5 DEF sdu_rx_sv_update
    <2> HIDE DEF rwe
    <2>2. QED
        BY <1>1, <1>3, <2>1 DEF TypeOK, Tmr
<1>6. QED
    BY <1>4, <1>5

\* The sequencing queue stays a queue of PDUs.
LEMMA SeqqPushType ==
    ASSUME NEW q \in Seq(DataPdu), NEW p \in DataPdu
    PROVE  seqq_push(q, p) \in Seq(DataPdu)
<1>1. p.seqnum \in Nat /\ \A i \in 1..Len(q) : q[i].seqnum \in Nat
    BY PduFields
<1>2. Below(q, p.seqnum) \in 0..Len(q)
    BY <1>1, BelowProperties
<1>3. PopFront(q, Below(q, p.seqnum)) \in Seq(DataPdu)
    BY <1>2, PopFrontProperties
<1>4. SubSeq(q, 1, Below(q, p.seqnum)) \in Seq(DataPdu)
    BY <1>2
<1>5. InsertSorted(q, p) \in Seq(DataPdu)
    BY <1>3, <1>4 DEF InsertSorted
<1>6. QED
    BY <1>5 DEF seqq_push

\* What rl_normal_sdu_rx() hands over has the type of SDUs with their numbers.
LEMMA ItemType ==
    ASSUME NEW p \in DataPdu, NEW k \in Nat
    PROVE  Item(p, k) \in RxItem
BY PduFields DEF Item, RxItem

\* Every way rl_normal_sdu_rx() treats a data PDU keeps the types of the receive
\* half, and leaves rtx_tmr alone.
LEMMA RxType ==
    ASSUME TypeOK, NEW c \in RxCpu, NEW p \in DataPdu,
           \/ RxStart(c, p) \/ RxDuplicate(c, p) \/ RxDeliver(c, p)
           \/ RxDrop(c, p) \/ RxKeep(c, p)
    PROVE  /\ RcvType' /\ rxp' \in [RxCpu -> Seq(RxItem)] /\ flags' \subseteq Flag
           /\ cnet' \in Seq(CtrlPdu) /\ tmrs' \subseteq Tmr
           /\ "rtx" \in tmrs' <=> "rtx" \in tmrs
<1>t. TmrsOnRx \in SUBSET Tmr /\ ("rtx" \in TmrsOnRx <=> "rtx" \in tmrs)
    BY DEF TmrsOnRx, TypeOK, Tmr
<1>c. \A b : CtlSeqAfter(b) \in Nat
    BY DEF CtlSeqAfter, TypeOK, RcvType
<1>p. p.seqnum \in Nat /\ p.seqnum + 1 \in Nat
    BY PduFields
<1>i. Item(p, p.seqnum) \in RxItem
    BY SMTT(30), <1>p, ItemType
<1>1. CASE RxStart(c, p)
    <2> DEFINE seq1 == p.seqnum + 1
    <2>1. /\ sdu_rx_sv_update(FALSE, seq1, seq1, seq1, seq1, TmrsOnRx)
          /\ flags' = flags \ {"DRF_EXPECTED"}
          /\ next_snd_ctl_seq' \in Nat
          /\ rxp' = [rxp EXCEPT ![c] = <<Item(p, p.seqnum)>>]
          /\ UNCHANGED seqq
        BY Zenon, <1>1, <1>c DEF RxStart
    <2>2. seq1 \in Nat
        BY <1>p
    <2> HIDE DEF seq1
    <2>3. /\ rcv_lwe' = seq1 /\ rcv_next_seq_num' = seq1 /\ rcv_rwe' \in Nat
          /\ last_lwe_sent' \in Nat /\ last_seq_num_acked' \in Nat
          /\ cnet' \in Seq(CtrlPdu)
          /\ tmrs' \subseteq Tmr /\ ("rtx" \in tmrs' <=> "rtx" \in TmrsOnRx)
        BY ZenonT(30), <1>t, <2>1, <2>2, SvUpdateType
    <2>4. rxp' \in [RxCpu -> Seq(RxItem)]
        BY <1>i, <2>1 DEF TypeOK, IoType
    <2>5. QED
        BY SMTT(30), <1>t, <2>1, <2>2, <2>3, <2>4 DEF TypeOK, RcvType
<1>2. CASE RxDuplicate(c, p)
    <2>1. CtrlPduOf(TRUE, TRUE, rcv_lwe, rcv_next_seq_num, rcv_rwe) \in CtrlPdu
        BY DEF CtrlPduOf, CtrlPdu, TypeOK, RcvType
    <2>2. /\ cnet' \in Seq(CtrlPdu) /\ last_lwe_sent' \in Nat
          /\ last_seq_num_acked' \in Nat /\ next_snd_ctl_seq' \in Nat
        <3>1. CASE RtxCtrl /\ rcv_next_seq_num >= last_lwe_sent
            <4> DEFINE pdu == CtrlPduOf(TRUE, TRUE, rcv_lwe, rcv_next_seq_num, rcv_rwe)
            <4>1. /\ cnet' = Append(cnet, pdu) /\ last_seq_num_acked' = rcv_next_seq_num
                  /\ last_lwe_sent' = rcv_lwe /\ next_snd_ctl_seq' = next_snd_ctl_seq + 1
                BY Zenon, <1>2, <3>1 DEF RxDuplicate, ctrl_pdu_alloc, CtlSeqAfter
            <4>2. pdu \in CtrlPdu
                BY Zenon, <2>1
            <4> HIDE DEF pdu
            <4>3. QED
                BY SMTT(30), <4>1, <4>2 DEF TypeOK, RcvType
        <3>2. CASE ~(RtxCtrl /\ rcv_next_seq_num >= last_lwe_sent)
            BY ZenonT(30), <1>2, <3>2 DEF RxDuplicate, TypeOK, RcvType
        <3>3. QED
            BY <3>1, <3>2
    <2>3. QED
        BY SMTT(30), <1>2, <1>t, <2>2 DEF RxDuplicate, TypeOK, RcvType, IoType
<1>3. CASE RxDeliver(c, p)
    <2> DEFINE n == SeqqPopCount(seqq, p.seqnum + 1)
               next == IF n = 0 THEN p.seqnum + 1 ELSE seqq[n].seqnum + 1
               lwe == IF UpperIpcp THEN next ELSE rcv_lwe
               up == [i \in 1..n |-> Item(seqq[i], p.seqnum)]
    <2>1. /\ seqq' = PopFront(seqq, n)
          /\ sdu_rx_sv_update(FALSE, lwe, next, last_lwe_sent, last_seq_num_acked, TmrsOnRx)
          /\ next_snd_ctl_seq' \in Nat
          /\ rxp' = [rxp EXCEPT ![c] = <<Item(p, p.seqnum)>> \o up]
          /\ UNCHANGED flags
        BY Zenon, <1>3, <1>c DEF RxDeliver
    <2>2. n \in 0..Len(seqq)
        BY ZenonT(30), <1>p, SeqqPopCountProperties DEF TypeOK, RcvType
    <2> HIDE DEF n
    <2>3. next \in Nat
        BY Zenon, <1>p, <2>2, AfterPopType DEF TypeOK, RcvType
    <2> HIDE DEF next
    <2>4. lwe \in Nat
        BY <2>3 DEF TypeOK, RcvType
    <2> HIDE DEF lwe
    <2>5. up \in Seq(RxItem)
        <3>1. \A i \in 1..n : Item(seqq[i], p.seqnum) \in RxItem
            BY SMTT(30), <1>p, <2>2, ItemType DEF TypeOK, RcvType
        <3>2. QED
            BY SMTT(30), <2>2, <3>1
    <2> HIDE DEF up
    <2>6. /\ rcv_lwe' = lwe /\ rcv_next_seq_num' = next /\ rcv_rwe' \in Nat
          /\ last_lwe_sent' \in Nat /\ last_seq_num_acked' \in Nat
          /\ cnet' \in Seq(CtrlPdu)
          /\ tmrs' \subseteq Tmr /\ ("rtx" \in tmrs' <=> "rtx" \in TmrsOnRx)
        BY ZenonT(30), <1>t, <2>1, <2>3, <2>4, SvUpdateType DEF TypeOK, RcvType
    <2>7. <<Item(p, p.seqnum)>> \o up \in Seq(RxItem)
        BY <1>i, <2>5
    <2>8. rxp' \in [RxCpu -> Seq(RxItem)]
        BY <2>1, <2>7 DEF TypeOK, IoType
    <2>9. seqq' \in Seq(DataPdu)
        BY <2>1, <2>2, PopFrontProperties DEF TypeOK, RcvType
    <2>10. QED
        BY <1>t, <2>1, <2>3, <2>4, <2>6, <2>8, <2>9 DEF TypeOK, RcvType
<1>4. CASE RxDrop(c, p)
    <2>1. /\ rcv_lwe' = rcv_lwe /\ rcv_next_seq_num' = rcv_next_seq_num /\ rcv_rwe' \in Nat
          /\ last_lwe_sent' \in Nat /\ last_seq_num_acked' \in Nat
          /\ cnet' \in Seq(CtrlPdu)
          /\ tmrs' \subseteq Tmr /\ ("rtx" \in tmrs' <=> "rtx" \in TmrsOnRx)
        BY ZenonT(30), <1>4, <1>t, SvUpdateType DEF RxDrop, TypeOK, RcvType
    <2>2. QED
        BY Zenon, <1>4, <1>t, <1>c, <2>1 DEF RxDrop, TypeOK, RcvType, IoType
<1>5. CASE RxKeep(c, p)
    <2>1. seqq' \in Seq(DataPdu)
        BY <1>5, SeqqPushType DEF RxKeep, TypeOK, RcvType
    <2>2. QED
        BY <1>5, <1>t, <2>1 DEF RxKeep, TypeOK, RcvType, IoType
<1>6. QED
    BY SMTT(30), <1>1, <1>2, <1>3, <1>4, <1>5

\* The actions of the receive half and of the network keep the types.
LEMMA RcvActionsType ==
    TypeOK /\ (DataArrival \/ HandUp \/ Read \/ ATmr \/ RcvInactTmr \/ Loss) => TypeOK'
<1> SUFFICES ASSUME TypeOK,
                    DataArrival \/ HandUp \/ Read \/ ATmr \/ RcvInactTmr \/ Loss
             PROVE  TypeOK'
    OBVIOUS
<1>c. \A b : CtlSeqAfter(b) \in Nat
    BY SMTT(30) DEF CtlSeqAfter, TypeOK, RcvType
<1>1. CASE DataArrival
    <2>1. PICK c \in RxCpu, i \in DOMAIN dnet : rl_normal_sdu_rx(c, i)
        BY <1>1 DEF DataArrival
    <2>2. dnet[i] \in DataPdu /\ i \in 1..Len(dnet)
        BY SMTT(30) DEF TypeOK
    <2>3. /\ RcvType' /\ rxp' \in [RxCpu -> Seq(RxItem)] /\ flags' \subseteq Flag
          /\ cnet' \in Seq(CtrlPdu) /\ tmrs' \subseteq Tmr
        BY ZenonT(30), <2>1, <2>2, RxType DEF rl_normal_sdu_rx
    <2>4. dnet' \in Seq(DataPdu)
        BY ZenonT(30), <2>1, <2>2, DropAtProperties DEF rl_normal_sdu_rx, TypeOK
    <2>5. QED
        BY SMTT(30), <2>1, <2>3, <2>4, UnchangedType DEF rl_normal_sdu_rx, TypeOK, IoType
<1>2. CASE HandUp
    <2>1. PICK c \in RxCpu : rl_sdu_rx_flow(c)
        BY <1>2 DEF HandUp
    <2> DEFINE it == Head(rxp[c])
    <2>2. rxp[c] \in Seq(RxItem) /\ rxp[c] # <<>>
        BY SMTT(30), <2>1 DEF rl_sdu_rx_flow, TypeOK, IoType
    <2>3. it \in RxItem /\ Tail(rxp[c]) \in Seq(RxItem)
        BY <2>2, HeadTail
    <2>4. /\ rxp' = [rxp EXCEPT ![c] = Tail(rxp[c])]
          /\ rx_q' = rx_q \/ rx_q' = Append(rx_q, it)
          /\ delivered' = delivered \/ delivered' = Append(delivered, it.sdu)
        BY <2>1 DEF rl_sdu_rx_flow
    <2> HIDE DEF it
    <2>5. IoType'
        <3>1. it.sdu \in SDU
            BY <2>3 DEF RxItem
        <3>2. rxp' \in [RxCpu -> Seq(RxItem)]
            BY <2>3, <2>4 DEF TypeOK, IoType
        <3>3. rx_q \in Seq(RxItem) /\ delivered \in Seq(SDU)
            BY DEF TypeOK, IoType
        <3>4. Append(rx_q, it) \in Seq(RxItem)
            BY <2>3, <3>3
        <3>5. Append(delivered, it.sdu) \in Seq(SDU)
            BY <3>1, <3>3
        <3>6. QED
            BY ZenonT(30), <2>4, <3>2, <3>3, <3>4, <3>5 DEF IoType
    <2>6. QED
        BY <2>1, <2>5, UnchangedType DEF rl_sdu_rx_flow, TypeOK
<1>3. CASE Read
    <2> DEFINE it == Head(rx_q)
    <2>1. it \in RxItem /\ Tail(rx_q) \in Seq(RxItem)
        BY <1>3 DEF Read, TypeOK, IoType
    <2>2. it.sdu \in SDU /\ it.cons_seqnum + 1 \in Nat
        <3> HIDE DEF it
        <3> QED BY SMTT(30), <2>1 DEF RxItem
    <2>3. IoType'
        BY <1>3, <2>1, <2>2 DEF Read, TypeOK, IoType
    <2>4. RcvType' /\ cnet' \in Seq(CtrlPdu) /\ tmrs' \subseteq Tmr
        <3>1. CASE ~Controlled
            BY SMTT(30), <1>3, <3>1, UnchangedType DEF Read, TypeOK
        <3>2. CASE Controlled
            <4>1. /\ sdu_rx_sv_update(FALSE, it.cons_seqnum + 1, rcv_next_seq_num,
                                      last_lwe_sent, last_seq_num_acked, tmrs)
                  /\ next_snd_ctl_seq' \in Nat /\ UNCHANGED seqq
                BY ZenonT(30), <1>3, <1>c, <3>2 DEF Read
            <4> HIDE DEF it
            <4>2. QED
                BY ZenonT(30), <2>2, <4>1, SvUpdateType DEF TypeOK, RcvType
        <3>3. QED
            BY SMTT(30), <3>1, <3>2
    <2>5. QED
        BY SMTT(30), <1>3, <2>3, <2>4, UnchangedType DEF Read, TypeOK
<1>4. CASE ATmr
    <2>1. /\ sdu_rx_sv_update(TRUE, rcv_lwe, rcv_next_seq_num, last_lwe_sent,
                              last_seq_num_acked, tmrs \ {"a"})
          /\ next_snd_ctl_seq' \in Nat
        BY Zenon, <1>4, <1>c DEF ATmr
    <2>2. tmrs \ {"a"} \in SUBSET Tmr
        BY DEF TypeOK
    <2>3. /\ rcv_lwe' = rcv_lwe /\ rcv_next_seq_num' = rcv_next_seq_num /\ rcv_rwe' \in Nat
          /\ last_lwe_sent' \in Nat /\ last_seq_num_acked' \in Nat
          /\ cnet' \in Seq(CtrlPdu) /\ tmrs' \subseteq Tmr
        BY Zenon, <2>1, <2>2, SvUpdateType DEF TypeOK, RcvType
    <2>4. RcvType'
        BY ZenonT(30), <1>4, <2>1, <2>3 DEF ATmr, TypeOK, RcvType
    <2>5. QED
        BY SMTT(30), <1>4, <2>3, <2>4, UnchangedType DEF ATmr, TypeOK
<1>5. CASE RcvInactTmr
    <2>1. RcvType'
        BY <1>5, Constants DEF RcvInactTmr, dtp_rcv_reset, TypeOK, RcvType
    <2>2. flags' \subseteq Flag /\ tmrs' \subseteq Tmr
        BY SMTT(30), <1>5 DEF RcvInactTmr, dtp_rcv_reset, TypeOK, Flag
    <2>3. used' \in [Event -> Nat]
        BY SMTT(30), <1>5, SpendType DEF RcvInactTmr, TypeOK, Event
    <2>4. QED
        BY <1>5, <2>1, <2>2, <2>3, UnchangedType DEF RcvInactTmr, TypeOK
<1>6. CASE Loss
    <2>1. used' \in [Event -> Nat]
        BY SMTT(30), <1>6, SpendType DEF Loss, LoseData, LoseCtrl, TypeOK, Event
    <2>2. dnet' \in Seq(DataPdu) /\ cnet' \in Seq(CtrlPdu)
        BY <1>6, DropAtProperties DEF Loss, LoseData, LoseCtrl, TypeOK
    <2>3. QED
        BY SMTT(30), <1>6, <2>1, <2>2, UnchangedType DEF Loss, LoseData, LoseCtrl, TypeOK
<1>7. QED
    BY SMTT(30), <1>1, <1>2, <1>3, <1>4, <1>5, <1>6

\* Every step keeps the types.
LEMMA NextType == TypeOK /\ [Next]_vars => TypeOK'
<1>1. TypeOK /\ CtrlArrival => TypeOK'
    BY SMTT(30), SduRxCtrlType DEF CtrlArrival
<1>2. TypeOK /\ UNCHANGED vars => TypeOK'
    BY UnchangedType DEF vars, TypeOK
<1>3. QED
    BY <1>1, <1>2, WriteType, RtxTmrType, SndTmrType, RcvActionsType DEF Next

\* Whatever the network does, every variable of struct dtp keeps its type: sequence
\* numbers, window edges and counters never become negative.
THEOREM TypeCorrect == Spec => []TypeOK
<1>1. Init => TypeOK
    BY SMTT(30), Constants DEF Init, TypeOK, SndType, RcvType, IoType, Flag, Event
<1>2. QED
    BY <1>1, NextType, PTL DEF Spec

--------------------------------------------------------------------------------
(* The send half: its queues, the window and rtx_tmr.                           *)

\* The inductive invariant of the send half.  The two queues are in use only under
\* the mechanism they belong to; the window argument needs CwqContinuesSent (a PDU
\* in the cwq shows that the window is used up), and so does the rtxq.
SndInv ==
    /\ ~FlowCtrl => cwq = <<>>
    /\ ~RtxCtrl => rtxq = <<>>
    /\ CwqContinuesSent /\ WindowRespected /\ RtxTimerArmed /\ RtxqHoldsUnacked

\* SndInv is about the send half, rtx_tmr and the count of failed allocations only.
LEMMA UnchangedSndInv ==
    SndInv /\ UNCHANGED <<sndSeq, sndWin, sndRtx, used>> /\ ("rtx" \in tmrs' <=> "rtx" \in tmrs)
        => SndInv'
BY ZenonT(30) DEF SndInv, CwqContinuesSent, WindowRespected, RtxTimerArmed, RtxqHoldsUnacked,
       sndSeq, sndWin, sndRtx

\* Counting an event other than a failed allocation does not matter to SndInv.
LEMMA SpendSndInv ==
    ASSUME TypeOK, SndInv, NEW e \in Event \ {"oom"}, NEW max, Spend(e, max),
           UNCHANGED <<sndSeq, sndWin, sndRtx>>, "rtx" \in tmrs' <=> "rtx" \in tmrs
    PROVE  SndInv'
<1>1. used'["oom"] = used["oom"]
    BY SMTT(30) DEF Spend, TypeOK, Event
<1>2. QED
    BY <1>1 DEF SndInv, CwqContinuesSent, WindowRespected, RtxTimerArmed,
       RtxqHoldsUnacked, sndSeq, sndWin, sndRtx

\* A write in the window finds the cwq empty.
LEMMA WriteInWindow ==
    ASSUME TypeOK, SndInv, InWindow
    PROVE  FlowCtrl => cwq = <<>> /\ next_seq_num_to_use = last_seq_num_sent + 1
BY DEF TypeOK, SndType, SndInv, CwqContinuesSent, WindowRespected, InWindow

\* Writing keeps the invariant of the send half.
LEMMA WriteSndInv == TypeOK /\ SndInv /\ SduWrite => SndInv'
<1> SUFFICES ASSUME TypeOK, SndInv, SduWrite PROVE SndInv'
    OBVIOUS
<1>1. CASE TokenBucketSleep \/ SduWriteBlocked
    BY SMTT(30), <1>1, UnchangedSndInv DEF TokenBucketSleep, SduWriteBlocked, sndVars
<1>2. CASE SduWriteCwq
    <2>1. NewPdu \in DataPdu /\ NewPdu.seqnum = next_seq_num_to_use
        BY SMTT(30), <1>2, NewPduType DEF SduWriteCwq, TakeSeqnum, NewPdu
    <2>2. /\ cwq' = Append(cwq, NewPdu) /\ next_seq_num_to_use' = next_seq_num_to_use + 1
          /\ UNCHANGED <<last_seq_num_sent, snd_rwe, rtxq, acked, tmrs, used>>
        BY SMTT(30), <1>2 DEF SduWriteCwq, TakeSeqnum, sndWin, sndRtx
    <2> HIDE DEF NewPdu
    <2>3. CwqContinuesSent'
        BY SMTT(30), <2>1, <2>2 DEF SndInv, CwqContinuesSent, TypeOK, SndType
    <2>4. Len(cwq) < MaxCwqLen
        BY SMTT(30), <1>2, ConfigAssumption DEF SduWriteCwq, TakeSeqnum, flow_blocked, TypeOK, SndType
    <2>5. WindowRespected'
        <3>1. FlowCtrl /\ next_seq_num_to_use > snd_rwe
            BY SMTT(30), <1>2 DEF SduWriteCwq
        <3>2. last_seq_num_sent = snd_rwe
            BY SMTT(30), <3>1 DEF SndInv, CwqContinuesSent, WindowRespected, TypeOK, SndType
        <3>3. Len(cwq') <= MaxCwqLen
            BY SMTT(30), <2>2, <2>4, ConfigAssumption DEF TypeOK, SndType
        <3>4. QED
            BY <2>2, <3>2, <3>3 DEF WindowRespected, TypeOK, SndType
    <2>6. RtxTimerArmed' /\ RtxqHoldsUnacked'
        BY SMTT(30), <2>2 DEF SndInv, RtxTimerArmed, RtxqHoldsUnacked
    <2>7. QED
        BY SMTT(30), <1>2, <2>2, <2>3, <2>5, <2>6 DEF SndInv, SduWriteCwq
<1>3. CASE SduWriteTx
    <2>1. NewPdu \in DataPdu /\ NewPdu.seqnum = next_seq_num_to_use
        BY <1>3, NewPduType DEF SduWriteTx, InWindow, TakeSeqnum, NewPdu
    <2>2. FlowCtrl => cwq = <<>> /\ next_seq_num_to_use = last_seq_num_sent + 1
        BY SMTT(30), <1>3, WriteInWindow DEF SduWriteTx
    <2>3. /\ FlowCtrl => last_seq_num_sent' = next_seq_num_to_use
          /\ next_seq_num_to_use' = next_seq_num_to_use + 1
          /\ FlowCtrl => next_seq_num_to_use <= snd_rwe
          /\ rtxq' = IF RtxCtrl THEN rtxq \o <<NewPdu>> ELSE rtxq
          /\ RtxCtrl => "rtx" \in tmrs'
          /\ ~RtxCtrl => ("rtx" \in tmrs' <=> "rtx" \in tmrs)
          /\ UNCHANGED <<cwq, snd_rwe, acked, used>>
        BY <1>3 DEF SduWriteTx, InWindow, TakeSeqnum, PushAndArm, sndWin
    <2> HIDE DEF NewPdu
    <2>4. CwqContinuesSent' /\ WindowRespected'
        BY SMTT(30), <2>2, <2>3, ConfigAssumption
           DEF SndInv, CwqContinuesSent, WindowRespected, TypeOK, SndType
    <2>5. RtxTimerArmed'
        BY SMTT(30), <2>1, <2>3 DEF SndInv, RtxTimerArmed, TypeOK, SndType
    <2>6. RtxqHoldsUnacked'
        <3> SUFFICES ASSUME RtxCtrl, used["oom"] = 0
                     PROVE  /\ acked + Len(rtxq') = next_seq_num_to_use + 1
                            /\ \A i \in DOMAIN rtxq' : rtxq'[i].seqnum = acked + i - 1
            BY SMTT(30), <2>3, ConfigAssumption DEF RtxqHoldsUnacked
        <3>1. FlowCtrl
            BY SMTT(30), ConfigAssumption
        <3>2. /\ acked + Len(rtxq) = last_seq_num_sent + 1
              /\ \A i \in DOMAIN rtxq : rtxq[i].seqnum = acked + i - 1
            BY SMTT(30) DEF SndInv, RtxqHoldsUnacked
        <3>3. rtxq' = Append(rtxq, NewPdu)
            BY SMTT(30), <2>1, <2>3 DEF TypeOK, SndType
        <3>4. rtxq \in Seq(DataPdu) /\ acked \in Nat /\ last_seq_num_sent \in Int
            BY DEF TypeOK, SndType
        <3>5. Len(rtxq') = Len(rtxq) + 1 /\ DOMAIN rtxq' = 1..(Len(rtxq) + 1)
            BY <2>1, <3>3, <3>4
        <3>6. \A i \in 1..(Len(rtxq) + 1) : rtxq'[i].seqnum = acked + i - 1
            <4> SUFFICES ASSUME NEW i \in 1..(Len(rtxq) + 1)
                         PROVE  rtxq'[i].seqnum = acked + i - 1
                OBVIOUS
            <4>1. CASE i = Len(rtxq) + 1
                BY <2>1, <2>2, <3>1, <3>2, <3>3, <3>4, <4>1
            <4>2. CASE i # Len(rtxq) + 1
                BY <2>1, <3>2, <3>3, <3>4, <4>2
            <4>3. QED
                BY <4>1, <4>2
        <3>7. QED
            BY <2>2, <3>1, <3>2, <3>4, <3>5, <3>6
    <2>7. QED
        BY SMTT(30), <2>3, <2>4, <2>5, <2>6 DEF SndInv
<1>4. CASE SduWriteOom
    <2>1. used'["oom"] = used["oom"] + 1 /\ used["oom"] \in Nat
        BY <1>4 DEF SduWriteOom, Spend, TypeOK, Event
    <2>2. FlowCtrl => cwq = <<>> /\ next_seq_num_to_use = last_seq_num_sent + 1
        BY SMTT(30), <1>4, WriteInWindow DEF SduWriteOom
    <2>3. /\ FlowCtrl => last_seq_num_sent' = next_seq_num_to_use
          /\ next_seq_num_to_use' = next_seq_num_to_use + 1
          /\ FlowCtrl => next_seq_num_to_use <= snd_rwe
          /\ UNCHANGED <<cwq, snd_rwe, rtxq, acked, tmrs>>
        BY <1>4 DEF SduWriteOom, InWindow, TakeSeqnum, sndWin, sndRtx
    <2>4. CwqContinuesSent' /\ WindowRespected'
        BY SMTT(30), <2>2, <2>3, ConfigAssumption
           DEF SndInv, CwqContinuesSent, WindowRespected, TypeOK, SndType
    <2>5. QED
        BY SMTT(30), <2>1, <2>3, <2>4 DEF SndInv, RtxTimerArmed, RtxqHoldsUnacked
<1>5. CASE SduWriteEagain
    <2>1. FlowCtrl => cwq = <<>> /\ next_seq_num_to_use = last_seq_num_sent + 1
        BY SMTT(30), <1>5, WriteInWindow DEF SduWriteEagain
    <2>2. /\ FlowCtrl => last_seq_num_sent' = next_seq_num_to_use
          /\ next_seq_num_to_use' = next_seq_num_to_use + 1
          /\ FlowCtrl => next_seq_num_to_use <= snd_rwe
          /\ ~RtxCtrl
          /\ UNCHANGED <<cwq, snd_rwe, rtxq, acked>>
          /\ "rtx" \in tmrs' <=> "rtx" \in tmrs
        BY <1>5 DEF SduWriteEagain, InWindow, TakeSeqnum, PushAndArm, sndWin
    <2>3. CwqContinuesSent' /\ WindowRespected'
        BY SMTT(30), <2>1, <2>2, ConfigAssumption
           DEF SndInv, CwqContinuesSent, WindowRespected, TypeOK, SndType
    <2>4. QED
        BY SMTT(30), <2>2, <2>3 DEF SndInv, RtxTimerArmed, RtxqHoldsUnacked
<1>6. QED
    BY <1>1, <1>2, <1>3, <1>4, <1>5 DEF SduWrite

\* An ACK on the queue q leaves the retransmission timer armed exactly if PDUs remain.
LEMMA AckUpdateArmed ==
    ASSUME TypeOK, RtxTimerArmed, NEW c \in CtrlPdu, NEW q \in Seq(DataPdu),
           q = <<>> => rtxq = <<>>, AckUpdate(c, q)
    PROVE  RtxTimerArmed'
<1> DEFINE n == IF c.ack THEN Below(q, c.ack_nack_seq_num) ELSE 0
<1>1. n \in 0..Len(q)
    <2>1. c.ack_nack_seq_num \in Nat /\ \A i \in 1..Len(q) : q[i].seqnum \in Nat
        BY SMTT(30), PduFields
    <2>2. Below(q, c.ack_nack_seq_num) \in 0..Len(q)
        BY Zenon, <2>1, BelowProperties
    <2>3. QED
        BY SMTT(30), <2>2
<1>2. /\ rtxq' = PopFront(q, n)
      /\ tmrs' = IF n < Len(q) /\ (c.ack \/ q # rtxq) THEN tmrs \cup {"rtx"}
                 ELSE IF n = Len(q) /\ c.ack THEN tmrs \ {"rtx"} ELSE tmrs
      /\ ~c.ack => n = 0
    BY Zenon DEF AckUpdate
<1> HIDE DEF n
<1>3. PopFront(q, n) \in Seq(DataPdu) /\ Len(PopFront(q, n)) = Len(q) - n
    BY SMTT(30), <1>1, PopFrontProperties
<1>4. rtxq' = <<>> <=> n = Len(q)
    BY SMTT(30), <1>1, <1>2, <1>3
<1>5. CASE n = Len(q) /\ c.ack
    BY SMTT(30), <1>2, <1>4, <1>5 DEF RtxTimerArmed
<1>6. CASE n < Len(q) /\ (c.ack \/ q # rtxq)
    BY SMTT(30), <1>1, <1>2, <1>4, <1>6 DEF RtxTimerArmed
<1>7. CASE n < Len(q) /\ ~c.ack /\ q = rtxq
    <2>1. tmrs' = tmrs /\ rtxq' # <<>> /\ rtxq # <<>>
        BY SMTT(30), <1>1, <1>2, <1>4, <1>7
    <2>2. QED
        BY SMTT(30), <2>1 DEF RtxTimerArmed
<1>8. CASE n = Len(q) /\ ~c.ack
    <2>1. q = <<>>
        BY SMTT(30), <1>2, <1>8
    <2>2. tmrs' = tmrs /\ rtxq' = <<>> /\ rtxq = <<>>
        BY SMTT(30), <1>2, <1>4, <1>8, <2>1
    <2>3. QED
        BY SMTT(30), <2>2 DEF RtxTimerArmed
<1>9. QED
    BY SMTT(30), <1>1, <1>5, <1>6, <1>7, <1>8

\* An ACK takes a prefix off a queue that numbers its PDUs from acked on.
LEMMA AckUpdateUnacked ==
    ASSUME TypeOK, NEW c \in CtrlPdu, NEW q \in Seq(DataPdu), AckUpdate(c, q),
           \A i \in 1..Len(q) : q[i].seqnum = acked + i - 1
    PROVE  /\ acked' + Len(rtxq') = acked + Len(q)
           /\ \A i \in DOMAIN rtxq' : rtxq'[i].seqnum = acked' + i - 1
<1> DEFINE n == IF c.ack THEN Below(q, c.ack_nack_seq_num) ELSE 0
<1>1. n \in 0..Len(q)
    <2>1. c.ack_nack_seq_num \in Nat /\ \A i \in 1..Len(q) : q[i].seqnum \in Nat
        BY SMTT(30), PduFields
    <2>2. Below(q, c.ack_nack_seq_num) \in 0..Len(q)
        BY SMTT(30), <2>1, BelowProperties
    <2>3. QED
        BY SMTT(30), <2>2
<1>2. rtxq' = PopFront(q, n) /\ acked' = IF n = 0 THEN acked ELSE q[n].seqnum + 1
    BY ZenonT(30) DEF AckUpdate
<1> HIDE DEF n
<1>3. /\ PopFront(q, n) \in Seq(DataPdu) /\ Len(PopFront(q, n)) = Len(q) - n
      /\ \A i \in 1..(Len(q) - n) : PopFront(q, n)[i] = q[n + i]
    BY SMTT(30), <1>1, PopFrontProperties
<1>4. acked' = acked + n
    BY SMTT(30), <1>1, <1>2 DEF TypeOK, SndType
<1>5. \A i \in 1..(Len(q) - n) : q[n + i].seqnum = acked + n + i - 1
    <2> TAKE i \in 1..(Len(q) - n)
    <2>1. n + i \in 1..Len(q)
        BY SMTT(30), <1>1
    <2>2. QED
        BY SMTT(30), <2>1, <1>1 DEF TypeOK, SndType
<1>6. DOMAIN rtxq' = 1..(Len(q) - n) /\ Len(rtxq') = Len(q) - n
    BY SMTT(30), <1>1, <1>2, <1>3
<1>7. acked' + Len(rtxq') = acked + Len(q)
    <2>1. acked \in Nat /\ Len(q) \in Nat
        BY DEF TypeOK, SndType
    <2>2. QED
        BY <1>1, <1>4, <1>6, <2>1
<1>8. \A i \in DOMAIN rtxq' : rtxq'[i].seqnum = acked' + i - 1
    BY ZenonT(30), <1>2, <1>3, <1>4, <1>5, <1>6
<1>9. QED
    BY SMTT(30), <1>7, <1>8

\* sdu_rx_ctrl() keeps the window and what is left of the cwq in step.
LEMMA WindowUpdateInv ==
    ASSUME TypeOK, SndInv, NEW c \in CtrlPdu, WindowUpdate(c), UNCHANGED next_seq_num_to_use
    PROVE  CwqContinuesSent' /\ WindowRespected' /\ (~FlowCtrl => cwq' = <<>>)
<1> DEFINE n == CwqOpen(c)
<1>1. n \in 0..Len(cwq) /\ (n > 0 => last_seq_num_sent \in Nat)
    BY SMTT(30), WindowUpdateType
<1>2. /\ PopFront(cwq, n) \in Seq(DataPdu) /\ Len(PopFront(cwq, n)) = Len(cwq) - n
      /\ \A i \in 1..(Len(cwq) - n) : PopFront(cwq, n)[i] = cwq[n + i]
    BY ZenonT(30), <1>1, PopFrontProperties DEF TypeOK, SndType
<1>3. /\ cwq' = PopFront(cwq, n) /\ last_seq_num_sent' = last_seq_num_sent + n
      /\ snd_rwe' = IF WindowMoves(c) THEN c.new_rwe ELSE snd_rwe
    BY DEF WindowUpdate
<1>4. c.new_rwe \in Nat /\ c.new_lwe \in Nat
    BY PduFields
<1>5. WindowMoves(c) => c.new_rwe >= snd_rwe
    BY SMTT(30), <1>4 DEF WindowMoves, WindowBackward, TypeOK, SndType
<1>6. /\ n = 0 \/ (WindowMoves(c) /\ last_seq_num_sent + n <= c.new_rwe)
      /\ n < Len(cwq) => \/ ~WindowMoves(c) \/ last_seq_num_sent = -1
                         \/ last_seq_num_sent + n >= c.new_rwe
    BY SMTT(30), <1>4 DEF CwqOpen, TypeOK, SndType
<1> HIDE DEF n
<1>7. CwqContinuesSent'
    <2> SUFFICES ASSUME FlowCtrl
                 PROVE  /\ next_seq_num_to_use' = last_seq_num_sent' + Len(cwq') + 1
                        /\ \A i \in DOMAIN cwq' : cwq'[i].seqnum = last_seq_num_sent' + i
        BY SMTT(30) DEF CwqContinuesSent
    <2>1. /\ next_seq_num_to_use = last_seq_num_sent + Len(cwq) + 1
          /\ \A i \in 1..Len(cwq) : cwq[i].seqnum = last_seq_num_sent + i
        BY SMTT(30) DEF SndInv, CwqContinuesSent, TypeOK, SndType
    <2>2. \A i \in 1..(Len(cwq) - n) : cwq[n + i].seqnum = last_seq_num_sent + n + i
        <3> TAKE i \in 1..(Len(cwq) - n)
        <3>1. n + i \in 1..Len(cwq)
            BY SMTT(30), <1>1
        <3>2. QED
            BY SMTT(30), <3>1, <2>1, <1>1 DEF TypeOK, SndType
    <2>3. DOMAIN cwq' = 1..(Len(cwq) - n) /\ Len(cwq') = Len(cwq) - n
        BY SMTT(30), <1>1, <1>2, <1>3
    <2>4. next_seq_num_to_use' = last_seq_num_sent' + Len(cwq') + 1
        BY SMTT(30), <1>1, <1>3, <2>1, <2>3 DEF TypeOK, SndType
    <2>5. \A i \in DOMAIN cwq' : cwq'[i].seqnum = last_seq_num_sent' + i
        BY SMTT(30), <1>2, <1>3, <2>2, <2>3
    <2>6. QED
        BY SMTT(30), <2>4, <2>5
<1>8. WindowRespected'
    <2> SUFFICES ASSUME FlowCtrl
                 PROVE  /\ last_seq_num_sent' <= snd_rwe'
                        /\ cwq' # <<>> => last_seq_num_sent' = snd_rwe'
                        /\ Len(cwq') <= MaxCwqLen
        BY DEF WindowRespected
    <2>1. /\ last_seq_num_sent <= snd_rwe /\ Len(cwq) <= MaxCwqLen
          /\ cwq # <<>> => last_seq_num_sent = snd_rwe
        BY SMTT(30) DEF SndInv, WindowRespected
    <2>2. last_seq_num_sent' <= snd_rwe'
        BY SMTT(30), <1>1, <1>3, <1>4, <1>5, <1>6, <2>1 DEF TypeOK, SndType
    <2>3. cwq' # <<>> => n < Len(cwq) /\ cwq # <<>>
        BY SMTT(30), <1>1, <1>2, <1>3
    <2>4. cwq' # <<>> => last_seq_num_sent' = snd_rwe'
        <3> SUFFICES ASSUME cwq' # <<>> PROVE last_seq_num_sent' = snd_rwe'
            BY SMTT(30)
        <3>1. n < Len(cwq) /\ last_seq_num_sent = snd_rwe /\ snd_rwe \in Nat
            BY SMTT(30), <2>1, <2>3 DEF TypeOK, SndType
        <3>2. CASE ~WindowMoves(c)
            BY SMTT(30), <1>1, <1>3, <1>6, <3>1, <3>2
        <3>3. CASE WindowMoves(c)
            <4>1. last_seq_num_sent + n >= c.new_rwe
                BY SMTT(30), <1>6, <3>1, <3>3
            <4>2. QED
                BY SMTT(30), <1>1, <1>3, <1>4, <2>2, <3>1, <3>3, <4>1
        <3>4. QED
            BY <3>2, <3>3
    <2>5. Len(cwq') <= MaxCwqLen
        BY SMTT(30), <1>1, <1>2, <1>3, <2>1, ConfigAssumption DEF TypeOK, SndType
    <2>6. QED
        BY SMTT(30), <2>2, <2>4, <2>5
<1>9. ~FlowCtrl => cwq' = <<>>
    <2> SUFFICES ASSUME ~FlowCtrl PROVE cwq' = <<>>
        OBVIOUS
    <2>1. Len(cwq) = 0
        BY SMTT(30) DEF SndInv
    <2>2. cwq' \in Seq(DataPdu) /\ Len(cwq') = Len(cwq) - n
        BY <1>2, <1>3
    <2>3. n = 0
        BY SMTT(30), <1>1, <2>1
    <2>4. Len(cwq') = 0
        BY SMTT(30), <2>1, <2>2, <2>3
    <2>5. QED
        BY SMTT(30), <2>2, <2>4
<1>10. QED
    BY SMTT(30), <1>7, <1>8, <1>9

\* sdu_rx_ctrl() keeps the invariant of the send half.
LEMMA SduRxCtrlSndInv ==
    ASSUME TypeOK, SndInv, NEW i \in DOMAIN cnet, SduRxCtrl(i)
    PROVE  SndInv'
<1> DEFINE c == cnet[i]
           n == CwqOpen(c)
<1>1. c \in CtrlPdu
    BY SMTT(30) DEF TypeOK
<1>2. CASE DuplicateCtrl(c)
    BY SMTT(30), <1>2, UnchangedSndInv DEF SduRxCtrl, sndVars
<1>3. CASE ~DuplicateCtrl(c)
    <2>1. /\ WindowUpdate(c) /\ UNCHANGED next_seq_num_to_use
          /\ \/ /\ AckUpdate(c, IF RtxCtrl THEN rtxq \o SubSeq(cwq, 1, n) ELSE rtxq)
                /\ UNCHANGED used
             \/ /\ RtxCtrl /\ Spend("oom", MaxOom)
                /\ \E k \in 1..n : AckUpdate(c, rtxq \o DropAt(SubSeq(cwq, 1, n), k))
        BY SMTT(30), <1>3 DEF SduRxCtrl
    <2> HIDE DEF c
    <2>2. /\ n \in 0..Len(cwq) /\ SubSeq(cwq, 1, n) \in Seq(DataPdu)
          /\ Len(SubSeq(cwq, 1, n)) = n
        BY SMTT(30), <1>1, WindowUpdateType
    <2>3. CwqContinuesSent' /\ WindowRespected' /\ (~FlowCtrl => cwq' = <<>>)
        BY SMTT(30), <1>1, <2>1, WindowUpdateInv
    <2>4. last_seq_num_sent' = last_seq_num_sent + n
        BY SMTT(30), <2>1 DEF WindowUpdate
    <2>5. rtxq \in Seq(DataPdu) /\ cwq \in Seq(DataPdu)
        BY SMTT(30) DEF TypeOK, SndType
    <2> HIDE DEF n
    <2>6. CASE ~RtxCtrl
        <3>1. AckUpdate(c, rtxq) /\ rtxq = <<>>
            BY SMTT(30), <2>1, <2>6 DEF SndInv
        <3>2. RtxTimerArmed'
            BY ZenonT(30), <1>1, <2>5, <3>1, AckUpdateArmed DEF SndInv
        <3>3. rtxq' = <<>>
            <4>1. Len(rtxq') <= 0 /\ rtxq' \in Seq(DataPdu)
                <5>1. /\ Len(rtxq) = 0 /\ c.ack_nack_seq_num \in Nat
                      /\ \A j \in 1..Len(rtxq) : rtxq[j].seqnum \in Nat
                    BY SMTT(30), <1>1, <3>1, PduFields
                <5>2. Below(rtxq, c.ack_nack_seq_num) \in 0..Len(rtxq)
                    BY ZenonT(30), <2>5, <5>1, BelowProperties
                <5>3. rtxq' = PopFront(rtxq, 0) /\ 0 \in 0..Len(rtxq)
                    BY <3>1, <5>1, <5>2 DEF AckUpdate
                <5>4. /\ PopFront(rtxq, 0) \in Seq(DataPdu)
                      /\ Len(PopFront(rtxq, 0)) = Len(rtxq) - 0
                    BY ZenonT(30), <2>5, <5>3, PopFrontProperties
                <5>5. QED
                    BY <5>1, <5>3, <5>4
            <4>2. QED
                BY <4>1
        <3>4. QED
            BY SMTT(30), <2>3, <2>6, <3>2, <3>3 DEF SndInv, RtxqHoldsUnacked
    <2>7. CASE RtxCtrl /\ AckUpdate(c, rtxq \o SubSeq(cwq, 1, n)) /\ UNCHANGED used
        <3> DEFINE q == rtxq \o SubSeq(cwq, 1, n)
        <3>1. q \in Seq(DataPdu) /\ Len(q) = Len(rtxq) + n /\ (q = <<>> => rtxq = <<>>)
            BY SMTT(30), <2>2, <2>5
        <3>2. RtxTimerArmed'
            <4> HIDE DEF q
            <4> QED BY ZenonT(30), <1>1, <2>7, <3>1, AckUpdateArmed DEF SndInv, q
        <3>3. RtxqHoldsUnacked'
            <4> SUFFICES ASSUME used["oom"] = 0
                         PROVE  /\ acked' + Len(rtxq') = last_seq_num_sent' + 1
                                /\ \A j \in DOMAIN rtxq' : rtxq'[j].seqnum = acked' + j - 1
                BY SMTT(30), <2>7 DEF RtxqHoldsUnacked
            <4>1. /\ acked + Len(rtxq) = last_seq_num_sent + 1
                  /\ \A j \in 1..Len(rtxq) : rtxq[j].seqnum = acked + j - 1
                BY SMTT(30), <2>7, <2>5 DEF SndInv, RtxqHoldsUnacked
            <4>2. \A j \in 1..Len(cwq) : cwq[j].seqnum = last_seq_num_sent + j
                BY SMTT(30), <2>7, <2>5, ConfigAssumption DEF SndInv, CwqContinuesSent
            <4>3. \A j \in 1..Len(q) : q[j].seqnum = acked + j - 1
                <5> TAKE j \in 1..Len(q)
                <5>1. CASE j <= Len(rtxq)
                    BY <5>1, <3>1, <4>1, <2>5, <2>2
                <5>2. CASE j > Len(rtxq)
                    <6>1. j - Len(rtxq) \in 1..n /\ j - Len(rtxq) \in 1..Len(cwq)
                        BY SMTT(30), <5>2, <3>1, <2>2, <2>5
                    <6>2. q[j] = cwq[j - Len(rtxq)]
                        BY SMTT(30), <5>2, <6>1, <2>2, <2>5
                    <6>3. cwq[j - Len(rtxq)].seqnum = last_seq_num_sent + (j - Len(rtxq))
                        BY SMTT(30), <6>1, <4>2
                    <6>4. acked + Len(rtxq) = last_seq_num_sent + 1
                        BY SMTT(30), <4>1
                    <6>5. acked \in Nat /\ Len(rtxq) \in Nat /\ last_seq_num_sent \in Int
                        BY SMTT(30), <2>5 DEF TypeOK, SndType
                    <6>6. j \in Nat /\ q[j].seqnum = last_seq_num_sent + (j - Len(rtxq))
                        BY SMTT(30), <3>1, <6>2, <6>3
                    <6> HIDE DEF q
                    <6>7. QED
                        BY SMTT(30), <6>4, <6>5, <6>6
                <5>3. j \in Nat /\ Len(rtxq) \in Nat
                    BY SMTT(30), <2>5, <3>1
                <5> HIDE DEF q
                <5>4. QED
                    BY SMTT(30), <5>1, <5>2, <5>3
            <4> HIDE DEF q
            <4>4. AckUpdate(c, q)
                BY SMTT(30), <2>7 DEF q
            <4>5. /\ acked' + Len(rtxq') = acked + Len(q)
                  /\ \A j \in DOMAIN rtxq' : rtxq'[j].seqnum = acked' + j - 1
                BY SMTT(30), <1>1, <3>1, <4>3, <4>4, AckUpdateUnacked
            <4>6. /\ acked \in Nat /\ Len(rtxq) \in Nat /\ n \in Nat
                  /\ last_seq_num_sent \in Int
                BY SMTT(30), <2>2, <2>5 DEF TypeOK, SndType
            <4>7. acked + Len(q) = last_seq_num_sent' + 1
                <5>1. Len(q) = Len(rtxq) + n /\ acked + Len(rtxq) = last_seq_num_sent + 1
                    BY SMTT(30), <3>1, <4>1 DEF q
                <5>2. QED
                    BY SMTT(30), <2>4, <4>6, <5>1
            <4>8. QED
                BY <4>5, <4>7
        <3>4. QED
            BY SMTT(30), <2>3, <2>7, <3>2, <3>3 DEF SndInv
    <2>8. CASE /\ RtxCtrl /\ Spend("oom", MaxOom)
               /\ \E k \in 1..n : AckUpdate(c, rtxq \o DropAt(SubSeq(cwq, 1, n), k))
        <3>0. PICK k \in 1..n : AckUpdate(c, rtxq \o DropAt(SubSeq(cwq, 1, n), k))
            BY <2>8
        <3> DEFINE d == DropAt(SubSeq(cwq, 1, n), k)
                   q == rtxq \o d
        <3>1. q \in Seq(DataPdu) /\ (q = <<>> => rtxq = <<>>)
            <4>1. d \in Seq(DataPdu)
                BY <2>2, DropAtProperties
            <4> HIDE DEF d
            <4>2. QED
                BY SMTT(30), <2>5, <4>1
        <3>2. RtxTimerArmed'
            <4> HIDE DEF q
            <4> QED BY ZenonT(30), <1>1, <3>0, <3>1, AckUpdateArmed DEF SndInv, q
        <3>3. used'["oom"] # 0
            BY <2>8 DEF Spend, TypeOK, Event
        <3>4. QED
            BY ZenonT(30), <2>3, <2>8, <3>2, <3>3 DEF SndInv, RtxqHoldsUnacked
    <2>9. QED
        BY SMTT(30), <2>1, <2>6, <2>7, <2>8
<1>4. QED
    BY SMTT(30), <1>2, <1>3

\* The timers of the send half keep its invariant.
LEMMA SndTmrSndInv == TypeOK /\ SndInv /\ (RtxTmr \/ RtxTmrEnd \/ SndInactTmr) => SndInv'
<1> SUFFICES ASSUME TypeOK, SndInv, RtxTmr \/ RtxTmrEnd \/ SndInactTmr PROVE SndInv'
    OBVIOUS
<1>1. CASE RtxTmr
    <2>1. PICK f \in Picks : RtxTmrFor(f)
        BY SMTT(30), <1>1 DEF RtxTmr
    <2>2. UNCHANGED <<sndSeq, sndWin, sndRtx>> /\ ("rtx" \in tmrs' <=> "rtx" \in tmrs)
        BY SMTT(30), <2>1 DEF RtxTmrFor
    <2>3. used'["oom"] = used["oom"]
        BY SMTT(30), <2>1 DEF RtxTmrFor, Spend, TypeOK, Event
    <2>4. QED
        BY SMTT(30), <2>2, <2>3 DEF SndInv, CwqContinuesSent, WindowRespected, RtxTimerArmed,
           RtxqHoldsUnacked, sndSeq, sndWin, sndRtx
<1>2. CASE RtxTmrEnd
    BY SMTT(30), <1>2, UnchangedSndInv DEF RtxTmrEnd
<1>3. CASE SndInactTmr
    <2>1. /\ next_seq_num_to_use' = 0 /\ last_seq_num_sent' = -1 /\ snd_rwe' = Credit
          /\ acked' = 0 /\ rtxq' = <<>> /\ cwq' = <<>> /\ "rtx" \notin tmrs'
        BY SMTT(30), <1>3 DEF SndInactTmr, dtp_snd_reset
    <2>2. MaxCwqLen \in Nat
        BY SMTT(30), ConfigAssumption
    <2>3. CwqContinuesSent' /\ WindowRespected'
        BY SMTT(30), <2>1, <2>2, Constants DEF CwqContinuesSent, WindowRespected
    <2>4. RtxTimerArmed' /\ RtxqHoldsUnacked'
        BY <2>1 DEF RtxTimerArmed, RtxqHoldsUnacked
    <2>5. QED
        BY SMTT(30), <2>1, <2>3, <2>4 DEF SndInv
<1>4. QED
    BY <1>1, <1>2, <1>3

\* The receive half and the network leave the send half alone.
LEMMA RcvActionsSndInv ==
    TypeOK /\ SndInv /\ (DataArrival \/ HandUp \/ Read \/ ATmr \/ RcvInactTmr \/ Loss)
        => SndInv'
<1> SUFFICES ASSUME TypeOK, SndInv,
                    DataArrival \/ HandUp \/ Read \/ ATmr \/ RcvInactTmr \/ Loss
             PROVE  SndInv'
    BY SMTT(30)
<1>1. CASE DataArrival
    <2>1. PICK c \in RxCpu, i \in DOMAIN dnet : rl_normal_sdu_rx(c, i)
        BY SMTT(30), <1>1 DEF DataArrival
    <2>2. dnet[i] \in DataPdu
        BY SMTT(30) DEF TypeOK
    <2>3. "rtx" \in tmrs' <=> "rtx" \in tmrs
        BY ZenonT(30), <2>1, <2>2, RxType DEF rl_normal_sdu_rx
    <2>4. QED
        BY ZenonT(30), <2>1, <2>3, UnchangedSndInv DEF rl_normal_sdu_rx, sndVars
<1>2. CASE HandUp
    BY SMTT(30), <1>2, UnchangedSndInv DEF HandUp, rl_sdu_rx_flow, sndVars
<1>3. CASE Read
    <2> DEFINE lwe == Head(rx_q).cons_seqnum + 1
    <2>1. lwe \in Nat
        <3>1. Head(rx_q) \in RxItem
            BY SMTT(30), <1>3 DEF Read, TypeOK, IoType
        <3>2. QED
            BY SMTT(30), <3>1 DEF RxItem
    <2>2. "rtx" \in tmrs' <=> "rtx" \in tmrs
        <3>1. \/ UNCHANGED tmrs
              \/ sdu_rx_sv_update(FALSE, lwe, rcv_next_seq_num, last_lwe_sent,
                                  last_seq_num_acked, tmrs)
            BY ZenonT(30), <1>3 DEF Read
        <3> HIDE DEF lwe
        <3>2. QED
            BY Zenon, <2>1, <3>1, SvUpdateType DEF TypeOK, RcvType
    <2>3. QED
        BY SMTT(30), <1>3, <2>2, UnchangedSndInv DEF Read, sndVars
<1>4. CASE ATmr
    <2>1. tmrs \ {"a"} \in SUBSET Tmr
        BY DEF TypeOK
    <2>2. "rtx" \in tmrs' <=> "rtx" \in tmrs \ {"a"}
        BY ZenonT(30), <1>4, <2>1, SvUpdateType DEF ATmr, TypeOK, RcvType
    <2>3. QED
        BY <1>4, <2>2, UnchangedSndInv DEF ATmr, sndVars
<1>5. CASE RcvInactTmr
    BY <1>5, SpendSndInv DEF RcvInactTmr, sndVars, Event
<1>6. CASE Loss
    <2>1. CASE \E i \in DOMAIN dnet : LoseData(i)
        BY SMTT(30), <2>1, SpendSndInv DEF LoseData, sndVars, Event
    <2>2. CASE \E i \in DOMAIN cnet : LoseCtrl(i)
        BY SMTT(30), <2>2, SpendSndInv DEF LoseCtrl, sndVars, Event
    <2>3. QED
        BY <1>6, <2>1, <2>2 DEF Loss
<1>7. QED
    BY SMTT(30), <1>1, <1>2, <1>3, <1>4, <1>5, <1>6

\* Every step keeps the invariant of the send half.
LEMMA NextSndInv == TypeOK /\ SndInv /\ [Next]_vars => SndInv'
<1>1. TypeOK /\ SndInv /\ CtrlArrival => SndInv'
    BY SMTT(30), SduRxCtrlSndInv DEF CtrlArrival
<1>2. SndInv /\ UNCHANGED vars => SndInv'
    BY UnchangedSndInv DEF vars, sndVars
<1>3. QED
    BY SMTT(30), <1>1, <1>2, WriteSndInv, SndTmrSndInv, RcvActionsSndInv DEF Next

\* The send half is correct for every flow configuration and whatever happens to the
\* PDUs: the cwq continues what was sent, the window is respected, the rtxq holds
\* exactly the PDUs sent and not acknowledged, and rtx_tmr is pending for them.
THEOREM SenderCorrect ==
    Spec => [](CwqContinuesSent /\ WindowRespected /\ RtxTimerArmed /\ RtxqHoldsUnacked)
<1>1. Init => SndInv
    <2> SUFFICES ASSUME Init PROVE SndInv
        BY SMTT(30)
    <2>1. MaxCwqLen \in Nat
        BY SMTT(30), ConfigAssumption
    <2>2. /\ next_seq_num_to_use = 0 /\ last_seq_num_sent = -1 /\ snd_rwe = Credit
          /\ acked = 0 /\ rtxq = <<>> /\ cwq = <<>> /\ "rtx" \notin tmrs
        BY SMTT(30) DEF Init
    <2>3. CwqContinuesSent /\ WindowRespected
        BY <2>1, <2>2, Constants DEF CwqContinuesSent, WindowRespected
    <2>4. RtxTimerArmed /\ RtxqHoldsUnacked
        BY <2>2 DEF RtxTimerArmed, RtxqHoldsUnacked
    <2>5. QED
        BY <2>2, <2>3, <2>4 DEF SndInv
<1>2. SndInv => CwqContinuesSent /\ WindowRespected /\ RtxTimerArmed /\ RtxqHoldsUnacked
    BY DEF SndInv
<1>3. QED
    BY <1>1, <1>2, TypeCorrect, NextSndInv, PTL DEF Spec
================================================================================
