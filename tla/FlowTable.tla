-------------------------------- MODULE FlowTable --------------------------------
(* The flow entries of the control device (kernel/ctrl-dev.c) and their users: the  *)
(* application and the uipcp on their control devices, the I/O devices that bind    *)
(* flows, a receive path, the timer of the flows_putq and the removal worker.       *)
(* A critical section under the FLOCK is one action; a handler that takes several   *)
(* of them is as many actions of its context.                                       *)
EXTENDS Integers, Sequences, FiniteSets

CONSTANTS
    Entry,      \* memory for flow entries
    None,
    Fd,         \* open I/O devices
    Races,      \* races that are let happen, of "flock" and "unbound"
    MaxFlows,   \* bound on the flows that are ever added
    MaxVisits   \* bound on the deallocations and receptions

ASSUME FlowTableAssumption ==
    /\ None \notin Entry /\ IsFiniteSet(Entry)
    /\ Fd \cap {"app", "uipcp", "rx", "tmr"} = {}
    /\ Races \subseteq {"flock", "unbound"}
    /\ MaxFlows \in Nat /\ MaxVisits \in Nat

Ctx == {"app", "uipcp", "rx", "tmr"} \cup Fd
Port == 0..Cardinality(Entry) - 1

VARIABLES
    refcnt, flags, port, event_id,   \* of each entry
    eof,        \* entries with RL_TXRX_EOF
    mortal,     \* entries that flow_make_mortal() has made mortal
    live,       \* entries that are allocated memory
    table,      \* entries in the hash tables, whose port id is taken
    putq,       \* entries with a running expiration timer
    removeq,    \* entries waiting for the worker, in order
    flock,      \* the context that keeps the FLOCK between two actions, or None
    at, on,     \* where each context is, and the entry it works on
    copy,       \* flags read by a context that is going to write them back
    kevent_id,  \* of the answer that rl_fa_resp() handles
    asked,      \* port ids of the requests the uipcp has to answer
    offered,    \* requests the server application has to answer: port and kevent id
    told,       \* port ids of the flows that the applications may bind
    added, visits

entryVars == <<refcnt, flags, port, event_id, eof, mortal, live, table>>
queueVars == <<putq, removeq>>
ctxVars == <<at, on, copy, flock, kevent_id>>
msgVars == <<asked, offered, told>>
vars == <<entryVars, queueVars, ctxVars, msgVars, added, visits>>

--------------------------------------------------------------------------------
(* Helpers.                                                                     *)

Unlocked == flock = None

Goto(c, pc, e) == at' = [at EXCEPT ![c] = pc] /\ on' = [on EXCEPT ![c] = e]

Idle(c) == Goto(c, "idle", None)

\* flow_lookup(): the entry with this port id, if any.
flow_lookup(p) == {e \in table : port[e] = p}

\* txrx.rx_lock is not held by a context that shuts the flow down.
RxUnlocked(e) == \A c \in Ctx : ~(at[c] = "shutdown" /\ on[c] = e)


\* The removal of a flow that was in use is postponed, once.
Postpones(e) ==
    /\ "DEL_POSTPONED" \notin flags[e]
    /\ "ALLOCATED" \in flags[e] /\ "NEVER_BOUND" \notin flags[e]

\* __flow_put() after the reference counter of e has dropped to zero: it is n when
\* this happens under the lock, and by then somebody may have increased it otherwise.
LastPut(e, n) ==
    IF Postpones(e)
    THEN /\ refcnt' = [refcnt EXCEPT ![e] = n + 2]
         /\ flags' = [flags EXCEPT ![e] = @ \cup {"DEALLOCATED", "DEL_POSTPONED"}]
         /\ putq' = putq \cup {e}
         /\ UNCHANGED <<table, removeq>>
    ELSE /\ refcnt' = [refcnt EXCEPT ![e] = n]
         /\ flags' = [flags EXCEPT ![e] = @ \cup {"DEALLOCATED"}]
         /\ table' = table \ {e}
         /\ removeq' = Append(removeq, e)
         /\ UNCHANGED putq

\* flow_put().
flow_put(e) ==
    IF refcnt[e] = 1 THEN LastPut(e, 0)
    ELSE /\ refcnt' = [refcnt EXCEPT ![e] = @ - 1]
         /\ UNCHANGED <<flags, table, putq, removeq>>

\* flow_get(): the lookup and the increment are under the read lock.
flow_get(e) == refcnt' = [refcnt EXCEPT ![e] = @ + 1]

\* flow_add(): the lowest port id that is free is taken, and the unbound timer starts.
\* One reference is for the entry itself, one for the caller, one for the flows_putq.
flow_add(e) ==
    /\ Unlocked /\ e \notin live /\ added < MaxFlows
    /\ added' = added + 1
    /\ live' = live \cup {e} /\ table' = table \cup {e} /\ putq' = putq \cup {e}
    /\ port' = [port EXCEPT ![e] = CHOOSE p \in Port :
           flow_lookup(p) = {} /\ \A q \in 0..(p - 1) : flow_lookup(q) # {}]
    /\ event_id' = [event_id EXCEPT ![e] = added]
    /\ refcnt' = [refcnt EXCEPT ![e] = 3]
    /\ flags' = [flags EXCEPT ![e] = {"PENDING", "NEVER_BOUND"}]
    /\ UNCHANGED <<eof, mortal, removeq, visits>>

--------------------------------------------------------------------------------
(* Flow allocation: rl_fa_req() and rl_fa_resp() of the application,              *)
(* rl_fa_req_arrived() and rl_fa_resp_arrived() of the uipcp.                      *)

\* rl_fa_req(): the flow is added ...
FaReqAdd(e) ==
    /\ at["app"] = "idle" /\ flow_add(e) /\ Goto("app", "fa_req", e)
    /\ UNCHANGED <<copy, flock, kevent_id, msgVars>>

\* ... the request goes to the uipcp, or cannot be queued; in both cases the reference
\* of the caller is dropped next, and a flow that was not requested waits for its timer.
FaReqQueue ==
    /\ at["app"] = "fa_req" /\ Goto("app", "put", on["app"])
    /\ asked' \in {asked, asked \cup {port[on["app"]]}}
    /\ UNCHANGED <<entryVars, queueVars, copy, flock, kevent_id, offered, told, added, visits>>

\* rl_fa_req_arrived(): the flow is added, and the reference of the caller dropped ...
FaReqArrivedAdd(e) ==
    /\ at["uipcp"] = "idle" /\ flow_add(e) /\ Goto("uipcp", "fa_req_arrived", e)
    /\ UNCHANGED <<copy, flock, kevent_id, msgVars>>

FaReqArrivedPut ==
    /\ at["uipcp"] = "fa_req_arrived" /\ Unlocked /\ flow_put(on["uipcp"])
    /\ Goto("uipcp", "fa_req_queue", on["uipcp"])
    /\ UNCHANGED <<port, event_id, eof, mortal, live, copy, flock, kevent_id, msgVars, added, visits>>

\* ... before the request goes to the server application; if it cannot be queued the
\* flow is deleted, without a reference.
FaReqArrivedQueue ==
    /\ at["uipcp"] = "fa_req_queue"
    /\ \/ /\ offered' = offered \cup {[port |-> port[on["uipcp"]], kevent_id |-> event_id[on["uipcp"]]]} /\ Idle("uipcp")
       \/ /\ UNCHANGED offered /\ Goto("uipcp", "lone_del", on["uipcp"])
    /\ UNCHANGED <<entryVars, queueVars, copy, flock, kevent_id, asked, told, added, visits>>

\* rl_fa_resp() looks up the flow that the server application answers, and
\* rl_fa_resp_arrived() the one that the uipcp has got an answer for.
FaRespGet(o) ==
    /\ at["app"] = "idle" /\ Unlocked /\ o \in offered /\ offered' = offered \ {o}
    /\ IF flow_lookup(o.port) = {} THEN UNCHANGED <<refcnt, at, on, kevent_id>>
       ELSE \E e \in flow_lookup(o.port) :
                flow_get(e) /\ Goto("app", "fa_resp", e) /\ kevent_id' = o.kevent_id
    /\ UNCHANGED <<flags, port, event_id, eof, mortal, live, table, queueVars, copy, flock, asked, told, added, visits>>

FaRespArrivedGet(p) ==
    /\ at["uipcp"] = "idle" /\ Unlocked /\ p \in asked /\ asked' = asked \ {p}
    /\ IF flow_lookup(p) = {} THEN UNCHANGED <<refcnt, at, on>>
       ELSE \E e \in flow_lookup(p) : flow_get(e) /\ Goto("uipcp", "fa_resp", e)
    /\ UNCHANGED <<flags, port, event_id, eof, mortal, live, table, queueVars, copy, flock, kevent_id, offered, told, added, visits>>

\* Both then move the flow out of the pending state and pass the answer on.  A negative
\* answer, or one that cannot be passed on, deletes the flow.  Only rl_fa_resp() compares
\* the kevent_id, and it deletes the flow as well if it finds another one or a flow that
\* is not pending.
FaResp(c) ==
    LET e == on[c]
        pending == "PENDING" \in flags[e] /\ (c = "app" => kevent_id = event_id[e])
    IN  /\ at[c] = "fa_resp" /\ RxUnlocked(e)
        /\ \E answer \in {"positive", "negative", "not passed on"} :
             /\ flags' = IF ~pending THEN flags ELSE
                    [flags EXCEPT ![e] = (@ \ {"PENDING"}) \cup
                                         (IF answer = "negative" THEN {} ELSE {"ALLOCATED"})]
             /\ told' = IF pending /\ answer = "positive" THEN told \cup {port[e]} ELSE told
             /\ Goto(c, IF (IF pending THEN answer = "positive" ELSE c = "uipcp")
                        THEN "put" ELSE "putq_del", e)
        /\ UNCHANGED <<refcnt, port, event_id, eof, mortal, live, table, queueVars, copy, flock,
                       kevent_id, asked, offered, added, visits>>

\* The uipcp or an application never answers, or never binds the flow it was given.
Abandon ==
    /\ \/ \E p \in asked : asked' = asked \ {p} /\ UNCHANGED <<offered, told>>
       \/ \E o \in offered : offered' = offered \ {o} /\ UNCHANGED <<asked, told>>
       \/ \E p \in told : told' = told \ {p} /\ UNCHANGED <<asked, offered>>
    /\ UNCHANGED <<entryVars, queueVars, ctxVars, added, visits>>

\* Where a context goes on from a put or from the list of flows_putq_del(): after a
\* response that deletes the flow (from "putq_del"), after rl_fa_req_arrived() could not
\* queue the request (from "lone_del"), in flow_make_mortal() (from "mortal_del").
After == [putq_del |-> "putq_put", putq_put |-> "delete", delete |-> "put", put |-> "idle",
          lone_del |-> "lone_put", lone_put |-> "put",
          mortal_del |-> "mortal_put", mortal_put |-> "bound", bound |-> "idle"]

Advance(c) == Goto(c, After[at[c]], IF After[at[c]] = "idle" THEN None ELSE on[c])

\* flows_putq_del() takes the flow off the list under the FLOCK, and puts it later.
PutqDel(c) ==
    /\ at[c] \in {"putq_del", "lone_del", "mortal_del"} /\ Unlocked
    /\ putq' = putq \ {on[c]} /\ Advance(c)
    /\ UNCHANGED <<entryVars, removeq, copy, flock, kevent_id, msgVars, added, visits>>

\* A context drops a reference: the one of the flows_putq, the one that stands for the
\* entry itself ("delete"), its own ("put"), or the one of an I/O device that is
\* released or bound to another flow ("bound").
Put(c) ==
    /\ at[c] \in {"putq_put", "lone_put", "mortal_put", "delete", "put", "bound"} /\ Unlocked
    /\ flow_put(on[c]) /\ Advance(c)
    /\ UNCHANGED <<port, event_id, eof, mortal, live, copy, flock, kevent_id, msgVars, added, visits>>

--------------------------------------------------------------------------------
(* I/O devices, the receive path, shutdown.                                      *)

\* rl_io_ioctl_bind(): a reference is taken ...
BindGet(d, p) ==
    /\ at[d] = "idle" /\ Unlocked /\ p \in told /\ told' = told \ {p}
    /\ IF flow_lookup(p) = {} THEN UNCHANGED <<refcnt, at, on>>
       ELSE \E e \in flow_lookup(p) : flow_get(e) /\ Goto(d, "bind", e)
    /\ UNCHANGED <<flags, port, event_id, eof, mortal, live, table, queueVars, copy, flock, kevent_id, asked, offered, added, visits>>

\* ... and kept if the flow is allocated and not yet deallocated.
Bind(d) ==
    /\ at[d] = "bind" /\ RxUnlocked(on[d])
    /\ LET ok == "ALLOCATED" \in flags[on[d]] /\ "DEALLOCATED" \notin flags[on[d]]
       IN  Goto(d, IF ok THEN "mortal" ELSE "put", on[d])
    /\ UNCHANGED <<entryVars, queueVars, copy, flock, kevent_id, msgVars, added, visits>>

\* flow_make_mortal() reads the flags under the FLOCK ...
MakeMortal(d) ==
    /\ at[d] = "mortal" /\ Unlocked
    /\ IF "NEVER_BOUND" \in flags[on[d]]
       THEN /\ flock' = d /\ copy' = [copy EXCEPT ![d] = flags[on[d]] \ {"NEVER_BOUND"}]
            /\ Goto(d, "mortal_write", on[d])
       ELSE Goto(d, "bound", on[d]) /\ UNCHANGED <<flock, copy>>
    /\ UNCHANGED <<entryVars, queueVars, kevent_id, msgVars, added, visits>>

\* Mutant of MakeMortalWrite: the reference of the entry itself stays.
MakeMortalKeep(d) ==
    /\ at[d] = "mortal_write" /\ flock' = None
    /\ flags' = [flags EXCEPT ![on[d]] = copy[d]] /\ copy' = [copy EXCEPT ![d] = {}]
    /\ mortal' = mortal \cup {on[d]}
    /\ Goto(d, "mortal_del", on[d])
    /\ UNCHANGED <<refcnt, port, event_id, eof, live, table, queueVars, kevent_id, msgVars, added, visits>>

\* ... and writes them back, without the rx_lock that protects them elsewhere; the
\* reference that stands for the entry goes.
MakeMortalWrite(d) ==
    /\ at[d] = "mortal_write" /\ flock' = None
    /\ flags' = [flags EXCEPT ![on[d]] = copy[d]] /\ copy' = [copy EXCEPT ![d] = {}]
    /\ refcnt' = [refcnt EXCEPT ![on[d]] = @ - 1]
    /\ mortal' = mortal \cup {on[d]}
    /\ Goto(d, "mortal_del", on[d])
    /\ UNCHANGED <<port, event_id, eof, live, table, queueVars, kevent_id, msgVars, added, visits>>

\* rl_sdu_rx(), rl_normal_sdu_rx(), PDU forwarding table: a reference for a while.
RxGet(e) ==
    /\ at["rx"] = "idle" /\ Unlocked /\ e \in table
    /\ visits < MaxVisits /\ visits' = visits + 1
    /\ flow_get(e) /\ Goto("rx", "put", e)
    /\ UNCHANGED <<flags, port, event_id, eof, mortal, live, table, queueVars, copy, flock, kevent_id, msgVars, added>>

\* rl_flow_dealloc(), by the uipcp: the lookup, then rl_flow_shutdown(), which changes
\* the flags under the rx_lock only.
DeallocGet(e) ==
    /\ at["uipcp"] = "idle" /\ Unlocked /\ e \in table
    /\ visits < MaxVisits /\ visits' = visits + 1
    /\ flow_get(e) /\ Goto("uipcp", "dealloc", e)
    /\ UNCHANGED <<flags, port, event_id, eof, mortal, live, table, queueVars, copy, flock, kevent_id, msgVars, added>>

ShutdownRead ==
    LET e == on["uipcp"] IN
    /\ at["uipcp"] = "dealloc"
    /\ IF "ALLOCATED" \in flags[e]
       THEN /\ eof' = eof \cup {e} /\ copy' = [copy EXCEPT !["uipcp"] = flags[e] \cup {"DEALLOCATED"}]
            /\ Goto("uipcp", "shutdown", e)
       ELSE Goto("uipcp", "put", e) /\ UNCHANGED <<eof, copy>>
    /\ UNCHANGED <<refcnt, flags, port, event_id, mortal, live, table, queueVars, flock, kevent_id, msgVars, added, visits>>

ShutdownWrite ==
    /\ at["uipcp"] = "shutdown" /\ Goto("uipcp", "put", on["uipcp"])
    /\ flags' = [flags EXCEPT ![on["uipcp"]] = copy["uipcp"]]
    /\ copy' = [copy EXCEPT !["uipcp"] = {}]
    /\ UNCHANGED <<refcnt, port, event_id, eof, mortal, live, table, queueVars, flock, kevent_id, msgVars, added, visits>>

--------------------------------------------------------------------------------
(* Removal.                                                                      *)

\* Somebody works on e, or is going to: the unbound timer does not wait for them.
Busy(e) ==
    \/ \E c \in Ctx : on[c] = e
    \/ port[e] \in asked \cup told \cup {o.port : o \in offered}

\* Mutant of FlockAfterPut: the first __flow_put() always releases the FLOCK.
FlockReleased == None

\* __flow_put() releases the FLOCK if the entry still has references, also when it is
\* called with lock = false; the race "flock" is what follows from it.
FlockAfterPut == IF "flock" \in Races THEN None ELSE "tmr"

\* flows_putq_drain(): the timer of an entry expires, and the reference of the queue goes.
DrainTake(e) ==
    /\ at["tmr"] = "idle" /\ Unlocked /\ e \in putq
    /\ "unbound" \in Races \/ "DEL_POSTPONED" \in flags[e] \/ ~Busy(e)
    /\ putq' = putq \ {e} /\ refcnt' = [refcnt EXCEPT ![e] = @ - 1]
    /\ Goto("tmr", "second", e)
    /\ flock' = FlockAfterPut
    /\ UNCHANGED <<flags, port, event_id, eof, mortal, live, table, removeq, copy, kevent_id, msgVars, added, visits>>

\* The second one drops the reference of the entry itself ...
DrainDec ==
    LET e == on["tmr"] IN
    /\ at["tmr"] = "second"
    /\ refcnt' = [refcnt EXCEPT ![e] = @ - 1]
    /\ IF refcnt[e] = 1 THEN Goto("tmr", "last", e) /\ UNCHANGED flock
       ELSE Idle("tmr") /\ flock' = None
    /\ UNCHANGED <<flags, port, event_id, eof, mortal, live, table, queueVars, copy, kevent_id, msgVars, added, visits>>

\* ... and removes the entry if it was the last one.
DrainLast ==
    /\ at["tmr"] = "last" /\ LastPut(on["tmr"], refcnt[on["tmr"]])
    /\ Idle("tmr") /\ flock' = None
    /\ UNCHANGED <<port, event_id, eof, mortal, live, copy, kevent_id, msgVars, added, visits>>

\* Mutant of flow_del: the memory is reused as it is, without zeroing it.
FlowDelKeep ==
    /\ removeq # <<>> /\ Unlocked /\ removeq' = Tail(removeq)
    /\ LET e == Head(removeq) IN
       /\ live' = live \ {e} /\ mortal' = mortal \ {e}
       /\ flags' = [flags EXCEPT ![e] = {}] /\ refcnt' = [refcnt EXCEPT ![e] = 0]
       /\ port' = [port EXCEPT ![e] = 0] /\ event_id' = [event_id EXCEPT ![e] = 0]
    /\ UNCHANGED <<eof, table, putq, ctxVars, msgVars, added, visits>>

\* flows_removew_func() and flow_del().
flow_del ==
    /\ removeq # <<>> /\ Unlocked /\ removeq' = Tail(removeq)
    /\ LET e == Head(removeq) IN
       /\ live' = live \ {e} /\ eof' = eof \ {e} /\ mortal' = mortal \ {e}
       /\ flags' = [flags EXCEPT ![e] = {}] /\ refcnt' = [refcnt EXCEPT ![e] = 0]
       /\ port' = [port EXCEPT ![e] = 0] /\ event_id' = [event_id EXCEPT ![e] = 0]
    /\ UNCHANGED <<table, putq, ctxVars, msgVars, added, visits>>

Init ==
    /\ refcnt = [e \in Entry |-> 0] /\ flags = [e \in Entry |-> {}] /\ port = [e \in Entry |-> 0]
    /\ event_id = [e \in Entry |-> 0] /\ kevent_id = 0
    /\ eof = {} /\ mortal = {} /\ live = {} /\ table = {} /\ putq = {} /\ removeq = <<>>
    /\ flock = None /\ at = [c \in Ctx |-> "idle"] /\ on = [c \in Ctx |-> None]
    /\ copy = [c \in Ctx |-> {}] /\ asked = {} /\ offered = {} /\ told = {} /\ added = 0 /\ visits = 0

\* Steps of a context that has begun something.
Proceed(c) ==
    \/ FaResp(c) \/ PutqDel(c) \/ (at[c] # "bound" /\ Put(c))
    \/ c = "app" /\ FaReqQueue
    \/ c = "uipcp" /\ (FaReqArrivedPut \/ FaReqArrivedQueue \/ ShutdownRead \/ ShutdownWrite)
    \/ c = "tmr" /\ (DrainDec \/ DrainLast)
    \/ c \in Fd /\ (Bind(c) \/ MakeMortal(c) \/ MakeMortalWrite(c))

Next ==
    \/ \E e \in Entry : FaReqAdd(e) \/ FaReqArrivedAdd(e) \/ RxGet(e) \/ DeallocGet(e) \/ DrainTake(e)
    \/ \E o \in offered : FaRespGet(o)
    \/ \E p \in Port : FaRespArrivedGet(p) \/ \E d \in Fd : BindGet(d, p)
    \/ \E d \in Fd : at[d] = "bound" /\ Put(d)
    \/ \E c \in Ctx : Proceed(c)
    \/ flow_del \/ Abandon

Spec == Init /\ [][Next]_vars

--------------------------------------------------------------------------------
(* Properties.                                                                   *)

\* The state has its type; no reference counter is ever negative.
TypeOK ==
    /\ refcnt \in [Entry -> Nat] /\ port \in [Entry -> Port] /\ event_id \in [Entry -> 0..MaxFlows]
    /\ flags \in [Entry -> SUBSET {"PENDING", "NEVER_BOUND", "ALLOCATED", "DEALLOCATED", "DEL_POSTPONED"}]
    /\ table \subseteq live /\ putq \subseteq live /\ eof \subseteq live /\ mortal \subseteq live
    /\ live \subseteq Entry /\ removeq \in Seq(live) /\ flock \in Ctx \cup {None}
    /\ on \in [Ctx -> Entry \cup {None}]

\* What a context, or an I/O device that is bound, works on has not been freed and is not
\* going to be freed under it.
HeldIsLive == \A c \in Ctx : on[c] # None => on[c] \in table

\* Every entry goes through the states of FlowLife: it is allocated once, it lingers once
\* before it is removed, it is removed once and nothing of it is left.
Life == INSTANCE FlowLife WITH
    shut <- eof,
    life <- [e \in Entry |->
        CASE e \notin live -> "free"
          [] e \in live \ table -> "removed"
          [] e \in table /\ "DEL_POSTPONED" \in flags[e] -> "closing"
          [] e \in table /\ "DEL_POSTPONED" \notin flags[e] /\ e \in mortal -> "bound"
          [] OTHER -> IF "PENDING" \in flags[e] THEN "pending"
                      ELSE IF "ALLOCATED" \in flags[e] THEN "allocated" ELSE "refused"]


\* An entry that nobody works on any more is on its way out: the two references of the
\* flows_putq are the only ones left, or the worker will free it.
NothingLeaks ==
    \A e \in live : (\A c \in Ctx : on[c] # e) =>
        \/ e \in putq /\ refcnt[e] = 2
        \/ e \notin table /\ \E i \in DOMAIN removeq : removeq[i] = e
================================================================================
