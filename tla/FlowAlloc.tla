-------------------------------- MODULE FlowAlloc --------------------------------
(* Flow allocation and deallocation between two nodes: the application calls and    *)
(* the flow table of the kernel (kernel/ctrl-dev.c, whose handlers are atomic here; *)
(* module FlowTable has their interleavings), the flow allocator of the normal      *)
(* uipcp (uipcp-normal-flow-alloc.cpp) and the CDAP messages between the uipcps.     *)
EXTENDS Naturals, Sequences, FiniteSets

CONSTANTS
    Node,        \* two nodes
    None,
    ReusePorts,  \* the port id of a removed flow may be given to another one
    Failures,    \* a flow may be refused, a name unknown, a message not sent
    MayExpire,   \* the unbound timer may expire before the flow is bound
    MaxReq       \* bound on the flow requests

ASSUME FlowAllocAssumption ==
    /\ Cardinality(Node) = 2 /\ None \notin Node
    /\ ReusePorts \in BOOLEAN /\ Failures \in BOOLEAN /\ MayExpire \in BOOLEAN /\ MaxReq \in Nat

Port == 0..MaxReq - 1
Peer(n) == CHOOSE m \in Node : m # n

VARIABLES
    flow,           \* the flow table of each node, by port id
    removing,       \* removed flows that the worker has yet to delete, in order
    uid_cnt,        \* of the kernel
    upq,            \* messages from the kernel to the uipcp, in order
    offered,        \* requests that the server application has to answer
    flow_reqs, flow_reqs_in, flow_reqs_out,   \* FlowRequest objects of the uipcp, by
                                              \* port id, kevent id and invoke id
    kevent_id_cnt,  \* of the uipcp
    net,            \* CDAP messages on their way to each node, in order
    reqs,           \* requests made so far; requests are numbered from 1
    ended,          \* requests one end of which was refused, given up or released
    up              \* requests whose initiator was told that the flow is allocated

kernelVars == <<flow, removing, uid_cnt>>
uipcpVars == <<flow_reqs, flow_reqs_in, flow_reqs_out, kevent_id_cnt>>
vars == <<kernelVars, upq, offered, uipcpVars, net, reqs, ended, up>>

Used(n) == {p \in Port : flow[n][p] # None}

\* bitmap_find_next_zero_area(): the lowest port id that is free.  Without reuse it is
\* the number of flows that were added before.
FreePort(n) ==
    IF ReusePorts THEN CHOOSE p \in Port \ Used(n) : \A q \in Port \ Used(n) : p <= q
    ELSE uid_cnt[n]

Upqueue(n, m) == upq' = [upq EXCEPT ![n] = Append(@, m)]
Send(n, m) == net' = [net EXCEPT ![Peer(n)] = Append(@, m)]

\* A message of this type is at the head of a queue.
HeadIs(q, type) == q # <<>> /\ Head(q).type = type

--------------------------------------------------------------------------------
(* The kernel.                                                                  *)

\* The flow at port p is removed: the port id is free at once, the worker follows.
Removed(n, p, fl) ==
    /\ flow' = [flow EXCEPT ![n] = [fl EXCEPT ![p] = None]]
    /\ removing' = [removing EXCEPT ![n] = Append(@, [port |-> p, remote_port |-> fl[p].remote_port])]
    /\ ended' = ended \cup {fl[p].req}

\* rl_fa_req(): an application asks for a flow.
rl_fa_req(n) ==
    /\ reqs < MaxReq /\ reqs' = reqs + 1
    /\ LET p == FreePort(n) IN
       /\ flow' = [flow EXCEPT ![n][p] =
              [life |-> "pending", shut |-> FALSE, uid |-> uid_cnt[n], event_id |-> reqs',
               remote_port |-> None, req |-> reqs']]
       /\ Upqueue(n, [type |-> "fa_req", port |-> p, uid |-> uid_cnt[n], req |-> reqs'])
    /\ uid_cnt' = [uid_cnt EXCEPT ![n] = @ + 1]
    /\ UNCHANGED <<removing, offered, uipcpVars, net, ended, up>>

\* rl_fa_resp(): the server application answers, the uipcp is told, and a refused flow is
\* removed, as is a flow of another request or one that is not pending.
rl_fa_resp(n) ==
    \E o \in offered[n], accept \in {TRUE, ~Failures} :
        LET f == flow[n][o.port]
            valid == f.event_id = o.kevent_id /\ f.life = "pending"
        IN  /\ offered' = [offered EXCEPT ![n] = @ \ {o}]
            /\ IF f # None /\ valid
               THEN Upqueue(n, [type |-> "fa_resp", port |-> o.port, kevent_id |-> o.kevent_id,
                                accept |-> accept])
               ELSE UNCHANGED upq
            /\ IF f = None THEN UNCHANGED <<flow, removing, ended>>
               ELSE IF accept /\ valid
               THEN flow' = [flow EXCEPT ![n][o.port].life = "allocated"] /\ UNCHANGED <<removing, ended>>
               ELSE Removed(n, o.port, flow[n])
            /\ UNCHANGED <<uid_cnt, uipcpVars, net, reqs, up>>

\* The application binds a flow that was allocated.
Bind(n, p) ==
    /\ flow[n][p] # None /\ flow[n][p].life = "allocated" /\ ~flow[n][p].shut
    /\ flow' = [flow EXCEPT ![n][p].life = "bound"]
    /\ UNCHANGED <<removing, uid_cnt, upq, offered, uipcpVars, net, reqs, ended, up>>

\* It closes the flow, which lingers.
Release(n, p) ==
    /\ flow[n][p] # None /\ flow[n][p].life = "bound"
    /\ flow' = [flow EXCEPT ![n][p].life = "closing"]
    /\ ended' = ended \cup {flow[n][p].req}
    /\ UNCHANGED <<removing, uid_cnt, upq, offered, uipcpVars, net, reqs, up>>

\* flows_putq_drain(): the removal of a closed flow, or of one that was never bound.
flows_putq_drain(n, p) ==
    /\ flow[n][p] # None
    /\ \/ flow[n][p].life = "closing"
       \/ flow[n][p].life \in {"pending", "allocated"} /\ (MayExpire \/ flow[n][p].shut)
    /\ Removed(n, p, flow[n])
    /\ UNCHANGED <<uid_cnt, upq, offered, uipcpVars, net, reqs, up>>

\* flow_del(): the worker tells the uipcp of the removal of a flow that had a peer.
flow_del(n) ==
    /\ removing[n] # <<>> /\ removing' = [removing EXCEPT ![n] = Tail(@)]
    /\ LET f == Head(removing[n]) IN
       IF f.remote_port = None THEN UNCHANGED upq
       ELSE Upqueue(n, [type |-> "flow_deallocated", port |-> f.port])
    /\ UNCHANGED <<flow, uid_cnt, offered, uipcpVars, net, reqs, ended, up>>

--------------------------------------------------------------------------------
(* The flow allocator, driven by the messages of the kernel.                    *)

Pop(q, n) == [q EXCEPT ![n] = Tail(@)]

\* LocalFlowAllocator::fa_req(): M_CREATE goes out with a new FlowRequest, or cannot be
\* sent.
IssueRequest(n, m) ==
    \/ /\ flow_reqs_out' = [flow_reqs_out EXCEPT ![n] = @ \cup
             {[req |-> m.req, uid |-> m.uid, send_del |-> TRUE, port |-> m.port, remote_port |-> None]}]
       /\ Send(n, [type |-> "create", req |-> m.req, src_port |-> m.port])
    \/ Failures /\ UNCHANGED <<flow_reqs_out, net>>

\* fa_req(): M_CREATE goes to the node that has the remote application, or the
\* name is not found and rl_fa_resp_arrived() refuses the flow, without a remote address.
fa_req(n) ==
    /\ HeadIs(upq[n], "fa_req") /\ upq' = Pop(upq, n)
    /\ LET m == Head(upq[n]) IN
       \/ IssueRequest(n, m) /\ UNCHANGED <<flow, removing, ended>>
       \/ /\ Failures /\ flow[n][m.port] # None
          /\ Removed(n, m.port, flow[n])
          /\ UNCHANGED <<flow_reqs_out, net>>
    /\ UNCHANGED <<uid_cnt, offered, flow_reqs, flow_reqs_in, kevent_id_cnt, reqs, up>>

\* Mutant of fa_resp: the FlowRequest that goes back has the port id of the initiator only.
FaRespNoPort(n) ==
    /\ HeadIs(upq[n], "fa_resp") /\ upq' = Pop(upq, n)
    /\ LET m == Head(upq[n]) IN
       \E f \in flow_reqs_in[n] :
          /\ f.uid = m.kevent_id
          /\ flow_reqs_in' = [flow_reqs_in EXCEPT ![n] = @ \ {f}]
          /\ flow_reqs' = IF m.accept THEN [flow_reqs EXCEPT ![n][m.port] = [f EXCEPT !.port = m.port]]
                          ELSE flow_reqs
          /\ Send(n, [type |-> "create_r", req |-> f.req, dst_port |-> 0, accept |-> m.accept])
    /\ UNCHANGED <<kernelVars, offered, flow_reqs_out, kevent_id_cnt, reqs, ended, up>>

\* fa_resp(): the answer of the server application goes to the peer.
fa_resp(n) ==
    /\ HeadIs(upq[n], "fa_resp") /\ upq' = Pop(upq, n)
    /\ LET m == Head(upq[n]) IN
       \E f \in flow_reqs_in[n] :
          /\ f.uid = m.kevent_id
          /\ flow_reqs_in' = [flow_reqs_in EXCEPT ![n] = @ \ {f}]
          /\ flow_reqs' = IF m.accept THEN [flow_reqs EXCEPT ![n][m.port] = [f EXCEPT !.port = m.port]]
                          ELSE flow_reqs
          /\ Send(n, [type |-> "create_r", req |-> f.req, dst_port |-> m.port, accept |-> m.accept])
    /\ UNCHANGED <<kernelVars, offered, flow_reqs_out, kevent_id_cnt, reqs, ended, up>>

\* Mutant of PeerPort: the object name is made of the own port id.
OwnPort(f) == f.port

\* The port id that M_DELETE names: the one that the flow has at the peer.
PeerPort(f) == f.remote_port


\* RL_FLOWREQ_SEND_DEL
TellsPeer(f) == f.send_del

\* flow_deallocated(): the FlowRequest goes, and the peer is told unless it told us.
flow_deallocated(n) ==
    /\ HeadIs(upq[n], "flow_deallocated") /\ upq' = Pop(upq, n)
    /\ LET p == Head(upq[n]).port
           f == flow_reqs[n][p]
       IN  IF f = None THEN UNCHANGED <<flow_reqs, net>>
           ELSE /\ flow_reqs' = [flow_reqs EXCEPT ![n][p] = None]
                /\ IF TellsPeer(f) THEN Send(n, [type |-> "delete", port |-> PeerPort(f)]) ELSE UNCHANGED net
    /\ UNCHANGED <<kernelVars, offered, flow_reqs_in, flow_reqs_out, kevent_id_cnt, reqs, ended, up>>

--------------------------------------------------------------------------------
(* The flow allocator, driven by the messages of the peer.                      *)

\* flows_handler_create() with rl_fa_req_arrived(), whose failure (the application is not
\* registered) it ignores.
flows_handler_create(n) ==
    /\ HeadIs(net[n], "create") /\ net' = Pop(net, n)
    /\ LET m == Head(net[n])
           p == FreePort(n)
           k == kevent_id_cnt[n]
       IN  /\ flow_reqs_in' = [flow_reqs_in EXCEPT ![n] = @ \cup
                  {[req |-> m.req, uid |-> k, send_del |-> TRUE, port |-> None, remote_port |-> m.src_port]}]
           /\ \/ /\ flow' = [flow EXCEPT ![n][p] =
                      [life |-> "pending", shut |-> FALSE, uid |-> k, event_id |-> k,
                       remote_port |-> m.src_port, req |-> m.req]]
                 /\ offered' = [offered EXCEPT ![n] = @ \cup {[port |-> p, kevent_id |-> k]}]
                 /\ uid_cnt' = [uid_cnt EXCEPT ![n] = @ + 1]
              \/ Failures /\ UNCHANGED <<flow, offered, uid_cnt>>
    /\ kevent_id_cnt' = [kevent_id_cnt EXCEPT ![n] = @ + 1]
    /\ UNCHANGED <<removing, upq, flow_reqs, flow_reqs_out, reqs, ended, up>>

\* flows_handler_create_r() with rl_fa_resp_arrived(), which looks at the port id only.
flows_handler_create_r(n) ==
    /\ HeadIs(net[n], "create_r") /\ net' = Pop(net, n)
    /\ LET m == Head(net[n]) IN
       \E f \in flow_reqs_out[n] :
          LET p == f.port
              pending == flow[n][p] # None /\ flow[n][p].life = "pending"
              fl == [flow[n] EXCEPT ![p].remote_port = m.dst_port, ![p].life = "allocated"]
          IN  /\ f.req = m.req
              /\ flow_reqs_out' = [flow_reqs_out EXCEPT ![n] = @ \ {f}]
              /\ flow_reqs' = [flow_reqs EXCEPT ![n][p] = [f EXCEPT !.remote_port = m.dst_port]]
              /\ IF ~pending THEN UNCHANGED <<flow, removing, ended>>
                 ELSE IF m.accept THEN flow' = [flow EXCEPT ![n] = fl] /\ UNCHANGED <<removing, ended>>
                 ELSE Removed(n, p, fl)
              /\ up' = IF pending /\ m.accept THEN up \cup {f.req} ELSE up
    /\ UNCHANGED <<uid_cnt, upq, offered, flow_reqs_in, kevent_id_cnt, reqs>>

\* flows_handler_delete() with rl_flow_dealloc(), which looks at the port id and the uid.
flows_handler_delete(n) ==
    /\ HeadIs(net[n], "delete") /\ net' = Pop(net, n)
    /\ LET p == Head(net[n]).port
           f == flow_reqs[n][p]
           found == f # None /\ flow[n][p] # None /\ flow[n][p].uid = f.uid /\ flow[n][p].life # "pending"
       IN  /\ flow_reqs' = IF f = None THEN flow_reqs ELSE [flow_reqs EXCEPT ![n][p].send_del = FALSE]
           /\ flow' = IF found THEN [flow EXCEPT ![n][p].shut = TRUE] ELSE flow
    /\ UNCHANGED <<removing, uid_cnt, upq, offered, flow_reqs_in, flow_reqs_out, kevent_id_cnt,
                   reqs, ended, up>>

--------------------------------------------------------------------------------
Init ==
    /\ flow = [n \in Node |-> [p \in Port |-> None]] /\ removing = [n \in Node |-> <<>>]
    /\ uid_cnt = [n \in Node |-> 0] /\ upq = [n \in Node |-> <<>>] /\ offered = [n \in Node |-> {}]
    /\ flow_reqs = [n \in Node |-> [p \in Port |-> None]]
    /\ flow_reqs_in = [n \in Node |-> {}] /\ flow_reqs_out = [n \in Node |-> {}]
    /\ kevent_id_cnt = [n \in Node |-> 1] /\ net = [n \in Node |-> <<>>]
    /\ reqs = 0 /\ ended = {} /\ up = {}

Uipcp(n) ==
    \/ fa_req(n) \/ fa_resp(n) \/ flow_deallocated(n)
    \/ flows_handler_create(n) \/ flows_handler_create_r(n) \/ flows_handler_delete(n)

Next ==
    \E n \in Node :
        \/ rl_fa_req(n) \/ rl_fa_resp(n) \/ flow_del(n) \/ Uipcp(n)
        \/ \E p \in Port : Bind(n, p) \/ Release(n, p) \/ flows_putq_drain(n, p)

Spec == Init /\ [][Next]_vars

\* The worker, the event loop of the uipcp and the timers of the flows run in the end.
FairSpec ==
    /\ Spec
    /\ \A n \in Node : WF_vars(flow_del(n)) /\ WF_vars(Uipcp(n))
    /\ \A n \in Node, p \in Port : WF_vars(flows_putq_drain(n, p))

--------------------------------------------------------------------------------
\* rl_flow_dealloc() and flows_handler_delete() shut a flow down only if the other end of
\* this very flow has left it, never on the M_DELETE of another flow.
ShutByPeer == \A n \in Node : \A p \in Used(n) : flow[n][p].shut => flow[n][p].req \in ended

\* Until one of its ends leaves, a flow that an application was given has another end, the
\* remote port that rl_fa_req_arrived() or rl_fa_resp_arrived() recorded is the one of that
\* end, and the other way round.
EndsAgree ==
    \A n \in Node : \A p \in Used(n) :
        LET f == flow[n][p] IN
        f.life \in {"allocated", "bound"} /\ f.req \notin ended =>
            LET g == flow[Peer(n)][f.remote_port] IN
            g # None /\ g.req = f.req /\ g.life # "closing" /\ (g.life # "pending" => g.remote_port = p)

================================================================================
