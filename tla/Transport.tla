------------------------------ MODULE Transport ------------------------------
(***************************************************************************)
(* The frames between the routers: comm.c.                                 *)
(*                                                                         *)
(* Each router has a UDP socket; a frame goes to the neighbour's, after    *)
(* the name of the interface that is to take it.  It is put together in    *)
(* send_buffer, which all the threads that send share without a lock: the  *)
(* receiver's, which answers and forwards, the wheel's and the CLI's.      *)
(* Each call that touches the buffer is one step here.  The statistics     *)
(* (pkt_sent, pkt_recv) are left out, and so are send_pkt_to_self and      *)
(* send_pkt_flood, which nothing calls.                                    *)
(***************************************************************************)
EXTENDS Naturals, Sequences, FiniteSets

CONSTANTS
    TrNode,         \* the routers
    TrIntf,         \* their interfaces, <<node, name>>
    TrOther,        \* the interface at the other end of an interface's link
    TrThread,       \* the threads that send
    TrReceiver,     \* the one of them that also receives
    TrFrame,        \* the frames they send
    TrOffers,       \* bound: which thread sends what where, <<thread, interface, frame>>
    TrTouched,      \* bound: the interfaces the CLI shuts and opens
    TrUnbound,      \* bound: the routers whose port another process may have
    TrGenerator,    \* the node and name pkt_gen sends to, <<node, name>>
    TrSocketBuffer  \* bound: datagrams a socket holds

ASSUME TrAssumption ==
    /\ TrOther \in [TrIntf -> TrIntf]
    /\ \A i \in TrIntf : i = <<i[1], i[2]>> /\ i[1] \in TrNode
    /\ \A i \in TrIntf : TrOther[i] # i /\ TrOther[TrOther[i]] = i
    /\ TrReceiver \in TrThread
    /\ TrOffers \subseteq TrThread \X TrIntf \X TrFrame
    /\ TrTouched \subseteq TrIntf /\ TrUnbound \subseteq TrNode
    /\ TrFrame # {} /\ \E i \in TrIntf : i[1] = TrGenerator[1]
    /\ TrSocketBuffer \in Nat \ {0}

VARIABLES
    tr_up,          \* is_up of each interface
    tr_bound,       \* the routers whose socket could be bound
    tr_sends,       \* the calls of send_pkt_out under way
    tr_name,        \* send_buffer: the name, TrZero after the memset
    tr_payload,     \* send_buffer: what follows the name
    tr_socket,      \* the datagrams in each router's socket
    tr_taken        \* history: the frame the last step gave to layer 2, if any

trVars == <<tr_up, tr_bound, tr_sends, tr_name, tr_payload, tr_socket, tr_taken>>

TrZero == "zero"
TrNames == {i[2] : i \in TrIntf} \cup {TrGenerator[2]}

\* A call of send_pkt_out: the next thing it does, and (history) whether no
\* other call was under way at the same time.
TrSend == [thread : TrThread, intf : TrIntf, frame : TrFrame,
           next : {"name", "payload", "sendto"}, alone : BOOLEAN]

\* A datagram: what was in the buffer, the frame its length is of, and
\* (history) the interface it was sent on and whether the sending was alone.
TrDatagram == [name : TrNames \cup {TrZero}, payload : TrFrame \cup {TrZero},
               length : TrFrame, from : TrIntf, alone : BOOLEAN]

TrTypeOK ==
    /\ tr_up \in [TrIntf -> BOOLEAN]
    /\ tr_bound \subseteq TrNode
    /\ tr_sends \subseteq TrSend
    /\ \A s, u \in tr_sends : s.thread = u.thread => s = u
    /\ tr_name \in TrNames \cup {TrZero}
    /\ tr_payload \in TrFrame \cup {TrZero}
    /\ tr_socket \in [TrNode -> Seq(TrDatagram)]
    /\ tr_taken \subseteq [at : TrIntf, datagram : TrDatagram]

\* init_udp_socket: bind fails where another process has the port.
TrInit ==
    /\ tr_up = [i \in TrIntf |-> TRUE]
    /\ tr_bound \in {TrNode \ U : U \in SUBSET TrUnbound}
    /\ tr_sends = {}
    /\ tr_name = TrZero
    /\ tr_payload = TrZero
    /\ tr_socket = [n \in TrNode |-> <<>>]
    /\ tr_taken = {}

-----------------------------------------------------------------------------
TrAlone(sends, yes) == {[s EXCEPT !.alone = yes] : s \in sends}

\* Mutant: the interface names itself, not the other end.
TrAddresseeSelf(i) == i

\* The interface whose name goes before the frame.
TrAddressee(i) == TrOther[i]

\* send_pkt_out, up to the memset of the buffer.
TrBegin(t, i, f) ==
    /\ tr_up[i]
    /\ \A s \in tr_sends : s.thread # t
    /\ tr_sends' = TrAlone(tr_sends, FALSE) \cup
         {[thread |-> t, intf |-> i, frame |-> f, next |-> "name", alone |-> tr_sends = {}]}
    /\ tr_name' = TrZero
    /\ tr_payload' = TrZero
    /\ tr_taken' = {}
    /\ UNCHANGED <<tr_up, tr_bound, tr_socket>>

\* strncpy of the name
TrFillName(s) ==
    /\ s.next = "name"
    /\ tr_name' = TrAddressee(s.intf)[2]
    /\ tr_sends' = (tr_sends \ {s}) \cup {[s EXCEPT !.next = "payload"]}
    /\ tr_taken' = {}
    /\ UNCHANGED <<tr_up, tr_bound, tr_payload, tr_socket>>

\* memcpy of the frame
TrFillPayload(s) ==
    /\ s.next = "payload"
    /\ tr_payload' = s.frame
    /\ tr_sends' = (tr_sends \ {s}) \cup {[s EXCEPT !.next = "sendto"]}
    /\ tr_taken' = {}
    /\ UNCHANGED <<tr_up, tr_bound, tr_name, tr_socket>>

\* _send_pkt_out.  The datagram is lost if the neighbour has no socket or its
\* socket is full.
TrSendTo(s) ==
    /\ s.next = "sendto"
    /\ LET n == TrOther[s.intf][1]
           datagram == [name |-> tr_name, payload |-> tr_payload, length |-> s.frame,
                        from |-> s.intf, alone |-> s.alone] IN
         tr_socket' = IF n \in tr_bound /\ Len(tr_socket[n]) < TrSocketBuffer
                        THEN [tr_socket EXCEPT ![n] = Append(@, datagram)]
                        ELSE tr_socket
    /\ tr_sends' = tr_sends \ {s}
    /\ tr_taken' = {}
    /\ UNCHANGED <<tr_up, tr_bound, tr_name, tr_payload>>

\* _pkt_receive: layer 2 has the frame if the router has an interface of that
\* name, and it is up.
PktReceive(n, datagram) ==
    {[at |-> i, datagram |-> datagram] : i \in {j \in TrIntf : j = <<n, datagram.name>> /\ tr_up[j]}}

\* The receiver's thread takes one datagram of router n.
TrReceive(n) ==
    /\ tr_socket[n] # <<>>
    /\ \A s \in tr_sends : s.thread # TrReceiver
    /\ tr_socket' = [tr_socket EXCEPT ![n] = Tail(@)]
    /\ tr_taken' = PktReceive(n, Head(tr_socket[n]))
    /\ UNCHANGED <<tr_up, tr_bound, tr_sends, tr_name, tr_payload>>

\* config node <node> interface <if> up, down
TrConfig(i) ==
    /\ tr_up' = [tr_up EXCEPT ![i] = ~@]
    /\ tr_taken' = {}
    /\ UNCHANGED <<tr_bound, tr_sends, tr_name, tr_payload, tr_socket>>

\* pkt_gen, a process of its own, sends to the port of the first router.
TrGenerate ==
    /\ LET n == TrGenerator[1]
           f == CHOOSE g \in TrFrame : TRUE
           i == CHOOSE j \in TrIntf : j[1] = n IN
         /\ n \in tr_bound /\ Len(tr_socket[n]) < TrSocketBuffer
         /\ tr_socket' = [tr_socket EXCEPT ![n] = Append(@,
              [name |-> TrGenerator[2], payload |-> f, length |-> f, from |-> i,
               alone |-> FALSE])]
    /\ tr_taken' = {}
    /\ UNCHANGED <<tr_up, tr_bound, tr_sends, tr_name, tr_payload>>

TrNext ==
    \/ \E o \in TrOffers : TrBegin(o[1], o[2], o[3])
    \/ \E s \in tr_sends : TrFillName(s)
    \/ \E s \in tr_sends : TrFillPayload(s)
    \/ \E s \in tr_sends : TrSendTo(s)
    \/ \E n \in TrNode : TrReceive(n)
    \/ \E i \in TrTouched : TrConfig(i)
    \/ TrGenerate

TrSpec == TrInit /\ [][TrNext]_trVars

-----------------------------------------------------------------------------
\* A frame whose sending no other sending overlapped is taken up, if at all, by
\* the interface at the other end of its link, whole and with its own length:
\* whatever the threads sent before and after it, through the same buffer, and
\* whatever became of the interfaces meanwhile.
TrIntact ==
    \A taken \in tr_taken : taken.datagram.alone =>
        /\ taken.at = TrOther[taken.datagram.from]
        /\ taken.datagram.payload = taken.datagram.length

=============================================================================
