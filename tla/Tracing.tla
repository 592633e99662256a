-------------------------------- MODULE Tracing --------------------------------
(***************************************************************************)
(* The log of what a router receives, sends and forwards:                  *)
(* tcp_ip_trace.c and its commands: config global stdout and no-stdout,    *)
(* and config node <node> [interface <if>] traceoptions flag <flag>.       *)
(*                                                                         *)
(* What is written is abstracted to where it goes.  The buffers the text   *)
(* is put together in, one for the receiver's thread and one per node for  *)
(* what it sends, are left out with it.                                    *)
(***************************************************************************)
EXTENDS Naturals, FiniteSets

CONSTANTS
    LgNode,     \* the routers
    LgIntf,     \* their interfaces, <<node, name>>
    LgConsole,  \* standard output
    LgOffers    \* bound: the flags the CLI sets of what, <<node or interface, flag>>

LgFlag == {"all", "recv", "send", "stdout", "l3-fwd"}

ASSUME LgAssumption ==
    /\ \A i \in LgIntf : i[1] \in LgNode
    /\ LgConsole \notin LgNode \cup LgIntf
    /\ LgOffers \subseteq (LgNode \cup LgIntf) \X LgFlag

VARIABLES
    lg_log,       \* log_info of each router and interface: the flags that are on
    lg_stdout,    \* gstdout of the topology
    lg_written,   \* history: where the last step's log entries went
    lg_silenced   \* history: the routers of no-all with no flag set on since

lgVars == <<lg_log, lg_stdout, lg_written, lg_silenced>>

LgTarget == LgNode \cup LgIntf

LgIntfOf(n) == {i \in LgIntf : i[1] = n}

LgTypeOK ==
    /\ lg_log \in [LgTarget -> SUBSET LgFlag]
    /\ lg_stdout \in BOOLEAN
    /\ lg_written \subseteq [of : LgNode, to : LgTarget \cup {LgConsole}]
    /\ lg_silenced \subseteq LgNode

\* tcp_ip_init_node_log_info, tcp_ip_init_intf_log_info
LgInit ==
    /\ lg_log = [x \in LgTarget |-> {}]
    /\ lg_stdout = FALSE
    /\ lg_written = {}
    /\ lg_silenced = LgNode

-----------------------------------------------------------------------------
LgOn(x, flag) == flag \in lg_log[x]

LgAny(x, flags) == lg_log[x] \cap flags # {}

\* tcp_ip_set_all_log_info_params leaves stdout alone.
LgSetAll(flags, on) == IF on THEN flags \cup (LgFlag \ {"stdout"}) ELSE flags \cap {"stdout"}

\* The log files of those of xs that want the entry, and standard output if
\* it is on for the topology and for one of xs.
LgFiles(xs, flags) == {x \in xs : LgAny(x, flags)}

LgSockets(xs) == {LgConsole : x \in {y \in xs : lg_stdout /\ LgOn(y, "stdout")}}

LgWrite(n, to) == lg_written' = [of : {n}, to : to]

\* tcp_dump_recv_logger.  all of an interface is not asked first: without its
\* recv and the node's flags nothing is logged.
LgRecv(i) ==
    /\ LgWrite(i[1], IF LgAny(i[1], {"all", "recv"}) \/ LgOn(i, "recv")
                       THEN LgFiles({i[1], i}, {"all", "recv"}) \cup LgSockets({i[1], i})
                       ELSE {})
    /\ UNCHANGED <<lg_log, lg_stdout, lg_silenced>>

\* tcp_dump_send_logger asks the node alone.
LgSend(i) ==
    /\ LgWrite(i[1], IF LgAny(i[1], {"all", "send"})
                       THEN LgFiles({i[1], i}, {"all", "send"}) \cup LgSockets({i[1], i})
                       ELSE {})
    /\ UNCHANGED <<lg_log, lg_stdout, lg_silenced>>

\* tcp_dump_l3_fwding_logger
LgForward(n) ==
    /\ LgWrite(n, IF LgOn(n, "l3-fwd")
                    THEN LgFiles({n}, {"all", "l3-fwd"}) \cup LgSockets({n})
                    ELSE {})
    /\ UNCHANGED <<lg_log, lg_stdout, lg_silenced>>

\* Mutant: no-all of a node leaves its interfaces alone.
LgAllOfAlone(x) == {x}

\* Whose flags no-all takes off: the node's interfaces have theirs taken too.
LgAllOf(x) == IF x \in LgNode THEN {x} \cup LgIntfOf(x) ELSE {x}

\* traceoptions_handler: flag all, and flag no-all
LgConfigAll(x, on) ==
    /\ lg_log' = [y \in LgTarget |->
                    IF on THEN IF y = x THEN LgSetAll(lg_log[y], TRUE) ELSE lg_log[y]
                    ELSE IF y \in LgAllOf(x) THEN LgSetAll(lg_log[y], FALSE) ELSE lg_log[y]]
    /\ lg_silenced' = IF on THEN {n \in lg_silenced : n # x /\ x \notin LgIntfOf(n)}
                      ELSE lg_silenced \cup ({x} \cap LgNode)
    /\ lg_written' = {}
    /\ UNCHANGED lg_stdout

\* traceoptions_handler: one flag on, and its no- form
LgConfig(x, flag, on) ==
    /\ lg_log' = [lg_log EXCEPT ![x] = IF on THEN @ \cup {flag} ELSE @ \ {flag}]
    /\ lg_silenced' = IF on /\ flag # "stdout"
                        THEN {n \in lg_silenced : n # x /\ x \notin LgIntfOf(n)}
                        ELSE lg_silenced
    /\ lg_written' = {}
    /\ UNCHANGED lg_stdout

\* config global stdout, config global no-stdout
LgConfigStdout(on) ==
    /\ lg_stdout' = on
    /\ lg_written' = {}
    /\ UNCHANGED <<lg_log, lg_silenced>>

LgNext ==
    \/ \E i \in LgIntf : LgRecv(i)
    \/ \E i \in LgIntf : LgSend(i)
    \/ \E n \in LgNode : LgForward(n)
    \/ \E o \in LgOffers, on \in BOOLEAN : o[2] = "all" /\ LgConfigAll(o[1], on)
    \/ \E o \in LgOffers, on \in BOOLEAN : o[2] # "all" /\ LgConfig(o[1], o[2], on)
    \/ \E on \in BOOLEAN : LgConfigStdout(on)

LgSpec == LgInit /\ [][LgNext]_lgVars

-----------------------------------------------------------------------------
\* no-all of a node silences it: until a flag of the node or of one of its
\* interfaces is set, nothing it receives, sends or forwards is logged, in
\* its file, in an interface's or on standard output, whatever flags were set
\* before and whatever is taken off after.
LgSilenced == \A w \in lg_written : w.of \notin lg_silenced

=============================================================================
