---------------------------- MODULE CommandTree ----------------------------
(***************************************************************************)
(* The command tree the program's CLI is built on, as init_libcli,         *)
(* nw_init_cli, the trace options and IS-IS register it.  A parameter      *)
(* (param_t) is named by the words that lead to it from the root; a word   *)
(* in angle brackets is a leaf, the others are keywords, and "no" is the   *)
(* negation support_cmd_negation adds.                                     *)
(***************************************************************************)
EXTENDS Sequences, FiniteSets, Naturals, SequencesExt

CtRoot == <<>>                       \* the static param root
CtDo == <<"do">>                     \* do_hook: hangs nowhere, its parent is NULL

\* The parameters registered under one of them: the words that follow it.
CtUnder(param, words) == {param \o w : w \in words}

\* The hooks of the library and what init_libcli puts under them.
CtShowHook ==
    { <<"show">>, <<"show", "help">>, <<"show", "history">>, <<"show", "history", "<N>">>,
      <<"show", "registered">>, <<"show", "registered", "commands">> }
CtDebugHook ==
    { <<"debug">>, <<"debug", "ut">>, <<"debug", "ut", "<ut-enable>">>,
      <<"debug", "show">>, <<"debug", "show", "cmdtree">> }
CtConfigHook ==
    { <<"config">>, <<"config", "load">>, <<"config", "load", "<file-name>">>,
      <<"config", "supportsave">>, <<"config", "supportsave", "enable">>,
      <<"config", "console">>, <<"config", "console", "name">>,
      <<"config", "console", "name", "<cons-name>">> }
CtRunHook ==
    { <<"clear">>, <<"run">>, <<"run", "term">>, <<"run", "ut">>,
      <<"run", "ut", "<ut-file-name>">>, <<"run", "ut", "<ut-file-name>", "<tc-no>">> }
CtHidden == { <<"repeat">>, <<"cls">>, <<"cd..">>, <<"cd">> }
CtBuiltin == CtShowHook \cup CtDebugHook \cup CtConfigHook \cup CtRunHook \cup CtHidden

\* The node every command of the network is about.
CtShowNode   == <<"show", "node", "<node-name>">>
CtRunNode    == <<"run", "node", "<node-name>">>
CtClearNode  == <<"clear", "node", "<node-name>">>
CtConfigNode == <<"config", "node", "<node-name>">>

CtShow ==
    CtUnder(<<"show">>, {<<"topology">>, <<"topology", "node">>,
                         <<"topology", "node", "<node-name>">>, <<"node">>})
    \cup CtUnder(CtShowNode,
            { <<>>, <<"protocol">>, <<"log-status">>, <<"arp">>, <<"mac">>, <<"rt">>,
              <<"interface">>, <<"interface", "statistics">>,
              <<"interface", "statistics", "protocol">>, <<"spf-result">> })

CtRun ==
    CtUnder(<<"run">>, {<<"spf">>, <<"spf", "all">>, <<"node">>})
    \cup CtUnder(CtRunNode,
            { <<>>, <<"ping">>, <<"ping", "<ip-address>">>, <<"ping", "<ip-address>", "ero">>,
              <<"ping", "<ip-address>", "ero", "<ero-ip-address>">>,
              <<"resolve-arp">>, <<"resolve-arp", "<ip-address>">>, <<"spf">> })

CtClear ==
    CtUnder(<<"clear">>, {<<"log-file">>, <<"node">>})
    \cup CtUnder(CtClearNode, {<<>>, <<"protocol">>})

CtInterface == CtConfigNode \o <<"interface", "<if-name>">>

CtConfig ==
    CtUnder(<<"config">>, {<<"global">>, <<"global", "stdout">>, <<"global", "no-stdout">>,
                           <<"node">>})
    \cup CtUnder(CtConfigNode, {<<>>, <<"protocol">>, <<"interface">>})
    \cup CtUnder(CtInterface,
            { <<>>, <<"<if-up-down>">>, <<"metric">>, <<"metric", "<metric-val>">>,
              <<"ip-address">>, <<"ip-address", "<intf-ip-address>">>,
              <<"ip-address", "<intf-ip-address>", "<mask>">> })

CtRoute ==
    CtUnder(CtConfigNode \o <<"route">>,
        { <<>>, <<"<ip-address>">>, <<"<ip-address>", "<mask>">>,
          <<"<ip-address>", "<mask>", "<gw-ip>">>,
          <<"<ip-address>", "<mask>", "<gw-ip>", "<oif>">> })

\* tcp_ip_traceoptions_cli, for the node and for the interface.
CtTraceOptions ==
    UNION {CtUnder(p \o <<"traceoptions">>, {<<>>, <<"flag">>, <<"flag", "<flag-val>">>}) :
              p \in {CtConfigNode, CtInterface}}

\* The trees IS-IS hooks under "protocol".
CtIsisConfig ==
    CtUnder(CtConfigNode \o <<"protocol", "isis">>,
        { <<>>, <<"layer2-map">>, <<"overload">>, <<"overload", "timeout">>,
          <<"overload", "timeout", "<timeout-val>">>,
          <<"interface">>, <<"interface", "all">>, <<"interface", "<if-name>">> })

CtIsisShow ==
    CtUnder(CtShowNode \o <<"protocol", "isis">>,
        { <<>>, <<"interface">>, <<"interface", "<if-name>">>, <<"lsdb">>,
          <<"lsdb", "detail">>, <<"lsdb", "<rtr-id>">>, <<"adjacency">>, <<"events">> })

CtIsisClear ==
    CtUnder(CtClearNode \o <<"protocol", "isis">>, {<<>>, <<"adjacency">>, <<"lsdb">>})

\* What support_cmd_negation is called on.  (The call on "layer2-map" has no effect:
\* the parameter has no options before it, and the parser stops at the first empty one.)
CtNegated == {<<"config">>, CtConfigNode, CtConfigNode \o <<"protocol">>,
              CtConfigNode \o <<"protocol", "isis", "overload">>}

CtNo == {Append(p, "no") : p \in CtNegated}

CtCommand == CtBuiltin \cup CtShow \cup CtRun \cup CtClear \cup CtConfig \cup CtRoute
                \cup CtTraceOptions \cup CtIsisConfig \cup CtIsisShow \cup CtIsisClear

CtParam == {CtRoot, CtDo} \cup CtCommand \cup CtNo

CtLeafWord ==
    { "<ut-enable>", "<file-name>", "<cons-name>", "<ut-file-name>", "<tc-no>", "<node-name>",
      "<ip-address>", "<ero-ip-address>", "<if-name>", "<if-up-down>", "<metric-val>",
      "<intf-ip-address>", "<mask>", "<gw-ip>", "<oif>", "<flag-val>", "<timeout-val>",
      "<rtr-id>", "<N>" }

CtIsLeaf(param) == param # CtRoot /\ Last(param) \in CtLeafWord
CtIsNo(param) == param \in CtNo

\* A negation shares the options its parent had; the hook of "do" those of three hooks.
CtOptions ==
    [p \in CtParam |->
        IF p = CtDo THEN {<<"show">>, <<"debug">>, <<"clear">>}
        ELSE IF p \in CtNo THEN {c \in CtCommand : Front(c) = Front(p)}
        ELSE {c \in CtCommand \cup CtNo : c # CtRoot /\ Front(c) = p}]

CtParent(param) == Front(param)

\* The "/" option is given to whatever has a child of its own.  The negation and the
\* hook of "do" hold a second "?" in its place.
CtHasMode(param) == param \notin CtNo \cup {CtDo} /\ CtOptions[param] # {}
CtHasOptions(param) == param \in CtNo \cup {CtDo} \/ CtOptions[param] # {}

\* Leaves whose value an application callback validates.
CtValidated == {"<ut-enable>", "<node-name>", "<if-up-down>", "<metric-val>", "<mask>",
                "<flag-val>"}

-----------------------------------------------------------------------------
(* The callback of each parameter, "" for none.                            *)

CtLibCallback ==
    << {<<"show", "help">>, <<"cls">>, <<"show", "registered", "commands">>,
        <<"debug", "show", "cmdtree">>, <<"debug", "ut", "<ut-enable>">>,
        <<"run", "ut", "<ut-file-name>", "<tc-no>">>, <<"config", "load", "<file-name>">>,
        <<"config", "supportsave", "enable">>,
        <<"config", "console", "name", "<cons-name>">>} \cup CtNo,
       {<<"config">>},
       {<<"show", "history">>, <<"show", "history", "<N>">>, <<"repeat">>},
       {<<"cd..">>}, {<<"cd">>}, {<<"run", "term">>} >>

\* The handlers that assert that they know every leaf they are handed.
CtHandler(param) ==
    CASE param \in CtLibCallback[1] -> "print"
      [] param \in CtLibCallback[2] -> "config_mode_enter_handler"
      [] param \in CtLibCallback[3] -> "replay"
      [] param \in CtLibCallback[4] -> "exit_cmd_handler"
      [] param \in CtLibCallback[5] -> "end_cmd_handler"
      [] param \in CtLibCallback[6] -> "cli_terminate_handler"
      [] param \in {<<"show", "topology">>, <<"show", "topology", "node", "<node-name>">>} ->
            "show_nw_topology_handler"
      [] param = CtShowNode \o <<"interface", "statistics">> -> "show_interface_handler"
      [] param \in CtUnder(CtShowNode, {<<"arp">>, <<"mac">>, <<"rt">>}) -> "show_table_handler"
      [] param \in {CtShowNode \o <<"spf-result">>, <<"run", "spf", "all">>,
                    CtRunNode \o <<"spf">>} -> "spf_algo_handler"
      [] param \in CtUnder(CtRunNode \o <<"ping", "<ip-address>">>,
                           {<<>>, <<"ero", "<ero-ip-address>">>}) -> "ping_handler"
      [] param = CtRunNode \o <<"resolve-arp", "<ip-address>">> -> "arp_handler"
      [] param = <<"clear", "log-file">> -> "clear_topology_handler"
      [] param \in CtUnder(CtInterface, {<<"<if-up-down>">>, <<"metric", "<metric-val>">>,
                           <<"ip-address", "<intf-ip-address>", "<mask>">>}) ->
            "intf_config_handler"
      [] param \in CtUnder(CtConfigNode \o <<"route", "<ip-address>", "<mask>">>,
                           {<<>>, <<"<gw-ip>", "<oif>">>}) -> "l3_config_handler"
      [] param \in CtUnder(<<"config", "global">>, {<<"stdout">>, <<"no-stdout">>}) ->
            "traceoptions_global"
      [] param \in CtTraceOptions /\ CtIsLeaf(param) -> "traceoptions_handler"
      [] param = CtShowNode \o <<"log-status">> -> "traceoptions_handler"
      [] param = CtConfigNode \o <<"protocol", "isis">> -> "isis_config_handler"
      [] param \in CtIsisConfig \ CtUnder(CtConfigNode \o <<"protocol", "isis">>,
                           {<<>>, <<"interface">>}) -> "isis_intf_config_handler"
      [] param \in CtIsisShow -> "isis_show_handler"
      [] param \in CtUnder(CtClearNode \o <<"protocol", "isis">>,
                           {<<"adjacency">>, <<"lsdb">>}) -> "isis_clear_handler"
      [] OTHER -> ""

CtCallback == [p \in CtParam |-> CtHandler(p)]

-----------------------------------------------------------------------------
(* What a handler reads of the buffer it is handed: the leaves it knows (it asserts *)
(* that there are no others) and whether it looks the node up whatever it is given: *)
(* without the leaf, by a pointer nobody set.                                       *)
CtAnyLeaf == CtLeafWord \cup {"CMDCODE", "no"}
CtReading(leaves, node) == [knows |-> leaves, node |-> node]

CtShowTopology  == CtReading({"<node-name>"}, FALSE)
CtShowInterface == CtReading({"<node-name>"}, TRUE)
CtArp           == CtReading(CtAnyLeaf, TRUE)
CtShowTable     == CtReading(CtAnyLeaf, TRUE)
CtPing          == CtReading({"<node-name>", "<ip-address>", "<ero-ip-address>"}, TRUE)
CtL3Config      == CtReading({"<node-name>", "<ip-address>", "<gw-ip>", "<mask>", "<oif>"}, TRUE)
CtIntfConfig    == CtReading({"<node-name>", "<if-name>", "<if-up-down>", "<metric-val>"}, TRUE)
CtSpf           == CtReading(CtAnyLeaf, TRUE)
CtTraceOption   == CtReading(CtAnyLeaf, TRUE)
CtIsisNode      == CtReading({"<node-name>"}, TRUE)
CtIsisShowInfo  == CtReading({"<node-name>", "<rtr-id>", "<if-name>"}, TRUE)
CtIsisIntf      == CtReading({"<node-name>", "<if-name>", "<timeout-val>"}, TRUE)
CtIsisClearing  == CtReading({"<node-name>"}, TRUE)

\* The other callbacks read nothing of it that matters.
CtReads ==
    [h \in Range(CtCallback) |->
        CASE h = "show_nw_topology_handler" -> CtShowTopology
          [] h = "show_interface_handler" -> CtShowInterface
          [] h = "arp_handler" -> CtArp
          [] h = "show_table_handler" -> CtShowTable
          [] h = "ping_handler" -> CtPing
          [] h = "l3_config_handler" -> CtL3Config
          [] h = "intf_config_handler" -> CtIntfConfig
          [] h = "spf_algo_handler" -> CtSpf
          [] h = "traceoptions_handler" -> CtTraceOption
          [] h = "isis_config_handler" -> CtIsisNode
          [] h = "isis_show_handler" -> CtIsisShowInfo
          [] h = "isis_intf_config_handler" -> CtIsisIntf
          [] h = "isis_clear_handler" -> CtIsisClearing
          [] OTHER -> CtReading(CtAnyLeaf, FALSE)]
=============================================================================
