--------------------------- MODULE CommandParser ---------------------------
(***************************************************************************)
(* The command parser: a cursor into the command tree (the mode the user   *)
(* is in), the buffer of leaves (TLVs) that is handed to a command, and    *)
(* the checkpoint up to which the buffer describes the cursor.  One action *)
(* per token of a line; a line may be replayed by a command (history), be  *)
(* read from a file, or be prefixed with "do".                             *)
(***************************************************************************)
EXTENDS CommandTree

CONSTANTS
    CliNode,      \* the names a user gives for a node
    CliOther,     \* the value of every other leaf
    CliMaxNest,   \* bound: lines being read within a line
    CliMaxBuf     \* bound: TLVs in the buffer when a command that leaves them there runs

ASSUME CliAssumption ==
    /\ CliOther \notin CliNode
    /\ CliMaxNest \in Nat
    /\ CliMaxBuf \in Nat

VARIABLES
    cli_cursor,   \* cmd_tree_cursor
    cli_buf,      \* tlv_buff: its TLVs, each a leaf with its value
    cli_mark,     \* tlv_buff->checkpoint, in TLVs
    cli_held,     \* value_holder of the leaves that lead to the cursor and to the token read
    cli_phase,    \* "prompt", "parse", "ret" (a line has been parsed), "dead"
    cli_at,       \* param in build_tlv_buffer: what the last token matched
    cli_off,      \* enable_or_disable = CONFIG_DISABLE: a "no" was read
    cli_calls,    \* what the line is read for, the last outermost; with the
                  \* old_cursor_state of a "do"
    cli_call,     \* the last call of a handler: what it was handed
    cli_fate,     \* why the process died
    cli_hurt,     \* memory of others was written: anything may follow
    cli_stray     \* history: the buffer need not describe the cursor, since the mode was
                  \* entered by a replay, a file or "config /", or a "do" came back to a "no"

cliVars == << cli_cursor, cli_buf, cli_mark, cli_held, cli_phase, cli_at, cli_off,
              cli_calls, cli_call, cli_fate, cli_hurt, cli_stray >>

CliValue(word) == IF word = "<node-name>" THEN CliNode ELSE {CliOther}
CliCode == <<"CMDCODE", CliOther>>         \* command_code_tlv
CliJunk == <<"no", CliOther>>              \* a keyword's memory read as a leaf

CliNoCall == [param |-> CtRoot, tlvs |-> <<>>, off |-> FALSE, odd |-> FALSE]

\* The leaves on the way to a parameter, outermost first.
CliLeaves(param) ==
    LET lead[i \in 0 .. Len(param)] ==
          IF i = 0 THEN <<>>
          ELSE IF CtIsLeaf(SubSeq(param, 1, i)) THEN Append(lead[i - 1], SubSeq(param, 1, i))
          ELSE lead[i - 1]
    IN  lead[Len(param)]

\* The TLVs of those leaves, with the values they hold.
CliTlvs(param, held) ==
    LET lead == CliLeaves(param)
    IN  [i \in 1 .. Len(lead) |-> <<Last(lead[i]), held[lead[i]]>>]

\* Only the values on these ways can be read again.
CliKeep(held, params) ==
    LET live == UNION {Range(CliLeaves(p)) : p \in params}
    IN  [l \in DOMAIN held \cap live |-> held[l]]

CliInit ==
    /\ cli_cursor = CtRoot /\ cli_buf = <<>> /\ cli_mark = 0 /\ cli_held = <<>>
    /\ cli_phase = "prompt" /\ cli_at = CtRoot /\ cli_off = FALSE
    /\ cli_calls = <<>>
    /\ cli_call = CliNoCall /\ cli_fate = "" /\ cli_hurt = FALSE /\ cli_stray = FALSE

\* What reads a line within a line; a "do" keeps the cursor it will return to.
CliReader(why, cursor) == [why |-> why, old |-> cursor]
CliReaders == [why : {"do", "file", "replay"}, old : CtParam]
CliOlds(calls) == {call.old : call \in Range(calls)}

CliReason == IF cli_calls = <<>> THEN "line" ELSE Head(cli_calls).why
CliInFile == CliReason = "file"
CliAtPrompt == cli_phase = "prompt"

\* IS_CURRENT_MODE_CONFIG; of a parameter that has a parent.
CliBranch(param) == <<param[1]>>
CliConfig == <<"config">>

CliDie(why) ==
    /\ cli_phase' = "dead"
    /\ cli_fate' = why
    /\ UNCHANGED << cli_cursor, cli_buf, cli_mark, cli_held, cli_at, cli_off, cli_calls,
                    cli_call, cli_hurt, cli_stray >>

-----------------------------------------------------------------------------
(* The end of a line.                                                      *)

\* What parse_input_cmd and parse_file do with the buffer when a line ends:
\* restore_checkpoint_serialize_buffer in a mode, reset_serialize_buffer at the root.
CliRestore(cursor, buf, mark) ==
    /\ cli_buf' = IF cursor # CtRoot THEN SubSeq(buf, 1, mark) ELSE <<>>
    /\ cli_mark' = IF cursor # CtRoot THEN mark ELSE 0

\* parse_input_cmd returns: to the prompt, or to the command that replays it.
CliEnd(cursor, buf, mark, calls, stray) ==
    /\ cli_cursor' = cursor
    /\ CliRestore(cursor, buf, mark)
    /\ cli_phase' = IF calls = <<>> THEN "prompt" ELSE "ret"
    /\ cli_calls' = IF calls = <<>> THEN calls ELSE Tail(calls)
    /\ cli_stray' = (cursor # CtRoot /\ (stray \/ calls # <<>>))
    /\ cli_held' = CliKeep(cli_held, {cursor} \cup CliOlds(calls))

\* goto_top_of_cmd_tree from the keyboard ("cd").  Clearing the value of a negation
\* clears what lies behind the keyword's memory; the hook of "do" has no parent.
CliTop ==
    /\ CliAtPrompt /\ ~CliInFile
    /\ IF cli_cursor = CtDo THEN CliDie("no parent")
       ELSE /\ CliEnd(CtRoot, <<>>, 0, cli_calls, FALSE)
            /\ cli_hurt' = (cli_hurt \/ cli_cursor \in CtNo)
            /\ UNCHANGED << cli_at, cli_off, cli_call, cli_fate >>

\* go_one_level_up_cmd_tree ("cd.."): leaving a leaf drops its TLV.  A buffer that
\* misses the TLV is rewound to before its start.
CliUp ==
    /\ CliAtPrompt /\ ~CliInFile
    /\ IF cli_cursor = CtDo THEN CliDie("no parent")
       ELSE LET up   == IF cli_cursor = CtRoot THEN CtRoot ELSE CtParent(cli_cursor)
                leaf == CtIsLeaf(cli_cursor)
                buf  == IF leaf /\ cli_buf # <<>> THEN Front(cli_buf) ELSE cli_buf
            IN  /\ CliEnd(up, buf, IF leaf THEN Len(buf) ELSE cli_mark, cli_calls, cli_stray)
                /\ cli_hurt' = (cli_hurt \/ (leaf /\ cli_buf = <<>>))
                /\ UNCHANGED << cli_at, cli_off, cli_call, cli_fate >>

\* A mutant: the TLVs are left in the order they are found.
CliRebuildBackwards(cursor) ==
    Reverse(CliTlvs(cursor, cli_held)) \o IF cursor \in CtNo THEN <<CliJunk>> ELSE <<>>

\* build_cmd_tree_leaves_data: the TLVs of the cursor from the values the leaves hold.
\* Whatever is no keyword is taken for a leaf, a negation too.
CliRebuild(cursor) ==
    CliTlvs(cursor, cli_held) \o IF cursor \in CtNo THEN <<CliJunk>> ELSE <<>>

\* build_tlv_buffer has returned: what called it goes on.
CliReturn ==
    /\ cli_phase = "ret"
    /\ \/ /\ CliReason \in {"line", "replay"}
          /\ CliEnd(cli_cursor, cli_buf, cli_mark, cli_calls, cli_stray)
       \/ /\ CliReason = "do"
          /\ IF cli_cursor = CtDo
             THEN LET old == Head(cli_calls).old
                      buf == CliRebuild(old)
                  IN  CliEnd(old, buf, Len(buf), Tail(cli_calls), old \in CtNo)
             ELSE CliEnd(cli_cursor, cli_buf, cli_mark, Tail(cli_calls), cli_stray)
       \/ /\ CliInFile                       \* the next line of the file
          /\ cli_phase' = "prompt"
          /\ CliRestore(cli_cursor, cli_buf, cli_mark)
          /\ cli_held' = CliKeep(cli_held, {cli_cursor} \cup CliOlds(cli_calls))
          /\ UNCHANGED << cli_cursor, cli_calls, cli_stray >>
    /\ cli_at' = CtRoot /\ cli_off' = FALSE
    /\ cli_call' = CliNoCall
    /\ UNCHANGED << cli_fate, cli_hurt >>

-----------------------------------------------------------------------------
(* A line begins.                                                          *)

CliBegin(cursor, buf, mark, calls) ==
    /\ cli_phase' = "parse"
    /\ cli_cursor' = cursor
    /\ cli_at' = cursor
    /\ cli_off' = FALSE
    /\ cli_buf' = buf
    /\ cli_mark' = mark
    /\ cli_calls' = calls
    /\ UNCHANGED << cli_held, cli_call, cli_fate, cli_hurt >>

\* A command from the keyboard or from a replay is parsed where the cursor is; a line
\* of a file starts from an empty buffer, wherever the cursor is.
CliLine ==
    /\ CliAtPrompt
    /\ IF CliInFile THEN /\ CliBegin(cli_cursor, <<>>, 0, cli_calls)
                         /\ cli_stray' = (cli_stray \/ cli_cursor # CtRoot)
                    ELSE /\ CliBegin(cli_cursor, cli_buf, cli_mark, cli_calls)
                         /\ UNCHANGED cli_stray

\* A mutant: the buffer of the mode is not emptied.
CliDoKeep ==
    /\ CliAtPrompt /\ ~CliInFile /\ cli_cursor # CtRoot
    /\ IF cli_cursor = CtDo THEN CliDie("no parent")
       ELSE IF CliBranch(cli_cursor) = CliConfig
            THEN /\ CliBegin(CtDo, cli_buf, cli_mark, <<CliReader("do", cli_cursor)>> \o cli_calls)
                 /\ UNCHANGED cli_stray
            ELSE /\ CliEnd(cli_cursor, cli_buf, cli_mark, cli_calls, cli_stray)
                 /\ UNCHANGED << cli_at, cli_off, cli_call, cli_fate, cli_hurt >>

\* "do": an operational command from a configuration mode.
CliDo ==
    /\ CliAtPrompt /\ ~CliInFile /\ cli_cursor # CtRoot
    /\ IF cli_cursor = CtDo THEN CliDie("no parent")
       ELSE IF CliBranch(cli_cursor) = CliConfig
            THEN /\ CliBegin(CtDo, <<>>, 0, <<CliReader("do", cli_cursor)>> \o cli_calls)
                 /\ UNCHANGED cli_stray
            ELSE /\ CliEnd(cli_cursor, cli_buf, cli_mark, cli_calls, cli_stray)
                 /\ UNCHANGED << cli_at, cli_off, cli_call, cli_fate, cli_hurt >>

\* "config load": parse_file empties the buffer and parses line after line.
CliLoad ==
    /\ CliAtPrompt /\ ~CliInFile /\ Len(cli_calls) < CliMaxNest
    /\ cli_calls' = <<CliReader("file", CtRoot)>> \o cli_calls
    /\ cli_buf' = <<>> /\ cli_mark' = 0
    /\ cli_stray' = (cli_stray \/ cli_cursor # CtRoot)
    /\ UNCHANGED << cli_cursor, cli_held, cli_phase, cli_at, cli_off, cli_call, cli_fate, cli_hurt >>

\* The end of the file, and of the parse_input_cmd that loaded it.
CliFileEnd ==
    /\ CliAtPrompt /\ CliInFile
    /\ CliEnd(cli_cursor, cli_buf, cli_mark, Tail(cli_calls), cli_stray)
    /\ UNCHANGED << cli_at, cli_off, cli_call, cli_fate, cli_hurt >>

-----------------------------------------------------------------------------
(* build_tlv_buffer, token by token.                                       *)

\* find_matching_param: a keyword, or a leaf with a value its validation accepts.
CliToken ==
    /\ cli_phase = "parse"
    /\ \E next \in CtOptions[cli_at] :
          /\ cli_at' = next
          /\ cli_off' = (cli_off \/ CtIsNo(next))
          /\ IF CtIsLeaf(next)
             THEN \E v \in CliValue(Last(next)) :
                     /\ cli_buf' = Append(cli_buf, <<Last(next), v>>)
                     /\ cli_held' = [l \in DOMAIN cli_held \cup {next} |->
                                        IF l = next THEN v ELSE cli_held[l]]
             ELSE UNCHANGED << cli_buf, cli_held >>
    /\ UNCHANGED << cli_cursor, cli_mark, cli_phase, cli_calls, cli_call, cli_fate, cli_hurt,
                    cli_stray >>

\* A word that matches nothing, a leaf that is refused, or a command that is not one.
CliRefuse ==
    /\ cli_phase = "parse"
    /\ cli_phase' = "ret"
    /\ UNCHANGED << cli_cursor, cli_buf, cli_mark, cli_held, cli_at, cli_off, cli_calls,
                    cli_call, cli_fate, cli_hurt, cli_stray >>

\* The handler is called with the buffer; it knows every leaf in it and finds the node's,
\* or the process may not survive.
CliHandle(param, cursor, buf, mark, off) ==
    LET handler == CtCallback[param]
        ids     == {buf[i][1] : i \in 1 .. Len(buf) - 1}
    IN  /\ handler \in {"config_mode_enter_handler", "replay"} => Len(buf) <= CliMaxBuf
        /\ cli_cursor' = IF handler = "config_mode_enter_handler" THEN param ELSE cursor
        /\ cli_buf' = buf
        /\ cli_mark' = IF handler = "config_mode_enter_handler" THEN Len(buf) ELSE mark
        /\ cli_call' = [param |-> param, tlvs |-> buf, off |-> off,
                        odd |-> cli_stray \/ \E call \in Range(cli_calls) : call.why # "do"]
        /\ \/ /\ handler = "cli_terminate_handler"
              /\ cli_phase' = "dead" /\ cli_fate' = "exit" /\ UNCHANGED cli_calls
           \/ /\ ~(ids \subseteq CtReads[handler].knows)
              /\ cli_phase' = "dead" /\ cli_fate' = "unknown leaf" /\ UNCHANGED cli_calls
           \/ /\ CtReads[handler].node /\ "<node-name>" \notin ids
              /\ cli_phase' = "dead" /\ cli_fate' = "no node" /\ UNCHANGED cli_calls
           \/ /\ handler = "replay"           \* parse_input_cmd, from within the command
              /\ Len(cli_calls) < CliMaxNest
              /\ cli_phase' = "prompt" /\ cli_calls' = <<CliReader("replay", CtRoot)>> \o cli_calls
              /\ UNCHANGED cli_fate
           \/ /\ handler # "cli_terminate_handler"
              /\ ids \subseteq CtReads[handler].knows
              /\ cli_phase' = "ret" /\ UNCHANGED << cli_calls, cli_fate >>

\* enable_or_disable as the branch of the tree has it: TRUE for CONFIG_DISABLE.
CliDisable(param) == cli_off /\ CliBranch(param) = CliConfig

\* A line that ends in the parameter itself.
CliEnter ==
    /\ cli_phase = "parse"
    /\ cli_at # CtRoot /\ CtCallback[cli_at] # ""
    /\ LET coded == CliBranch(cli_at) # <<"repeat">> /\ cli_at # CliConfig
           buf   == IF coded THEN Append(cli_buf, CliCode) ELSE cli_buf
       IN  CliHandle(cli_at, cli_cursor, buf, cli_mark, CliDisable(cli_at))
    /\ UNCHANGED << cli_held, cli_at, cli_off, cli_hurt, cli_stray >>

\* "/" after a parameter: the cursor moves there and its command, if any, is run.  The
\* checkpoint is taken before the command code; the command of "config" takes it again.
CliMode ==
    /\ cli_phase = "parse" /\ CtHasMode(cli_at)
    /\ IF cli_at = CtRoot THEN CliDie("mode at root")      \* get_current_branch_hook asserts
       ELSE /\ LET buf == Append(cli_buf, CliCode) IN
               IF CtCallback[cli_at] # ""
               THEN CliHandle(cli_at, cli_at, buf, Len(cli_buf), CliDisable(cli_at))
               ELSE /\ cli_cursor' = cli_at /\ cli_buf' = buf /\ cli_mark' = Len(cli_buf)
                    /\ cli_phase' = "ret"
                    /\ UNCHANGED << cli_calls, cli_call, cli_fate >>
            /\ cli_stray' = (cli_stray \/ cli_at = CliConfig)
            /\ UNCHANGED << cli_held, cli_at, cli_off, cli_hurt >>

\* The parameters that display the nodes of the topology, or are to.
CliShowsNodes(param) == param # CtRoot /\ Last(param) = "node"

\* "?" after a parameter: what may follow is displayed, and the cursor moves there as well.
\* display_graph_nodes walks its list from a pointer that was never set: the process may
\* survive that or not.  (The TLV it gets is behind the checkpoint and goes with the line.)
CliSuboptions ==
    /\ cli_phase = "parse" /\ CtHasOptions(cli_at)
    /\ \/ CliShowsNodes(cli_at) /\ CliDie("display")
       \/ cli_at = CtDo /\ CliDie("no parent")            \* build_mode_console_name
       \/ /\ cli_at # CtDo
          /\ cli_cursor' = cli_at
          /\ cli_mark' = Len(cli_buf)
          /\ cli_phase' = "ret"
          /\ UNCHANGED << cli_buf, cli_held, cli_at, cli_off, cli_calls, cli_call,
                          cli_fate, cli_hurt, cli_stray >>

\* Memory was overwritten: the process may die at any time.
CliCrash == cli_hurt /\ cli_phase # "dead" /\ CliDie("memory")

CliNext ==
    \/ CliLine \/ CliDo \/ CliTop \/ CliUp \/ CliLoad \/ CliFileEnd
    \/ CliToken \/ CliRefuse \/ CliEnter \/ CliMode \/ CliSuboptions
    \/ CliReturn \/ CliCrash

-----------------------------------------------------------------------------
CliTypeOK ==
    /\ cli_cursor \in CtParam /\ cli_at \in CtParam
    /\ cli_buf \in Seq((CtLeafWord \cup {"CMDCODE", "no"}) \X (CliNode \cup {CliOther}))
    /\ cli_mark \in 0 .. Len(cli_buf)
    /\ DOMAIN cli_held \subseteq {p \in CtParam : CtIsLeaf(p)}
    /\ \A l \in DOMAIN cli_held : cli_held[l] \in CliValue(Last(l))
    /\ cli_phase \in {"prompt", "parse", "ret", "dead"}
    /\ cli_calls \in Seq(CliReaders) /\ Len(cli_calls) <= CliMaxNest + 1
    /\ cli_fate \in {"", "exit", "no parent", "mode at root", "display", "unknown leaf", "no node",
                    "memory"}
    /\ cli_call.param \in CtParam
    /\ {cli_off, cli_hurt, cli_stray, cli_call.off, cli_call.odd} \subseteq BOOLEAN

(* At the prompt of a mode the buffer holds exactly the leaves that lead to the      *)
(* mode, in order and with the values the user gave, however the user came there:    *)
(* entering with "/" or "?", leaving level by level, and past failed commands and    *)
(* "do" excursions.  (cli_stray names the ways the program gets this wrong.)         *)
CliContext ==
    cli_phase = "prompt" /\ cli_calls = <<>> /\ ~cli_stray =>
        /\ cli_buf = CliTlvs(cli_cursor, cli_held)
        /\ cli_mark = Len(cli_buf)

(* A command given at the keyboard is handed the leaves of its own path, in order,   *)
(* and the command code; its handler knows them all and finds the node's, but for    *)
(* "interface ... ip-address", whose handler asserts, and for "run spf all", which   *)
(* looks up a node whose name nobody set.                                            *)
CliServed ==
    cli_call.param # CtRoot /\ ~cli_call.odd =>
        LET given == [i \in DOMAIN cli_call.tlvs |-> cli_call.tlvs[i][1]]
            path  == [i \in DOMAIN CliLeaves(cli_call.param) |-> Last(CliLeaves(cli_call.param)[i])]
        IN  /\ given = path \/ given = Append(path, "CMDCODE")
            /\ cli_fate = "unknown leaf" =>
                    cli_call.param = CtInterface \o <<"ip-address", "<intf-ip-address>", "<mask>">>
            /\ cli_fate = "no node" => cli_call.param = <<"run", "spf", "all">>

CliSpec == CliInit /\ [][CliNext]_cliVars
=============================================================================
