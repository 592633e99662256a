------------------------------ MODULE L2Switch ------------------------------
(***************************************************************************)
(* The layer-2 interfaces of a node, their VLANs, and the switch: the      *)
(* first part of Layer2/layer2.c, l2_frame_recv_qualify_on_interface of    *)
(* layer2.h, and Layer2/l2switch.c.                                        *)
(*                                                                         *)
(* Modes, VLANs and addresses are set while the topology is built, in any  *)
(* order (topologies.c); the CLI has no command for them.  Then frames     *)
(* arrive.  A frame that is not for an interface in layer-3 mode is the    *)
(* switch's: it learns the source address and forwards.                    *)
(***************************************************************************)
EXTENDS Integers, FiniteSets

CONSTANTS
    SwIntf,         \* the interfaces of the node
    SwMac,          \* the MAC addresses frames come from and go to
    SwVlan,         \* the VLAN ids that are configured
    SwVlanMax,      \* MAX_VLAN_MEMBERSHIP
    SwFull          \* has the node MAX_IF_PER_NODE interfaces?

ASSUME SwAssumption ==
    /\ SwVlan \subseteq Nat \ {0}
    /\ SwVlanMax \in Nat \ {0}
    /\ SwFull \in BOOLEAN

VARIABLES
    sw_building,    \* is the topology being built?
    sw_l3,          \* is_ipaddr_config: is the interface in layer-3 mode?
    sw_mode,        \* intf_l2_mode
    sw_vlans,       \* the array vlans, 0 where a place is free
    sw_mac_table,   \* mac_table: <<MAC, interface>>
    sw_out,         \* history: the interfaces the switch has sent a frame on
    sw_detour,      \* history: interfaces given an address as a trunk with VLANs
    sw_dead         \* what killed the process, "no" while it runs

swConfigVars == <<sw_l3, sw_mode, sw_vlans, sw_detour>>
swVars == <<sw_building, swConfigVars, sw_mac_table, sw_out, sw_dead>>

SwPlace == 0 .. SwVlanMax - 1

SwTypeOK ==
    /\ sw_building \in BOOLEAN
    /\ sw_l3 \in [SwIntf -> BOOLEAN]
    /\ sw_mode \in [SwIntf -> {"ACCESS", "TRUNK"}]
    /\ sw_vlans \in [SwIntf -> [SwPlace -> SwVlan \cup {0}]]
    /\ sw_mac_table \subseteq SwMac \X SwIntf
    /\ sw_out \subseteq SwIntf
    /\ sw_detour \subseteq SwIntf
    /\ sw_dead \in {"no", "tagged", "learn", "flood"}

SwRunning == sw_dead = "no"

\* The properties are calloc'ed and init_intf_nw_prop leaves the mode alone:
\* an interface starts in ACCESS, which is 0.
SwInit ==
    /\ sw_building = TRUE
    /\ sw_l3 = [i \in SwIntf |-> FALSE]
    /\ sw_mode = [i \in SwIntf |-> "ACCESS"]
    /\ sw_vlans = [i \in SwIntf |-> [k \in SwPlace |-> 0]]
    /\ sw_mac_table = {}
    /\ sw_out = {}
    /\ sw_detour = {}
    /\ sw_dead = "no"

-----------------------------------------------------------------------------
\* node_set_intf_ip_address; the layer-2 mode and the VLANs stay.
SwSetIpAddress(i) ==
    /\ sw_building
    /\ sw_l3' = [sw_l3 EXCEPT ![i] = TRUE]
    /\ sw_detour' = IF sw_mode[i] = "TRUNK" /\ sw_vlans[i][0] # 0
                      THEN sw_detour \cup {i} ELSE sw_detour
    /\ UNCHANGED <<sw_building, sw_mode, sw_vlans, sw_mac_table, sw_out, sw_dead>>

SwClearVlans(i, from) ==
    sw_vlans' = [sw_vlans EXCEPT
                   ![i] = [k \in SwPlace |-> IF k >= from THEN 0 ELSE @[k]]]

\* interface_set_l2_mode: the VLANs are cleared only on the way from TRUNK to
\* ACCESS, and not if the interface was in layer-3 mode (case 1).
InterfaceSetL2Mode(i, mode) ==
    /\ sw_building
    /\ sw_mode' = [sw_mode EXCEPT ![i] = mode]
    /\ sw_l3' = [sw_l3 EXCEPT ![i] = FALSE]
    /\ IF ~sw_l3[i] /\ sw_mode[i] = "TRUNK" /\ mode = "ACCESS"
         THEN SwClearVlans(i, 0)
         ELSE UNCHANGED sw_vlans
    /\ UNCHANGED <<sw_building, sw_detour, sw_mac_table, sw_out, sw_dead>>

\* interface_set_vlan on an access port: the loop clears all places but the
\* first and leaves its index one past the last, so the VLAN id lands in the
\* fields behind the array, its second byte in is_ipaddr_config.
SetAccessVlan(i, v) ==
    /\ sw_mode[i] = "ACCESS"
    /\ SwClearVlans(i, 1)
    /\ sw_l3' = [sw_l3 EXCEPT ![i] = (v \div 256) % 256 # 0]

\* Mutant: the search for a duplicate goes no further than the first place.
SetTrunkVlanBlind(i, v) ==
    /\ sw_mode[i] = "TRUNK"
    /\ LET Stop == {k \in SwPlace : sw_vlans[i][k] = 0} IN
         sw_vlans' = [sw_vlans EXCEPT
                        ![i] = [k \in SwPlace |->
                                  IF k \in Stop /\ \A j \in Stop : k <= j THEN v
                                                                          ELSE @[k]]]
    /\ UNCHANGED sw_l3

\* On a trunk: the first free place, unless the VLAN comes before it.
SetTrunkVlan(i, v) ==
    /\ sw_mode[i] = "TRUNK"
    /\ LET Stop == {k \in SwPlace : sw_vlans[i][k] \in {0, v}} IN
         sw_vlans' = [sw_vlans EXCEPT
                        ![i] = [k \in SwPlace |->
                                  IF k \in Stop /\ \A j \in Stop : k <= j THEN v
                                                                          ELSE @[k]]]
    /\ UNCHANGED sw_l3

InterfaceSetVlan(i, v) ==
    /\ sw_building
    /\ ~sw_l3[i]
    /\ SetAccessVlan(i, v) \/ SetTrunkVlan(i, v)
    /\ UNCHANGED <<sw_building, sw_mode, sw_detour, sw_mac_table,
                   sw_out, sw_dead>>

\* The topology is complete: the threads start.
SwStart ==
    /\ sw_building
    /\ sw_building' = FALSE
    /\ UNCHANGED <<swConfigVars, sw_mac_table, sw_out, sw_dead>>

-----------------------------------------------------------------------------
\* get_access_intf_operating_vlan_id
AccessVlan(i) == sw_vlans[i][0]

\* l2_frame_recv_qualify_on_interface, for an untagged frame: a trunk rejects
\* it, an access port takes it if it has an operating VLAN (and does not tag
\* it: the interface's VLAN is looked at for tagged frames only).
Qualify(i, dst) ==
    IF sw_l3[i] THEN dst \in {"own", "broadcast"}
    ELSE sw_mode[i] = "ACCESS" /\ AccessVlan(i) # 0

\* l2_switch_send_pkt_out, for an untagged frame.  (It asserts that the
\* interface is not in layer-3 mode.  Only such interfaces learn, and no mode
\* changes once the threads run.)
SendPktOut(o) ==
    IF sw_mode[o] = "ACCESS" /\ AccessVlan(o) = 0 THEN {o} ELSE {}

\* mac_table_entry_add compares the entry it has found with the new one before
\* it tests whether it has found any.
MacTableEntryAdd(i, src) ==
    {e \in sw_mac_table : e[1] # src} \cup {<<src, i>>}

\* (the entry is there, so that the comparison does not read through NULL)
MacTableKnows(src) == \E j \in SwIntf : <<src, j>> \in sw_mac_table

\* l2_switch_flood_pkt_out visits the empty places of the node's interface
\* array only, and dereferences the first.
FloodCrashes == ~SwFull

\* l2_switch_recv_frame: learn, then forward to the interface known for the
\* destination, or flood.
SwitchFrame(i, src, dst) ==
    IF ~MacTableKnows(src)
    THEN sw_dead' = "learn" /\ UNCHANGED <<sw_mac_table, sw_out>>
    ELSE /\ sw_mac_table' = MacTableEntryAdd(i, src)
         /\ LET o == {j \in SwIntf : <<dst, j>> \in sw_mac_table'} IN
            IF o # {} THEN /\ sw_out' = sw_out \cup UNION {SendPktOut(j) : j \in o}
                           /\ UNCHANGED sw_dead
            ELSE /\ sw_dead' = IF FloodCrashes THEN "flood" ELSE "no"
                 /\ UNCHANGED sw_out

\* layer2_frame_recv.  A frame for the node's own layers (an interface in
\* layer-3 mode) leaves the state of this module alone.
FrameRecv(i, src, dst) ==
    /\ ~sw_building
    /\ SwRunning
    /\ ~sw_l3[i]
    /\ Qualify(i, dst)
    /\ SwitchFrame(i, src, dst)
    /\ UNCHANGED <<sw_building, swConfigVars>>

\* A frame with a VLAN tag: is_pkt_vlan_tagged copies the tag to NULL.
FrameRecvTagged(i) ==
    /\ ~sw_building
    /\ SwRunning
    /\ sw_dead' = "tagged"
    /\ UNCHANGED <<sw_building, swConfigVars, sw_mac_table, sw_out>>

SwNext ==
    \/ \E i \in SwIntf : SwSetIpAddress(i)
    \/ \E i \in SwIntf, mode \in {"ACCESS", "TRUNK"} : InterfaceSetL2Mode(i, mode)
    \/ \E i \in SwIntf, v \in SwVlan : InterfaceSetVlan(i, v)
    \/ SwStart
    \/ \E i \in SwIntf, src \in SwMac, dst \in SwMac \cup {"own", "broadcast"} :
          FrameRecv(i, src, dst)
    \/ \E i \in SwIntf : FrameRecvTagged(i)

SwSpec == SwInit /\ [][SwNext]_swVars

-----------------------------------------------------------------------------
\* The VLANs of an interface fill its places from the first on, each once.
\* The search of a trunk for a duplicate and for a free place in one loop, and
\* is_trunk_intf_vlan_enabled, rest on it; so does the capacity.
SwVlansPacked ==
    \A i \in SwIntf : \A j, k \in SwPlace :
        /\ j < k /\ sw_vlans[i][k] # 0 => sw_vlans[i][j] # 0
        /\ j # k /\ sw_vlans[i][k] # 0 => sw_vlans[i][j] # sw_vlans[i][k]

\* What the repository's README lists first: MAC learning.  A frame that the
\* switch takes in leaves its source in the MAC table.
SwLearns ==
    [][\A i \in SwIntf, src \in SwMac, dst \in SwMac \cup {"broadcast"} :
          FrameRecv(i, src, dst) => <<src, i>> \in sw_mac_table']_swVars

\* What comes of its violation: nothing is ever switched.  An access
\* port has no operating VLAN, whatever VLAN it was given, and takes no frame; a
\* trunk takes no untagged frame.  The one frame that reaches the switch, on a
\* former trunk that came to be an access port by way of an IP address, kills
\* it before it has learnt anything.
SwNothingSwitched ==
    /\ sw_mac_table = {} /\ sw_out = {}
    /\ \A i \in SwIntf :
         ~sw_l3[i] /\ sw_mode[i] = "ACCESS" /\ AccessVlan(i) # 0 => i \in sw_detour
    /\ sw_dead = "learn" => sw_detour # {}

=============================================================================
