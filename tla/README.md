# VirtualRouter in TLA+

Specifications of VirtualRouter v2 (`src/`), a process that emulates a network
of routers and switches: every node has a routing table, an ARP table, a timer
wheel and an IS-IS instance, links are UDP sockets on one host. The modules are
translated from the C code; the paths below are relative to `src/`. Contents:

1. [The system](#1-the-system): parts, state, operations, interaction, hazards
2. [What is here](#2-what-is-here): modules and how they correspond to the code
3. [What the runs check](#3-what-the-runs-check): bounds, fairness, results
4. [What is proved](#4-what-is-proved)
5. [What is not modelled, and the plan](#5-what-is-not-modelled-and-the-plan)

## 1. The system

### Threads

All nodes live in one process (`main.c`, topology `cross_link_topology`).

| thread | started in | does |
|---|---|---|
| packet receiver, one for all nodes | `comm.c`, `init_tcp_ip_stack` | `layer2_frame_recv` and everything above it |
| wheel timer, one per node | `net.h:126-127` (60 slots, 1 s per tick) | expiry callbacks, hellos, periodic flooding |
| CLI | `main` | configuration and `show` commands |
| event dispatcher | never started: nothing calls `event_dispatcher_init` or `_run` | tasks are queued, or lost, and none runs |

They share the nodes' data. Mutexes exist in the wheel timer (reschedule list,
element argument) and the event dispatcher; adjacencies, ARP entries, routes and
the link state database have none. An `assert` or a bad pointer in one handler
ends every router of the emulation.

### Parts

| part | state | operations | used by / uses | correct when |
|---|---|---|---|---|
| wheel timer (`WheelTimer/`) | slots of elements sorted by cycle, clock, reschedule list | register, de-register, two ways to reschedule; the wheel's thread | everything with a timeout | a timer fires at its tick, a cancelled one never, memory is freed once and is in no list then |
| IS-IS adjacency (`isis_adjacency.c`) | one per interface: state, expiry and delete timer; a count of UP ones per node | hello, two expiries, delete | receiver, wheel, CLI; notifies flooding | timers fit the state, no neighbour is kept past its hold time, nothing is kept for ever, the count is right |
| IS-IS node and interface (`isis_rtr.c`, `isis_intf.c`, `isis_cli.c`) | what is enabled where, hello timers | enable, disable, shut, clear | CLI | teardown is complete from every state |
| reconciliation and flooding (`isis_flood.c`) | phase flag, its timer, flood interval, transmit queues | enter, restart, exit; flood | adjacency changes, wheel | a phase that starts ends; the interval fits the phase |
| link state database (`isis_lsdb.c`) | LSP per router, by sequence number; reference counts; expiry timers | install, remove, regenerate, expire | receiver, wheel | newest wins, no own LSP taken from others, no use after free |
| level-2 mapping (`isis_l2map.c`) | ARP entries made from adjacencies | create, delete | adjacency | entries live as long as the adjacency |
| ARP (`Layer2/layer2.c`) | entries, incomplete or complete, with pending packets and an expiry timer | look up, request, reply, forward, expire | IP forwarding, wheel | packets wait where a reply will hand them out and leave with its address; entries and timers agree; a table that is not used empties |
| L2 switch, VLANs (`l2switch.c`, `layer2.c`) | modes and VLANs of interfaces, MAC table | configure, qualify, learn, forward, flood | receiver | VLANs fill their array without gaps or doubles; a port with a VLAN takes frames, and the switch learns from them |
| frame transport (`comm.c`) | one send buffer for all threads, a UDP socket per router | send, receive | everything that sends | a frame arrives whole at the other end of its link |
| routing table (`Layer3/layer3.c`) | routes with up to `MAX_NXT_HOPS` next hops, index of the next one to use | add, delete, clear, longest-prefix match, take a next hop | SPF, CLI, forwarding | one route per destination, no gaps, the index stands at a next hop, own subnets stay |
| SPF (`spf.c`) | metric and next hops per node, queue, results per root, reference counts | compute for one or all, install | CLI | shortest paths, next hops on them only, no next hop freed while it is in use |
| forwarding, ping (`layer3.c`, `ping.c`) | the packet, its ttl, a packet inside | send, forward, deliver, drop | CLI, receiver | every packet ends; with tables that follow from the topology it arrives |
| event dispatcher | task list, packet queues, current task | create, cancel, re-schedule, enqueue | LSP generation and transmission | (never started) |
| notification chains (`notif.c`, `layer5.c`) | subscribers with or without a key | register, invoke | layer 2 to layer 5, interface changes | each subscriber is called once per event |
| CLI parser (`CommandParser/`) | cursor in the command tree, buffer of leaves, checkpoint | token by token; modes, `do`, replay, files | the user | the buffer a command is handed describes the command |
| CLI commands (`nwcli.c`, `isis_cli.c`, `tcp_ip_trace.c`) | - | read the buffer, call the part | parser | every leaf is known and the node is given |
| tracing (`tcp_ip_trace.c`) | flags of nodes and interfaces | set, log | everything | a log that is off is off |
| `glueThread/` lists | doubly linked lists | add, remove, sorted insert, delete all | everything | links agree in both directions, order is kept |
| AVL tree (`avlTree/`) | tree with parents, balances, first, last, height | insert, remove, iterate | link state database | ordered, balanced, fields true |
| topologies, start-up, packet generator, POSIX timers | - | - | - | built once; a sender; unused |

### Where it is hard

`PROJECT.json` lists each hazard at its line. They fall into these groups:

- requests to the wheel that cross the wheel's own work on the same element: the
  first half of a call writes the element without the reschedule list's mutex;
- check and act without a lock: what a lookup in the ARP table has found is freed, created
  or completed before it is used;
- requests that override each other before the wheel has seen them, and requests
  in the very tick in which a timer is due;
- slot and cycle arithmetic at the turn of the wheel;
- control that runs on past a missing `break` (`isis_change_adjacency_state`,
  ARP frames), flags set too early (reconciliation), or never (`SET_BIT`);
- teardown commands from states nobody tried them in;
- three threads in the same adjacency, ARP entry, send buffer or route without a lock;
- packets that meet tables of different times;
- a text buffer and a cursor that move separately (the CLI parser), and pointers
  kept into that buffer (the interface of a configured route);
- reference counts and counters at their limits.

## 2. What is here

| module | models | is checked by | is proved about in |
|---|---|---|---|
| `TimerService` | abstract: what the wheel promises its clients | | |
| `WheelTimer` | `WheelTimer.c`, the calls and the wheel's thread | `MCWheelTimer`, 4 cfgs | `WheelTimer_proofs` |
| `IsisAdjacency` | adjacencies of a router with the handlers of all three threads | `MCIsisAdjacency`, 4 cfgs | `IsisAdjacency_proofs` |
| `ArpTable` | the ARP table of a router between its threads | `MCInputOutput` | `InputOutput_proofs` |
| `L2Switch` | interface modes, VLANs, the switch | `MCInputOutput` | `InputOutput_proofs` |
| `Transport` | sockets and the shared send buffer | `MCInputOutput` | `InputOutput_proofs` |
| `CommandTree`, `CommandParser` | the commands of the program and the parser that reads them | `MCInputOutput` | `InputOutput_proofs` |
| `Tracing` | trace flags and where entries go | `MCInputOutput` | `InputOutput_proofs` |
| `RoutingTable` | the routing tables and all that changes them | `MCRouting` | `Forwarding_proofs` |
| `Spf` (extends `RoutingTable`) | SPF, round by round | `MCRouting` | `Spf_proofs` |
| `KeyedList` | lists in the order of a key, what `glthread_priority_insert` and `remove_glthread` do to them | with `Spf`, `GlThread` | `KeyedList_proofs` |
| `Forwarding` (extends `Spf`) | packets through the tables, ping | `MCRouting` | `Forwarding_proofs` |
| `GlThread` | the pointers of the linked lists | `MCRouting` | `GlThread_proofs` |
| `AvlTree` | the balanced tree | `MCRouting` | `AvlTree_proofs` |

`Forwarding`, `Spf` and `RoutingTable` are one composition: an action of the upper
module conjoins those of the lower one (`FwReceive` uses `UseRoute`, `SpfClear` uses `ClearRoutes`).
The other modules share no variables. `MCRouting` and `MCInputOutput` each
put several of them in one run; the variable `focus` says which part moves while the
others stay in an initial state, so that their state spaces add up and do not multiply.

`TimerService` joins the wheel and its clients, `IsisAdjacency` and `ArpTable`: the wheel implements it as long as no calls on one timer cross (see
WheelTimer), the clients use their timers as it allows. So a timer is a countdown in
`IsisAdjacency` and `ArpTable`, and the slots, lists and mutexes stay in `WheelTimer`.

### TimerService

`due[t]` is the number of ticks until timer `t` fires, `hot` the timers that fire
in the current tick. `Post`: a client arms and cancels. `Fire`: a callback runs and
may do the same. `Tick`: time passes, only when nothing is hot. One thing is not
what a reader of `WheelTimer.h` expects: to arm a timer again in the tick in which it
is due does not stop it from firing, because the wheel looks at requests after it
has walked the due slot. To cancel it does.

### WheelTimer

| state | code |
|---|---|
| `current_clock_tic` | the same; `current_cycle_no` is folded into `rounds` |
| `rounds[e]` | `execute_cycle_no - current_cycle_no`: whole turns still to go, -1 for an element of the past |
| `slot_no`, `linked` | the slot lists; they are sorted by cycle, so the first element of another cycle ends the walk (`Blocked`) |
| `reschd_list`, `opcode`, `new_time_interval` | the reschedule list and what an element asks for |
| `arg`, `handle` | `wt_elem->arg`, which de-registration clears; the pointers clients hold |
| `pc`, `cur` | where `wheel_fn` is: asleep, in the slot, in a callback, in the list |
| `call[t]` | the second half of a call that thread `t` has begun |
| `fault` | the assert, or a call on freed memory |
| `crossed` | history: the elements on which calls have crossed |

A call is two actions, split where it takes the mutex: `RegisterAppEvent`,
`DeRegisterAppEvent`, `WtElemReschedule` or `TimerReschedule`, then `Link`, or
`LinkFreed` if the wheel has freed the element in between: the opcode is written and the
element linked all the same, and the model ends there because nothing is defined any more. The
wheel is `Wake`, then `Invoke` / `Return` / `InvokeCleared` for each due element,
`StartList`, one `Process...` per element of the list, `Advance`. The mutex is held
over the list, so `Link` waits while `pc = "list"`. Choices worth knowing:

- `Wake` waits for calls that have begun. It stands for the sleep of a whole
  tick (1 s) outlasting the few instructions of a call; without it a thread
  could be suspended in a call for many ticks.
- The callback of a one-shot element de-registers it, as each of the program's
  callbacks does. One whose argument has been cleared is called with NULL and returns at
  once. (The ARP and overload callbacks do not test for NULL; see the hazards.)
- Nothing in the code keeps calls on one element apart, and the refresh of an adjacency
  (`isis_adjacency.c:79`) and of the flood timer (`isis_flood.c:185`) use
  `timer_reschedule`. So the model lets any thread call any function at any time
  (`Serialised = FALSE`), and `crossed` records what can be lost by it: two calls on one element
  of which one gives it up cross if one begins before the other has linked
  it, and a `timer_reschedule` crosses the wheel if the wheel serves the element between its two
  halves. Until then every promise holds (`FaultsCrossed`, `BlocksCrossed`,
  `KeepsTimeApart`, `NoDangling`); the runs `wheel_assert` and `wheel_blocked` show what
  comes after. `NoneLost` holds whatever crosses.
- `Serialised = TRUE` is a contract that no code enforces: a client does not call on an element while another
  call on it, or its callback in the wheel's thread, is going on, and does not use `timer_reschedule`. `wheel_serialised` uses it,
  to check the promises without the proviso, and liveness.

### IsisAdjacency

`adj_state`, `expiry_timer`, `delete_timer` and `adj_up_count` are the adjacency's and
the node's fields, the timers as ticks left (`Off` if NULL). `expiring` and `deleting`
are the timers due in the current tick. `configVars` are what is enabled and up.
`silent` and `spurious` are history variables and decide nothing: ticks since the
last hello, and changes to DOWN that were not from UP.

Handlers are actions: `ReceiveHello` / `ReceiveAgain`, `ExpiryTimerFires`,
`DeleteTimerFires`, `Tick`, and one per CLI command. `ChangeToDown`, `ChangeToInit`,
`ChangeToUp` and `RefreshUp` are `isis_change_adjacency_state` by what it does,
cases that run on for want of a `break` included. Some points of the code:

- A hello is delivered twice, once by the trap rule and once because the subscriber
  has no key (`notif.c:93-98`), so that one hello takes a new adjacency from nothing
  to DOWN and on to INIT. Other threads run in between.
- `moved`: the neighbour's address differs from the one on record. On a
  LAN segment hellos of different routers arrive on one interface.
- The process ends (`crashed`) where the code dereferences NULL or asserts:
  `isis_de_init` always, disabling an interface without adjacency, and the second
  adjacency that comes up.
- Undefined behaviour is a choice: `isis_init` reaches `glthread_add_last`, which tests an
  uninitialised pointer, and so either does nothing or dereferences NULL.
- Shutting an interface changes nothing here but `is_up`: the command marks the change with `SET_BIT`, which does not
  assign (`nwcli.c:476`), so no protocol hears of it, though `isis_intf.c:199-201` says the adjacency is deleted.
- Interface addresses and the L2 mode are configured before; only up and down change.

### ArpTable

`arp_state` is `"none"`, `"sane"` (the code's word for incomplete) or `"full"`; `arp_mac`,
`arp_pending` and `arp_timer` are the entry's other fields, `arp_due` and `arp_orphan` the timers due in this tick and
those of them whose callback's argument has been cleared. A step is one
walk or one change of a list, without a lock between any two. `arp_held` is where each thread is:

| step | code | then |
|---|---|---|
| `ArpLookup` | `l2_forward_ip_packet` up to the lookup | `"looked"` |
| `ArpForwardAbsent` | no entry: the second lookup, in `create_arp_sane_entry` (545), with its test | `"missed"` or `"append"`, or dead (551) |
| `ArpForwardMissed` | `arp_table_entry_add` of the new entry, with its own lookup (397), and the request | done, or dead (571, 277) |
| `ArpForwardAppend` | the packet appended to an entry found incomplete (554) | done |
| `ArpForwardTest` | direct delivery finds `is_sane` set (280) | `"wait"` |
| `ArpForwardWait` | and appends the packet (281) | done |
| `ArpForwardPresent` | the frame goes out (286-294) | done |
| `ArpReply` | a reply, up to `arp_table_entry_add`: a new entry (case 0), one that replaces a complete one (case 2), or an incomplete one that gets the address (case 4) | done, or `"send"` |
| `ArpReplySend` | the loop over what waits (495-500) | `"clear"` |
| `ArpReplyComplete` | `is_sane` ends (501) | done |

Case 3 of `arp_table_entry_add` is met when another thread has added an incomplete entry since line 545; it
returns FALSE and the assert of line 571 fails. (Case 1 is not met: no two entries are the same bytes.)
`arp_late` is history: the entries to which a packet was appended after what waited had been handed out,
by a thread whose test of `is_sane` was true when it was made. Two walks or changes at once in one list,
which can corrupt its pointers, are not modelled. Points of the code:

- A packet whose interface layer 3 has named is sent though the entry is incomplete, with a
  zero address, and refreshes the entry's timer.
- The process dies (`arp_dead`) on a use of a freed entry (`"freed"`), an entry that became complete
  (`"complete"`) or that another thread has added (`"refused"`) between a lookup that found none and the new entry's
  place in the table, direct delivery to an unknown host, whose packet is appended
  to a NULL entry (`"null"`), and a callback whose argument was cleared (`"callback"`).
- A packet that comes too late stays at a complete entry until the entry expires or is replaced; nothing hands it out.
- A MAC with a zero byte is cut in the table (`strncpy`) but not in what is sent for the reply.

### L2Switch

`sw_l3`, `sw_mode` and `sw_vlans` are `is_ipaddr_config`, `intf_l2_mode` and the array `vlans`. While
`sw_building`, the topology functions configure in any order; then frames arrive. What
the code makes of it: an access port's VLAN is written one place behind the array, into the
bytes of `is_ipaddr_config` (so VLAN 300 makes a layer-3 interface, VLAN 10 does not); a trunk takes no untagged frame, a
tagged one ends the process; learning a first address reads through NULL. `README.md:4-8` promises a switch that learns and forwards, `layer2.h:235-236` that an access port with a VLAN
takes untagged frames. `SwLearns` states the first and is violated; that the sum of these faults is a switch that
never switches anything is a theorem (`SwNothingSwitchedAlways`), which no run checks.

### Transport

A call of `send_pkt_out` is four steps on `send_buffer` (`TrBegin` clears it, `TrFillName`,
`TrFillPayload`, `TrSendTo`), by the receiver's, the wheel's or the CLI's thread. A
datagram is what was in the buffer at `sendto`, with the length of the frame that was meant.
Datagrams are lost if the socket is full or was never bound. `alone` is history: did another
sending overlap?

### CommandTree and CommandParser

`CommandTree` is the registered tree as sets of paths, the callback of each parameter and what
each callback reads. `CommandParser` has `cli_cursor`, `cli_buf`, `cli_mark` (the checkpoint) and
`cli_held` (the values leaves keep); a line is a sequence of `CliToken` that ends in
`CliEnter`, `CliMode` (`/`), `CliSuboptions` (`?`) or `CliRefuse`, and `CliReturn` unwinds
what the line was read for: the prompt, a `do`, a replay or a file (`cli_calls`; each `do` keeps the cursor it will
return to). Any value a user can give is
one of `CliNode` or `CliOther`. `cli_stray` names the ways the program loses track (a mode
entered from a file, a replay or `config /`, or a `do` from a negation); the properties hold
outside them. Writing behind a keyword's memory (`cli_hurt`) may end the process at any time;
other ways in which it could go wrong from there are not modelled. So may `?` after a `node` parameter, whose
display walks a list from a pointer that was never set (`CliShowsNodes`).

### Tracing

The flags of routers and interfaces, and per logger the exact tests it makes: receiving asks
node and interface, sending the node alone, forwarding the node's `l3-fwd`.

### RoutingTable

A table is a set of routes with the array `nexthops` and `nxthop_idx`. Addresses and masks are
symbolic: a node's loopback, or an interface's address, with 32 or the subnet. That
`LookupLpm` compares text is `RtStarts`, the pairs of addresses of which one is a prefix of the
other as text. An oif of a configured route is `RtText`: it reads what the CLI's buffer holds
(`rt_text`), whichever command wrote there last.

### Spf

`compute_spf` by phase: `"direct"` (`SpfDirectNbr`), `"queue"`, `"explore"`, `"install"`; one round of a
loop is one step, so that the array, the queue and the counts are seen between any two; results are
installed one next hop at a time. A root
makes one next-hop object per interface, so that the interface names it. `SpfUnion` is the merging
of arrays with its one index for two. Costs and interface states change between runs only,
because the CLI's thread does both; no change starts a run (`IS_BIT_SET` holds for neither flag).
Metrics are at most `SpfMaxMetric`, `INTF_MAX_METRIC` (`tcpconst.h:20`), which the CLI enforces
(`nwcli.c:535-540`); `SpfFits` says that no path adds up to `INFINITE_METRIC`: with 2^24 - 1 and
2^32 - 1 that is so for up to 256 routers.

### Forwarding

One packet at a time, `fw_pkt`: where it is, its destination, ttl and what is inside.
`FwReceive` is `layer3_ip_pkt_recv_from_bottom`, `FwPing` `layer3_pkt_recv_from_top`. ARP is
as once resolved, and a packet may be lost (`FwLose`). `fw_calm` is history: have all tables
followed from the topology since the packet was sent?

### GlThread and AvlTree

The pointers themselves: `gl_left` and `gl_right` of each item and the head; `kid`,
`parent`, `balance`, `root`, `end` and `height` of the tree. `gl_order` and `av_members` are what
they stand for. `GlEnqueue` is what SPF and the wheel do (remove, insert in order),
`AvClean...` the loop of `isis_cleanup_lspdb` that removes what it stands on. What the code writes
for the left and for the right is written once, with a side. A loop (`do_lookup`, the climb of
`avltree_remove`, `get_first`, the way up of `avltree_next`) is one round as a function (`AvLookRound`, `AvShrinkRound`, ...)
and `AvLoop`, which repeats it; a round that has come to the end of the loop changes nothing, and that each
loop has come to its end after as many rounds as there are keys is among the things proved.

## 3. What the runs check

Passing runs:

| run | question | constants | distinct states |
|---|---|---|---|
| `wheel_serialised` | clients that keep the contract: no fault, no blocked slot, the whole of `TimerService` with its liveness (`ImplementsTimerService`), and everything given up is freed (`Reclaimed`) | 2 elements, 2 slots, intervals 1..2, two calling threads | 59 206 |
| `wheel_races` | any thread, any function, at any time: no element lost (`NoneLost`); until calls have crossed no freed memory in a list, no death in the wheel, no blocked slot, every callback at its tick (`NoDangling`, `FaultsCrossed`, `BlocksCrossed`, `KeepsTimeApart`) | the same, intervals 1..3, symmetric in the elements | 2 970 660 |
| `adjacency` | timers fit the state, hold time kept, expiry justified, the count's drift, flood interval, quiet adjacencies freed, timers used within `TimerService` | 2 interfaces, hold time 6, delete time 5, count modulo 3 | 184 148 |
| `routing` | SPF: shortest paths, all results recorded once, next hops on shortest paths (`SpfCorrect`), none freed in use (`SpfHeld`). Tables: sound, own subnets kept. Packets: delivered once all tables follow from the topology (`FwConverged`), and every one ends (`FwEnds`). Lists and trees stand for what was put in (`GlSound`, `AvSound`, `AvCleans`) | see Bounds | 87 550 |
| `input_output` | frames arrive whole unless two sendings overlap (`TrIntact`); ARP: packets, entries and timers agree, packets leave with a whole address, `TimerService` is used as promised, an unused table empties; VLANs are packed; the buffer of the command line describes its cursor and each handler gets its leaves; a silenced log is silent | see Bounds | 459 893 |

Runs that end in a violation, each of a promise the repository makes:

| run | promise | what the code does |
|---|---|---|
| `wheel_assert` | `assert(0)` at `WheelTimer.c:105`: no other opcode reaches the list | `timer_reschedule` writes the opcode outside the mutex; the wheel may overwrite it with `SCHEDULED` before the element is linked |
| `wheel_blocked` | `WheelTimer.c:175-177`: a reschedule that meets the delete of an expiring callback is "a Valid Scenario" | the element comes back without argument, stays in its slot past its cycle and hides the slot's other timers from then on |
| `adjacency_count` | `isis_rtr.c:67` shows "Adjacency up count" | changes to DOWN from DOWN and INIT decrement it too: 65535 after two hellos |
| `adjacency_restart` | `isis_flood.c:218`: only with a phase in progress and no timer | called through an uninitialised pointer when a second adjacency comes up |
| `adjacency_reconcil` | `isis_const.h:37`: the phase has a threshold time | its timer is never started, because the flag that forbids starting it twice is set first |
| `arp_assert` | `layer2.c:544-551`, `571`: the entry that is created is still not there | a reply, or the other thread, has put one there since the lookup, and an assert ends the process |
| `switch_learn` | `README.md:5`: MAC learning | an unknown address is compared through NULL before the test for NULL |

### Bounds

- Wheel: two elements suffice for one to hide, outlive or follow another. With two
  slots, intervals of 1 to 3 ticks end in the current slot and in the
  other, need zero, one or two turns, and wrap; a slot holds an element whose turn has not
  come together with one that is due. The real wheel has 60 slots; nothing
  depends on the number except through quotient and remainder. `CounterMod = 1` leaves
  `no_of_wt_elem`, which is only printed, out of the state space. `wheel_serialised`,
  which checks liveness, has intervals up to 2 to stay small.
- Adjacency: the intervals are the program's own (hello 3 s, hold time twice that,
  delete 5 s). Two interfaces, because the effects between adjacencies (the count,
  the reconciliation) need two. `CountMod = 3` wraps quickly and still tells 0, 1
  and 2 UP adjacencies apart.

- SPF (`routing`): a net of six routers with parallel links, equal costs and a link that is
  half down, and the ring of four with any choice of its sides dear, one of them so dear that the
  way round is cheaper: nodes are reached over several paths, improved after they were queued, and arrays merged. SPF
  runs for one router, then again, or for all; one interface changes its cost or state in between.
  `RtMaxNxtHops = 4` is `MAX_NXT_HOPS` of the code.
- Packets (`routing`): a triangle whose third side is as dear as the two others, or dearer,
  one change by the CLI, two static routes that can form a loop, three pings, one of them with a
  packet inside; ttl 3, so that a loop runs out. In this run, not in `Forwarding`, pings wait for the end of SPF's
  runs; packets then meet tables between two routers' runs, and changes.
- Lists: four items with two keys (equal keys, and an item in the middle). Tree: nine keys in any order of
  insertions and removals, which reaches each single and double rotation, at the root and below it.
- ARP (`input_output`): one address, since entries never interact; two MACs, one with a zero byte;
  two threads, one of which also takes in replies, expiry after two ticks, three packets waiting or under way (one that waits, one that comes too late, one that is being looked up), two replies under way.
- Switch: two interfaces, two places for VLANs, VLAN 300 because its second byte is not zero, a
  node with free places in its interface array.
- Transport: three routers in a row, two threads, two frames, sockets of one datagram, one router that may be
  unbound, one interface that goes down and up.
- Command line: the whole tree of the program; two node names, two nested lines (a replay in a
  file, a `do` in a replay), one leaf in the buffer when a command leaves it there.
- Log: two routers, one with two interfaces.

The adjacency runs, `routing`, those of `MCInputOutput`, and those that may reach a fault have `CHECK_DEADLOCK FALSE`: the
process may be dead, which is a state without successors. The wheel's run
under the contract checks deadlock.

### Fairness

- Wheel: its thread is a `while(1)`, hence `SF_vars(WheelStep)`. Strong, because the guards
  of `Wake` and `Invoke` that wait for calls are not locks but stand for
  calls being short; calls that come and go do not hold the thread up. A call that has begun
  ends (`WF` on `Link`), and a one-shot callback does reach its de-registration
  (`SF_vars(DeRegisterOwn)`).
- Adjacency: `WF` on `Tick` and the two callbacks, which is the wheel's liveness, and on
  `ReceiveAgain`, the rest of a loop that has begun. Nothing is assumed of
  hellos or of the CLI: neighbours may stop, or never have been there.

- ARP (`ArpFairness`): `WF` on the tick and each due callback, the wheel's liveness again, and on a thread's
  going on with the packet or reply it has begun, the rest of a function. `ArpSilence` is an event, not an assumption: the
  claim is about what follows if nobody sends any more.
- Packets: `WF` on `FwReceive`; the receiver's thread is a loop over the sockets. Nothing is
  assumed of the CLI or SPF, which may run for ever.

## 4. What is proved

With TLAPS, for all values of the constants. The assumptions give the constants their
types: hold and delete times are positive (`AdjacencyAssumption`, `FrameAssumption`), a link has
two ends, NULL is no next hop, there is a place (`RtAssumption`, `RtNoHopIsNone`,
`SwAssumption`, `TrAssumption`, `ArpAssumption`, `ArpNames`, `LgAssumption`, `GlAssumption`, `WheelAssumption`,
`SpfAssumption`, `FwAssumption`, `CliAssumption`), and the keys of a tree are finitely many (`AvAssumption`). Three say more: `SpfFits` (see Spf above); that the wheel has more than one slot (60 in the code), which stands in
the statement of the theorems that need it; and that there are no more routers than the ttl of a new packet (64 in the
code), which stands in the statement of `FwAlwaysConverged`.

| theorem | module | states |
|---|---|---|
| `TypeCorrect` | `IsisAdjacency_proofs` | `[]TypeOK` |
| `TimersAlwaysMatch` | | `[]TimersMatchState` |
| `AlwaysHeardRecently` | | `[]HeardRecently` |
| `ExpiryAlwaysJustified` | | `[]ExpiryJustified` |
| `AlwaysReconcilingWhileUp` | | `[]ReconcilingWhileUp` |
| `AdjacenciesUseTimerService` | | `UsesTimerService`, a refinement |
| `UpCountAlwaysDrifts` | | `[]UpCountDrift` |
| `TypeCorrect` | `WheelTimer_proofs` | `[]TypeOK` of the wheel |
| `NeverLost` | | `[]NoneLost`, whatever the clients do |
| `NeverDangling` | | `[]NoDangling`: freed memory is in no list unless calls on it have crossed |
| `FaultsOnlyCrossed`, `BlocksOnlyCrossed` | | `[]FaultsCrossed`, `[]BlocksCrossed`: no fault and no blocked slot until calls have crossed |
| `KeepsTimeUntilCrossed` | | `KeepsTimeApart`: until then every step is one of `TimerService`, or a stutter |
| `ArpWaitsAlways`, `ArpTimedAlways` | `InputOutput_proofs` | `[]ArpWaits`, `[]ArpTimed` |
| `ArpAnsweredAlways` | | `ArpAnswered`, an action property |
| `ArpUsesTimersAlways` | | `ArpUsesTimers`, a refinement of `TimerService` |
| `SwVlansPackedAlways` | | `[]SwVlansPacked` |
| `SwNothingSwitchedAlways` | | `[]SwNothingSwitched`: how far the finding of `switch_learn` reaches |
| `TrIntactAlways` | | `[]TrIntact` |
| `LgAlwaysSilenced` | | `[]LgSilenced` |
| `InputOutputInvariant`, `InputOutputTypes` | | all these invariants and the command line's together, under the run's specification; `[]InputOutputTypeOK` |
| `CliInvariant`, `CliTypes` | | the inductive invariant of the command line, `[]CliTypeOK` |
| `CliContextAlways`, `CliServedAlways` | | `[]CliContext`, `[]CliServed` |
| `RtTypes`, `RtSoundAlways`, `RtOwnKeptAlways` | `Forwarding_proofs` | `[]RtTypeOK`, `[]RtSound`, `[]RtOwnKept` |
| `GlAlwaysSound` | `GlThread_proofs` | `[]GlSound` |
| `AvInvariant`, `AvTypes` | `AvlTree_proofs` | the inductive invariant of the tree, `[]AvTypeOK` |
| `AvSoundAlways`, `AvCleansAlways` | | `[]AvSound`, `[]AvCleans` |
| `SpfAlwaysHeld`, `SpfAlwaysCorrect` | `Spf_proofs` | `[]SpfHeld`, `[]SpfCorrect` |
| `FwAlwaysBase` | | the inductive invariant of the composition |
| `FwImplementsRouting` | | the composition of tables, SPF and packets is a behaviour of `RtSpec`, a refinement |
| `FwKeepsTablesSound`, `FwKeepsOwnRoutes` | | `[]RtSound`, `[]RtOwnKept` of the composition |
| `FwKeepsSpfCorrect`, `FwKeepsSpfHeld` | | `[]SpfCorrect`, `[]SpfHeld` of the composition |
| `FwAlwaysConverged` | | `[]FwConverged`, if there are no more routers than the ttl |

`KeyedList_proofs` holds the lemmas about ordered lists that `Spf_proofs` and `GlThread_proofs` cite, and
`KlLeast`, on which all inductions rest.

The argument:

- Adjacencies: none of the timer properties is inductive. `HeardRecently` needs to know that the timer
  and the silence add up to the hold time, `TimersMatchState` that a timer in its
  due tick is in `expiring` or `deleting`, `ExpiryJustified` both. `TimerInv` says, for each
  interface, which combinations of state, timers, due sets and silence exist. The
  lemmas treat `isis_change_adjacency_state` case by case, and each action changes one
  interface (`TimersKept` for the others), except `Tick` and the deletion of all.
- `ReconcilingWhileUp` needs `ConfigInv`: adjacencies exist only where the protocol is
  enabled, and the flood timer runs from `isis_init` on.
- `UpCountDrift` is an argument modulo `CountMod`. Each action changes the number of UP
  adjacencies, the count and `spurious` by amounts that cancel; the module proves the facts
  about remainders it needs (`ModAdd`), because the provers have none.
- `AdjacenciesUseTimerService` maps the two timers of each interface to `TimerService`:
  handlers and CLI commands are `Post`, callbacks `Fire`, `Tick` is `Tick`, the rest
  stutters. It rests on `TimerInv`: a callback is due only while its timer is, and no
  timer is armed with 0.

- Wheel: `TypeOK` rests on `PlaceRange`: a place at most `MaxInterval` ticks ahead is at
  most that many turns away. `NoDangling` is strengthened to `Owned`: an element on which no calls have crossed
  and that waits to be freed has left its owner's hands and has no call under way, and no callback runs while
  the list is processed. `NoneLost` is inductive: of all steps only `ProcessDelete` takes an element out of both lists.
- Wheel, until calls have crossed, with every function and any number of threads, on a wheel of more than one slot:
  `ApartInv`, under the premise that `crossed` is empty. `CallsApart` says what the second half of a call
  meets: two calls on one element are reschedules, a `timer_reschedule` finds the opcode it left, and no call is
  under way on an element that waits to be freed. `SlotsTimed` says how far the wheel
  is from each element of its slots, `Remaining(e)`: never further back than one tick, there only with the argument
  cleared, and from the end of the slot to the end of the list never 0 with an
  argument. `FaultsCrossed` and `BlocksCrossed` follow. The arithmetic is in `PlaceDivides`, `Turns` and
  `RemainingOfAdvance`: a place `n` ticks ahead is met `n` steps of the clock later, whatever the size of the wheel.
- `KeepsTimeUntilCrossed` is the refinement, action by action: first halves of calls and the processing of the
  list are stutters or `Post`, `Invoke` and `Return` are `Fire`, `Advance` is `Tick`. `TimesInRange` and
  `TimeLeftCases` carry `ApartInv` over to the mapping's `TimeLeft`.

- ARP: `ArpWaits` and `ArpTimed` are not inductive alone: a thread that uses the pointer of its
  lookup would arm a timer for nothing if the entry were gone. `ArpHolds` says that who holds a pointer that is not
  freed holds one the table has, that a reply that hands packets out finds `is_sane` still set, that
  only the receiver does so, and that a thread is in one place at a time; so what waits is handed out once, and
  whoever appends after that is in `arp_late`. `ArpUsesTimers` needs that a due timer is still armed.
- Switch: `SwOnTrunks` says how an access port can have a VLAN at all, which
  makes `SwNothingSwitched` inductive.
- Transport: `TrLone` says that a sending that is alone is the only one and that the buffer
  holds what it has put there so far; `TrWhole` carries this over to the datagrams in the sockets.
- Log: `LgQuiet` says that neither a silenced node nor any of its interfaces has a flag that sends entries to its log file;
  it holds from `no all` to the first flag that is set again, and the loggers write nothing without one.
- Command line: `CliHolds` says that the leaves on the way to the cursor, to the token read and to where each `do` will
  return have values, `CliBufInv` that up to the checkpoint the buffer describes the cursor and, while a line is
  parsed, all of it the token read. Both `CliContext` and `CliServed` follow. `CliLeaves` is a recursive function;
  `CliLeavesIs` gives it a witness and `CliLeavesAppend` says what one more word does. That handlers know the leaves they are
  handed is a statement about the program's tree: `CtTree` and `CtStep` say what leads to a
  parameter, `CtKnowsLeaves` goes through the groups of commands, not through the paths.
- Together: the parts of `MCInputOutput` share no variable, so a step of one is a stutter of the others
  (`InputOutputApart`).
- Tables: `RtFilled(r, n)` names the number of filled places of a route; with it the first free place is
  `n` and the index is below `n`, which `RtPacked` alone does not yield. The lemmas are about
  single tables (a hop added, a route added, the index moved), the step has one case per command. `RtNext` lets the
  commands and SPF's steps come in any order with any arguments.
- Lists: `GlLinked` says, by position, which pointers a list has whose sequence is given; the lemmas show what
  each function of `glthread.c` does to it (`GlAddNextLinks`, `GlRemovedLinks`, `GlPriorityInsertLinks`,
  `GlDeletedLinks`), the two loops among them by what they leave. `GlInv` adds that a queue is in order.
- Tree: `AvInv` says that two ghosts exist (`AvWell`): `U`, the members at and below each node, and `H`, the height
  of each node. By `U` the keys are in order below pointers that agree (`AvOrdered`), by `H` every
  balance field is true (`AvHeights`, `AvLevel`). The properties compute the same from the pointers alone
  (`AvUnder`, `AvHeight`); that they agree with the ghosts is `AvUnderIs` and `AvHeightIs`. Each operation is
  shown to have ghosts again, which is local where the recomputation would not be: a rotation changes `U` and `H` at two
  nodes (`AvTurnKeeps`, `AvOnce`), two rotations at three (`AvTwice`), a new leaf the members of the nodes above
  it (`AvInserts`), a removal those of the nodes above the gap, and the climb, round by round, heights only
  (`AvShrinking`, with the number of rounds still to come). A node with two children changes places with its successor:
  `AvSwaps` gives the successor's place, with its ghosts, to `AvShrinks`. `AvCleans` needs of this that the neighbour that
  `avltree_next` finds is the next member in order (`AvNeighbourIs`), so the loop's pointer is the first member when the
  one before it has gone.
- `SpfHeld` counts: `SpfInv` has, for each next hop, `SpfTimes`, the number of pairs of node and
  place that hold it, and that the count covers them and those of the results. The facts about these
  numbers when one array is replaced (`SpfTimesReplaced`) or one result added (`SpfFoundMore`) are proved
  from cardinalities. The merging of arrays is a recursive function; `SpfUnionIs` gives it a witness place by
  place and so proves that it exists and what it holds. `SpfOwned` says that a run touches no next hop but its
  root's, which is why one count suffices for the results of one root.
- `SpfCorrect` is the correctness of this Dijkstra, with its arrays of next hops. `SpfRun` is the run as
  one value; `SpfRight` of it says that
  results are of different nodes and never change (`SpfRecorded1`), that no interface looked through offers a shorter way,
  that each metric is attained by one of them and that nodes without a result are no nearer than those with one
  (`SpfMetricsRight`), and that an array holds at least one next hop and none that is not on a shortest path so far
  (`SpfHopsRight`). `SpfTurn` says where the loops are: what the queue holds, and that the
  node that is explored is the farthest recorded. `SpfFarther` and `SpfNearer` are the two outcomes of a round of
  `spf_explore_nbrs`, `SpfNearestRecorded` is the dequeueing, `SpfComplete` the end: an empty queue
  makes the equations those of `SpfShortest`. That no metric meets `INFINITE_METRIC` comes from
  `SpfFewResults`: with `n` results no metric is above `n + 1` greatest costs.
- The composition: `FwStepBase` says that each step of `Forwarding` is a step or a stutter of `RtNext` and keeps
  `FwBase`. The first needs the second: `SpfInstall` must not install a route to the root itself, and it does not
  because no result is of the root. So what is proved of `RtSpec` holds while SPF and packets run. Of `FwBase`,
  `FwTables` is new: each table that counts as current follows a solution of the shortest paths (`FwFollows`: only
  next hops of its results, and a route for each), and the table that is being filled does so but for the results still to be
  installed (`FwInstalls`). A next hop that is refused because it is there, or because no place is
  free, leaves this true.
- `FwConverged`: `FwSolved` spells out `SpfShortest` for one root. Two solutions from one root agree in nodes and metrics
  (`FwUnique`), and what a next hop leads to has, in a solution of its own, the destination nearer
  by the cost of the link (`FwNextHop`, by a smallest counterexample, `KlLeast`). So the set of routers nearer to the destination
  shrinks with each hop (`FwNearer`, `FwFewer`) and its size stays below the ttl (`FwNears`); an address
  finds its own route and no other, where it is not the beginning of another as text (`FwLookup`). `FwOnWay` puts this together as
  an invariant. The packet inside another one starts with a whole ttl from where it is taken out.

Induction over the naturals is within reach where it can be said with sets (a set of
naturals that is not empty has a least element: `KlLeast`); what a recursive operator computes is not.

Only model-checked:

- `RoutingTypeOK`, the types of modules put side by side in one run; the types of its parts
  are in the invariants above, but for those of the packets and the bounds of SPF's;
- liveness (`QuietIsFreed`, `Reclaimed`, `ArpQuietEmpties`, `FwEnds`, the liveness of `TimerService`), which is out
  of the prover's reach.

## 5. What is not modelled, and the plan

Not modelled, and why:

- Link state database, flooding, transmit queues (`isis_lsdb.c`, most of `isis_flood.c`): a router's LSP is made
  by a task of the event dispatcher, which the program never starts. So no LSP is ever
  made, sent or installed; a model would check a program other than this one. The tree and the
  loop that cleans it are in `AvlTree`.
- Event dispatcher: never initialised or run; and `glthread_add_last`, through which a task
  would be queued, tests an uninitialised pointer and adds nothing. What its callers meet is in
  `IsisAdjacency`.
- Level-2 mapping, overload and the hello interval of IS-IS: their cases in
  `isis_intf_config_handler` stand inside the `switch (enable_or_disable)` of another command
  (`isis_cli.c:206-277`) and are never reached.
- The chain of interface changes: its callers test the flags with `IS_BIT_SET`, which compares the masked bit
  with 1 and holds for none of them.
- `timerlib.c`, `flood.c`, `testapp.c`, the other `main` files of the parser, `send_pkt_to_self`,
  `send_pkt_flood`, `clear_arp_table`, `reset_wheel_timer`: nothing calls them.
- The unit-test reader of the parser (`CommandParser/ut`): it needs a file of test cases that is not there.
- Tagging of frames: a tagged frame ends the process first (`FrameRecvTagged`).
- Building a topology, and the start: assignments, once, before any thread.
- Printing, statistics, the text of logs, packets' formats, checksums.
- Two threads inside one IS-IS handler or one use of a route; a callback's read of its
  argument and its use of it.

What would come next, in order of importance:

1. `AdjacencyThreads`: receiver, wheel and CLI inside the handlers of one adjacency, where a pointer to the
   adjacency or its timer is read and then used. Refines `IsisAdjacency` when handlers do
   not overlap; shows what overlap costs, for the hello timer's data too.
2. `Transport` under `Forwarding` in place of its one-step links: what an overlap of two sendings does to
   packets on their way.
