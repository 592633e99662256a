------------------------------ MODULE ArpTable ------------------------------
(***************************************************************************)
(* The ARP table of one router: the second half of Layer2/layer2.c.        *)
(*                                                                         *)
(* Two threads send packets (the receiver forwards, the CLI pings), the    *)
(* receiver takes in replies and the wheel's thread expires entries, none  *)
(* of them under a lock.  A step is one walk or one change of a list: a    *)
(* lookup with the test of what it found, arp_table_entry_add, an append   *)
(* to the waiting packets, the loop that sends them, the end of is_sane,   *)
(* delete_arp_entry.  Between any two of them the other threads take       *)
(* theirs, so what one step saw may be freed, created or completed when    *)
(* the next uses it.  (Two such functions at once in one list, which can   *)
(* corrupt its pointers, are not modelled.)  The neighbours, which answer  *)
(* a request, late, or never, are the environment.  Entries never          *)
(* interact: one is found by its address.                                  *)
(***************************************************************************)
EXTENDS Integers, FiniteSets

CONSTANTS
    ArpIp,          \* the addresses that are resolved
    ArpMac,         \* the MAC addresses the neighbours answer with
    ArpNulMac,      \* those with a zero byte before the last byte that is not
    ArpThread,      \* the threads that send packets
    ArpReceiver,    \* the one of them that also takes in replies
    ArpExpTime,     \* ARP_ENTRY_EXP_TIME, in ticks
    ArpMaxPending,  \* bound: packets that wait for one address
    ArpMaxReplies   \* bound: replies under way for one address

ASSUME ArpAssumption ==
    /\ ArpNulMac \subseteq ArpMac
    /\ ArpReceiver \in ArpThread
    /\ ArpExpTime \in Nat \ {0}
    /\ ArpMaxPending \in Nat
    /\ ArpMaxReplies \in Nat

ArpOff == -1
ArpZero == "zero"       \* the MAC of an entry nobody has answered for

ASSUME ArpNames == ArpZero \notin ArpMac

VARIABLES
    arp_state,      \* "none", "sane" (incomplete, is_sane) or "full"
    arp_mac,        \* mac_addr: <<MAC, "whole">>, or "cut" at its zero byte
    arp_pending,    \* how many packets wait in arp_pending_list
    arp_timer,      \* ticks until exp_timer_wt_elem fires, or ArpOff
    arp_due,        \* the entries whose timer fires in this tick
    arp_orphan,     \* those of them whose callback has lost its argument
    arp_held,       \* what each thread has found and is about to use
    arp_late,       \* history: the entries that got a packet when those that
                    \* waited had been handed out
    arp_replies,    \* replies under way
    arp_sent,       \* the frames the last step sent, <<address, MAC, how many>>
    arp_quiet,      \* the environment has no more packets to send
    arp_dead        \* what killed the process, "no" while it runs

arpEntryVars == <<arp_state, arp_mac, arp_pending>>
arpTimerVars == <<arp_timer, arp_due, arp_orphan>>
arpVars == <<arpEntryVars, arpTimerVars, arp_held, arp_late, arp_replies,
             arp_sent, arp_quiet, arp_dead>>

ArpAddress == (ArpMac \X {"whole", "cut"}) \cup {<<ArpZero, "whole">>}

\* A thread in the middle of a packet or of a reply: for which address, on an
\* interface named by layer 3 or not, with which MAC of a reply, what it found
\* and where it is.  For a packet it has
\*   "looked"   looked the address up, in l2_forward_ip_packet,
\*   "missed"   not found it again, in create_arp_sane_entry,
\*   "append"   found it there, incomplete,
\*   "wait"     found it incomplete in l2_forward_ip_packet;
\* for a reply it has
\*   "send"     found the entry incomplete and got the list of what waits,
\*   "clear"    sent what waited.
ArpHolding == [thread : ArpThread, ip : ArpIp, oif : BOOLEAN,
               mac : ArpMac \cup {ArpZero},
               entry : {"absent", "present", "freed"},
               at : {"looked", "missed", "append", "wait", "send", "clear"}]

ArpIdle(t) == \A h \in arp_held : h.thread # t

ArpTypeOK ==
    /\ arp_state \in [ArpIp -> {"none", "sane", "full"}]
    /\ arp_mac \in [ArpIp -> ArpAddress]
    /\ arp_pending \in [ArpIp -> Nat]
    /\ arp_timer \in [ArpIp -> ArpOff .. ArpExpTime]
    /\ arp_due \subseteq ArpIp
    /\ arp_orphan \subseteq arp_due
    /\ arp_held \subseteq ArpHolding
    /\ arp_late \subseteq ArpIp
    /\ arp_replies \in [ArpIp -> 0 .. ArpMaxReplies]
    /\ arp_sent \subseteq ArpIp \X ArpAddress \X Nat
    /\ arp_quiet \in BOOLEAN
    /\ arp_dead \in {"no", "freed", "complete", "refused", "null", "callback"}

ArpRunning == arp_dead = "no"

\* init_arp_table
ArpInit ==
    /\ arp_state = [ip \in ArpIp |-> "none"]
    /\ arp_mac = [ip \in ArpIp |-> <<ArpZero, "whole">>]
    /\ arp_pending = [ip \in ArpIp |-> 0]
    /\ arp_timer = [ip \in ArpIp |-> ArpOff]
    /\ arp_due = {}
    /\ arp_orphan = {}
    /\ arp_held = {}
    /\ arp_late = {}
    /\ arp_replies = [ip \in ArpIp |-> 0]
    /\ arp_sent = {}
    /\ arp_quiet = FALSE
    /\ arp_dead = "no"

ArpCrash(why) ==
    /\ arp_dead' = why
    /\ UNCHANGED <<arpEntryVars, arpTimerVars, arp_held, arp_late, arp_replies,
                   arp_sent, arp_quiet>>

-----------------------------------------------------------------------------
\* The entry's address becomes st, with mac and n packets waiting.
ArpSetEntry(ip, st, mac, n) ==
    /\ arp_state' = [arp_state EXCEPT ![ip] = st]
    /\ arp_mac' = [arp_mac EXCEPT ![ip] = mac]
    /\ arp_pending' = [arp_pending EXCEPT ![ip] = n]

\* Mutant: the refresh of a complete entry's timer cancels it.
ArpArmOnce(ip) ==
    /\ arp_timer' = [arp_timer EXCEPT
                       ![ip] = IF arp_state[ip] = "full" THEN ArpOff ELSE ArpExpTime]
    /\ UNCHANGED <<arp_due, arp_orphan>>

\* arp_entry_create_expiration_timer and arp_entry_refresh_expiration_timer:
\* a timer that is due in this tick fires all the same.
ArpArm(ip) ==
    /\ arp_timer' = [arp_timer EXCEPT ![ip] = ArpExpTime]
    /\ UNCHANGED <<arp_due, arp_orphan>>

\* The entry found for ip has been freed: whoever holds it has a dangling
\* pointer.
ArpFreed(ip) ==
    {IF h.ip = ip /\ h.entry = "present" THEN [h EXCEPT !.entry = "freed"] ELSE h :
        h \in arp_held}

\* send_arp_broadcast_request: the neighbour may answer.
ArpAsk(ip) ==
    arp_replies' = [arp_replies EXCEPT
                      ![ip] = IF @ < ArpMaxReplies THEN @ + 1 ELSE @]

\* Thread of h goes on to another point of its way, with what it has found.
ArpGoesOn(h, where, found) ==
    arp_held' = (arp_held \ {h}) \cup {[h EXCEPT !.at = where, !.entry = found]}

\* The packets that waited for ip have been sent, is_sane is still set.
ArpDrained(ip) ==
    \E h \in arp_held : h.ip = ip /\ h.at = "clear" /\ h.entry = "present"

\* Mutant: the old timer is taken for due though it is not.
ArpTableEntryAddDue(ip, st, mac, n) ==
    /\ arp_state[ip] # "sane"
    /\ ArpSetEntry(ip, st, mac, n)
    /\ arp_timer' = [arp_timer EXCEPT ![ip] = ArpExpTime]
    /\ arp_orphan' = arp_orphan \cup {ip}
    /\ arp_late' = arp_late \ {ip}
    /\ UNCHANGED arp_due

\* arp_table_entry_add, case 0, nothing known of the address, and case 2, a
\* complete entry, which is freed with what is left at it and has the new one
\* take its place; if the old timer is due its callback will run without its
\* argument.  The caller has ArpFreed(ip) for arp_held.
ArpTableEntryAdd(ip, st, mac, n) ==
    /\ arp_state[ip] # "sane"
    /\ ArpSetEntry(ip, st, mac, n)
    /\ arp_timer' = [arp_timer EXCEPT ![ip] = ArpExpTime]
    /\ arp_orphan' = arp_orphan \cup (arp_due \cap {ip})
    /\ arp_late' = arp_late \ {ip}
    /\ UNCHANGED arp_due

\* add_arp_pending_entry, on the entry that a test of is_sane has found.
AddArpPendingEntry(ip) ==
    /\ arp_pending' = [arp_pending EXCEPT ![ip] = @ + 1]
    /\ arp_late' = IF arp_state[ip] = "full" \/ ArpDrained(ip)
                     THEN arp_late \cup {ip} ELSE arp_late
    /\ UNCHANGED <<arp_state, arp_mac>>

-----------------------------------------------------------------------------
\* l2_forward_ip_packet, up to the lookup.  (A packet to the router itself,
\* or to no subnet of it, does not get here.)
ArpLookup(t, ip, oif) ==
    /\ ArpRunning
    /\ ~arp_quiet
    /\ ArpIdle(t)
    /\ arp_pending[ip] + Cardinality(arp_held) < ArpMaxPending
    /\ arp_held' = arp_held \cup
         {[thread |-> t, ip |-> ip, oif |-> oif, mac |-> ArpZero,
           entry |-> IF arp_state[ip] = "none" THEN "absent" ELSE "present",
           at |-> "looked"]}
    /\ arp_sent' = {}
    /\ UNCHANGED <<arpEntryVars, arpTimerVars, arp_late, arp_replies, arp_quiet, arp_dead>>

\* The lookup found nothing, and create_arp_sane_entry looks once more: there
\* is still no entry, or there is an incomplete one now, or a complete one.
ArpForwardAbsent(h) ==
    /\ ArpRunning
    /\ h.at = "looked" /\ h.entry = "absent"
    /\ IF arp_state[h.ip] = "full" THEN ArpCrash("complete")
       ELSE /\ IF arp_state[h.ip] = "none" THEN ArpGoesOn(h, "missed", "absent")
                                           ELSE ArpGoesOn(h, "append", "present")
            /\ arp_sent' = {}
            /\ UNCHANGED <<arpEntryVars, arpTimerVars, arp_late, arp_replies,
                           arp_quiet, arp_dead>>

\* Mutant: create_arp_sane_entry does not queue the packet for a new entry.
CreateArpSaneEntryEmpty(ip) == ArpTableEntryAdd(ip, "sane", <<ArpZero, "whole">>, 0)

\* create_arp_sane_entry: the new entry takes the packet.
CreateArpSaneEntry(ip) == ArpTableEntryAdd(ip, "sane", <<ArpZero, "whole">>, 1)

\* create_arp_sane_entry adds the entry.  If another thread has added an
\* incomplete one meanwhile, arp_table_entry_add is in case 3, returns FALSE
\* and the assert fails.  Direct delivery goes on with its old lookup, NULL.
ArpForwardMissed(h) ==
    /\ ArpRunning
    /\ h.at = "missed"
    /\ IF arp_state[h.ip] = "sane" THEN ArpCrash("refused")
       ELSE IF ~h.oif THEN ArpCrash("null")     \* add_arp_pending_entry(NULL, ..)
       ELSE /\ CreateArpSaneEntry(h.ip)
            /\ ArpAsk(h.ip)
            /\ arp_held' = ArpFreed(h.ip) \ {h}
            /\ arp_sent' = {}
            /\ UNCHANGED <<arp_quiet, arp_dead>>

\* create_arp_sane_entry appends to the entry that it found, complete by now
\* or not.
ArpForwardAppend(h) ==
    /\ ArpRunning
    /\ h.at = "append" /\ h.entry = "present"
    /\ IF ~h.oif THEN ArpCrash("null")
       ELSE /\ AddArpPendingEntry(h.ip)
            /\ ArpArm(h.ip)
            /\ ArpAsk(h.ip)
            /\ arp_held' = arp_held \ {h}
            /\ arp_sent' = {}
            /\ UNCHANGED <<arp_quiet, arp_dead>>

\* l2_frame_prepare: with an interface named by layer 3 the frame goes out
\* even if the entry is incomplete.
ArpForwardPresent(h) ==
    /\ ArpRunning
    /\ h.at = "looked" /\ h.entry = "present"
    /\ arp_state[h.ip] = "full" \/ h.oif
    /\ ArpArm(h.ip)
    /\ arp_held' = arp_held \ {h}
    /\ arp_sent' = {<<h.ip, arp_mac[h.ip], 1>>}
    /\ UNCHANGED <<arpEntryVars, arp_late, arp_replies, arp_quiet, arp_dead>>

\* Direct host delivery to an address that is being resolved: is_sane is set.
ArpForwardTest(h) ==
    /\ ArpRunning
    /\ h.at = "looked" /\ h.entry = "present"
    /\ arp_state[h.ip] = "sane" /\ ~h.oif
    /\ ArpGoesOn(h, "wait", "present")
    /\ arp_sent' = {}
    /\ UNCHANGED <<arpEntryVars, arpTimerVars, arp_late, arp_replies, arp_quiet, arp_dead>>

\* Direct host delivery appends the packet, to an entry complete by now or not.
ArpForwardWait(h) ==
    /\ ArpRunning
    /\ h.at = "wait" /\ h.entry = "present"
    /\ AddArpPendingEntry(h.ip)
    /\ ArpAsk(h.ip)
    /\ arp_held' = arp_held \ {h}
    /\ arp_sent' = {}
    /\ UNCHANGED <<arpTimerVars, arp_quiet, arp_dead>>

\* The entry was freed since it was found, for a packet or for a reply.
ArpUseFreed(h) ==
    /\ ArpRunning
    /\ h.entry = "freed"
    /\ ArpCrash("freed")

\* run node <node> resolve-arp <ip>
ArpResolve(ip) ==
    /\ ArpRunning /\ ~arp_quiet
    /\ ArpAsk(ip)
    /\ arp_sent' = {}
    /\ UNCHANGED <<arpEntryVars, arpTimerVars, arp_held, arp_late, arp_quiet, arp_dead>>

-----------------------------------------------------------------------------
\* strncpy of a MAC stops at its first zero byte.
ArpCopied(m) == <<m, IF m \in ArpNulMac THEN "cut" ELSE "whole">>

\* arp_table_entry_add, cases 0 and 2: the reply is the new entry.
ArpReplyAdd(ip, m) ==
    /\ ArpTableEntryAdd(ip, "full", <<m, "whole">>, 0)
    /\ arp_held' = ArpFreed(ip)

\* arp_table_entry_add, case 4: an incomplete entry gets the address, and the
\* list of what waits at it goes back to the caller.
ArpReplyCopy(ip, m) ==
    /\ arp_state[ip] = "sane"
    /\ ArpSetEntry(ip, "sane", ArpCopied(m), arp_pending[ip])
    /\ ArpArm(ip)
    /\ arp_held' = arp_held \cup
         {[thread |-> ArpReceiver, ip |-> ip, oif |-> FALSE, mac |-> m,
           entry |-> "present", at |-> "send"]}
    /\ UNCHANGED arp_late

\* arp_table_update_from_arp_reply, up to the sending.
ArpReply(ip, m) ==
    /\ ArpRunning
    /\ ArpIdle(ArpReceiver)
    /\ arp_replies[ip] > 0
    /\ arp_replies' = [arp_replies EXCEPT ![ip] = @ - 1]
    /\ ArpReplyAdd(ip, m) \/ ArpReplyCopy(ip, m)
    /\ arp_sent' = {}
    /\ UNCHANGED <<arp_quiet, arp_dead>>

\* Mutant: the waiting packets are sent from the entry, not from the reply.
ArpReplySendCut(h) ==
    /\ ArpRunning
    /\ h.at = "send" /\ h.entry = "present"
    /\ arp_pending' = [arp_pending EXCEPT ![h.ip] = 0]
    /\ arp_sent' = {<<h.ip, arp_mac[h.ip], arp_pending[h.ip]>>}
    /\ ArpGoesOn(h, "clear", "present")
    /\ UNCHANGED <<arp_state, arp_mac, arpTimerVars, arp_late, arp_replies,
                   arp_quiet, arp_dead>>

\* What waits is sent with the address as it came in the reply.
ArpReplySend(h) ==
    /\ ArpRunning
    /\ h.at = "send" /\ h.entry = "present"
    /\ arp_pending' = [arp_pending EXCEPT ![h.ip] = 0]
    /\ arp_sent' = {<<h.ip, <<h.mac, "whole">>, arp_pending[h.ip]>>}
    /\ ArpGoesOn(h, "clear", "present")
    /\ UNCHANGED <<arp_state, arp_mac, arpTimerVars, arp_late, arp_replies,
                   arp_quiet, arp_dead>>

\* is_sane becomes FALSE: the entry is complete.
ArpReplyComplete(h) ==
    /\ ArpRunning
    /\ h.at = "clear" /\ h.entry = "present"
    /\ arp_state' = [arp_state EXCEPT ![h.ip] = "full"]
    /\ arp_held' = arp_held \ {h}
    /\ arp_sent' = {}
    /\ UNCHANGED <<arp_mac, arp_pending, arpTimerVars, arp_late, arp_replies,
                   arp_quiet, arp_dead>>

\* The request or the reply was lost.
ArpLose(ip) ==
    /\ ArpRunning
    /\ arp_replies[ip] > 0
    /\ arp_replies' = [arp_replies EXCEPT ![ip] = @ - 1]
    /\ arp_sent' = {}
    /\ UNCHANGED <<arpEntryVars, arpTimerVars, arp_held, arp_late, arp_quiet, arp_dead>>

\* arp_entry_timer_delete_callback, on the wheel's thread; delete_arp_entry
\* drops what still waits.
ArpExpire(ip) ==
    /\ ArpRunning
    /\ ip \in arp_due
    /\ IF ip \in arp_orphan THEN ArpCrash("callback")
       ELSE /\ ArpSetEntry(ip, "none", <<ArpZero, "whole">>, 0)
            /\ arp_timer' = [arp_timer EXCEPT ![ip] = ArpOff]
            /\ arp_due' = arp_due \ {ip}
            /\ arp_held' = ArpFreed(ip)
            /\ arp_late' = arp_late \ {ip}
            /\ arp_sent' = {}
            /\ UNCHANGED <<arp_orphan, arp_replies, arp_quiet, arp_dead>>

\* The wheel's next tick; see TimerService.
ArpTick ==
    /\ ArpRunning
    /\ arp_due = {}
    /\ \E ip \in ArpIp : arp_timer[ip] # ArpOff
    /\ arp_timer' = [ip \in ArpIp |-> IF arp_timer[ip] = ArpOff THEN ArpOff
                                                               ELSE arp_timer[ip] - 1]
    /\ arp_due' = {ip \in ArpIp : arp_timer'[ip] = 0}
    /\ arp_sent' = {}
    /\ UNCHANGED <<arpEntryVars, arp_orphan, arp_held, arp_late, arp_replies,
                   arp_quiet, arp_dead>>

\* The environment falls silent: no packet, no command from now on.
ArpSilence ==
    /\ ArpRunning /\ ~arp_quiet
    /\ arp_quiet' = TRUE
    /\ arp_sent' = {}
    /\ UNCHANGED <<arpEntryVars, arpTimerVars, arp_held, arp_late, arp_replies, arp_dead>>

\* A thread goes on with the packet or the reply that it has begun.
ArpForward(t) ==
    \E h \in arp_held :
        /\ h.thread = t
        /\ \/ ArpForwardAbsent(h) \/ ArpForwardMissed(h) \/ ArpForwardAppend(h)
           \/ ArpForwardPresent(h) \/ ArpForwardTest(h) \/ ArpForwardWait(h)
           \/ ArpReplySend(h) \/ ArpReplyComplete(h) \/ ArpUseFreed(h)

-----------------------------------------------------------------------------
ArpNext ==
    \/ \E t \in ArpThread, ip \in ArpIp, oif \in BOOLEAN : ArpLookup(t, ip, oif)
    \/ \E h \in arp_held : ArpForwardAbsent(h)
    \/ \E h \in arp_held : ArpForwardMissed(h)
    \/ \E h \in arp_held : ArpForwardAppend(h)
    \/ \E h \in arp_held : ArpForwardPresent(h)
    \/ \E h \in arp_held : ArpForwardTest(h)
    \/ \E h \in arp_held : ArpForwardWait(h)
    \/ \E h \in arp_held : ArpReplySend(h)
    \/ \E h \in arp_held : ArpReplyComplete(h)
    \/ \E h \in arp_held : ArpUseFreed(h)
    \/ \E ip \in ArpIp : ArpResolve(ip)
    \/ \E ip \in ArpIp, m \in ArpMac : ArpReply(ip, m)
    \/ \E ip \in ArpIp : ArpLose(ip)
    \/ \E ip \in ArpIp : ArpExpire(ip)
    \/ ArpTick
    \/ ArpSilence

ArpSafety == ArpInit /\ [][ArpNext]_arpVars

\* The wheel's thread runs for ever, and a thread finishes what it has begun.
ArpFairness ==
    /\ WF_arpVars(ArpTick)
    /\ \A ip \in ArpIp : WF_arpVars(ArpExpire(ip))
    /\ \A t \in ArpThread : WF_arpVars(ArpForward(t))

ArpSpec == ArpSafety /\ ArpFairness

-----------------------------------------------------------------------------
(* What makes the table correct, up to the death of the process.           *)

\* Packets wait exactly where a reply will still hand them out: at an
\* incomplete entry whose packets have not been sent yet.  The exceptions are
\* those that a thread appended too late, after a test of is_sane that was true
\* when it was made: they are left at an entry that is complete, or about to be.
ArpWaits ==
    \A ip \in ArpIp :
        /\ (arp_pending[ip] > 0) <=> \/ arp_state[ip] = "sane" /\ ~ArpDrained(ip)
                                     \/ ip \in arp_late
        /\ ip \in arp_late => arp_state[ip] = "full" \/ ArpDrained(ip)

\* Every entry has its expiry timer running or its expiry under way, and no
\* timer runs for an entry that was freed: none stays for ever, and no timer
\* points at freed memory (orphaned callbacks apart, which crash).
ArpTimed ==
    \A ip \in ArpIp :
        /\ (arp_timer[ip] # ArpOff) <=> (arp_state[ip] # "none")
        /\ (arp_timer[ip] = 0) => (ip \in arp_due)

\* Packets stop waiting in three ways only: all of them leave at once with the
\* address of the reply as it came, whole, even where the table keeps it cut
\* short; or the entry expires and they are dropped with it; or a new entry
\* replaces a complete one, and those that came too late are dropped.
ArpAnswered ==
    [][\A ip \in ArpIp : arp_pending'[ip] < arp_pending[ip] =>
          \/ /\ arp_pending'[ip] = 0 /\ ip \notin arp_late
             /\ \E m \in ArpMac : <<ip, <<m, "whole">>, arp_pending[ip]>> \in arp_sent'
          \/ arp_state'[ip] = "none" /\ ip \in arp_due
          \/ arp_state[ip] = "full" /\ ip \in arp_late \ arp_late']_arpVars

\* What the assertions of create_arp_sane_entry say: no entry appears between
\* the lookup of l2_forward_ip_packet and the new entry's place in the table.
ArpNoOtherEntry == arp_dead \notin {"complete", "refused"}

\* Once nobody sends any more, the table empties, unless the process is dead.
ArpQuietEmpties ==
    arp_quiet ~> (~ArpRunning \/ \A ip \in ArpIp : arp_state[ip] = "none")

ArpTimers == INSTANCE TimerService WITH
    Timer <- ArpIp, MaxInterval <- ArpExpTime, due <- arp_timer, hot <- arp_due

\* The table uses the wheel within the contract of TimerService.
ArpUsesTimers == ArpTimers!Safety

=============================================================================
