----------------------------- MODULE PortTable ------------------------------
(***************************************************************************)
(* Which process a packet belongs to: the receive thread's copy of the     *)
(* system's table of ports and processes (flowbrake-windows, ip_helper.rs, *)
(* and its use in engine.rs, recv_loop), against sockets that open, close  *)
(* and pass to other processes, and rules that change meanwhile.           *)
(*                                                                         *)
(* The system's table is external.  It is read in two calls, one for its   *)
(* size; when it has grown in between, or a call fails, the copy is empty. *)
(* Time is in ticks, Refresh of which are PORT_MAP_REFRESH; what passes    *)
(* between a reading of the table and the look at the clock after it is    *)
(* not counted.  Parsing, in module IpPacket, reads nothing that others    *)
(* change, and is one step with the capture.                               *)
(***************************************************************************)
EXTENDS IpPacket, FiniteSets

CONSTANTS
  Pid,
  NoPid,      \* no process
  Port,       \* local ports of the packets that are captured
  Family,     \* whether there are IPv6 packets, and others
  Refresh,    \* age at which the copy is read again
  MayFail,    \* whether the table may fail to be read
  Watched     \* any key, for which the history is kept

\* What the copy is searched by, and the key of a packet: its bytes, ipv6, outbound.
Key == [protocol : {Tcp, Udp}, port : Port, ipv6 : Family]
KeyOf(packet) ==
  LET parsed == Parse(packet.bytes, packet.ipv6)
  IN  [protocol |-> parsed.protocol, port |-> LocalPort(parsed, packet.outbound), ipv6 |-> packet.ipv6]

ASSUME PortTableAssumption ==
  NoPid \notin Pid /\ Refresh \in Nat \ {0} /\ IsFiniteSet(Key) /\ Watched \in Key

VARIABLES
  owners,     \* the system: the processes that have a socket at each key
  ruled,      \* whether a process has a Block, loss or delay rule
  change,     \* the command that has moved rule_revision, but not yet changed the rules: "update"
              \* has the lock of the rules, "other" has not; or "none"
  revised,    \* whether rule_revision has moved since the thread's copy of it
  newer,      \* whether it has since current_revision was loaded, until that is stored
  table,      \* port_pid: the process found at each key, or NoPid
  unresolved, \* unresolved_ports
  age,        \* time since last_map_refresh, up to Refresh
  at,         \* "start", "capture", "ready", "refresh", "store", "lookup"
  key,        \* the key of the packet in hand, or Unparsed
  \* History
  since,      \* how long ago each process, or none, had that key; up to Refresh
  unread,     \* the keys whose table could not be read the last time
  reads,      \* tables read for a miss since the last refresh
  steady,     \* the process that alone has had it since rule_revision moved last, or NoPid
  due         \* the same, when the packet in hand was captured

osVars == <<owners, since>>
readVars == <<table, unread>>
copyVars == <<readVars, unresolved, age, revised, reads>>
ruleVars == <<ruled, change>>
vars == <<osVars, copyVars, ruleVars, newer, at, key, steady, due>>

Anyone == Pid \cup {NoPid}
Nobody == [k \in Key |-> NoPid]

\* read_tcp_table, parse_owner_pid_rows: the last row of a port stays, a map is lost as a whole
Mapping(k) == <<k.protocol, k.ipv6>>
Readable == {lost \in SUBSET {Mapping(k) : k \in Key} : MayFail \/ lost = {}}
Copies(lost) ==
  {t \in [Key -> Anyone] :
     \A k \in Key : IF owners[k] = {} \/ Mapping(k) \in lost THEN t[k] = NoPid ELSE t[k] \in owners[k]}

\* PortPidMap::refresh
ReadTable ==
  \E lost \in Readable :
    /\ table' \in Copies(lost)
    /\ unread' = {k \in Key : Mapping(k) \in lost}

\* Among the processes at a key is p, or there is none.
Has(p, ps) == p \in ps \/ (p = NoPid /\ ps = {})

Init ==
  /\ owners \in [Key -> SUBSET Pid]
  /\ ruled \in BOOLEAN /\ change = "none" /\ revised = FALSE /\ newer = FALSE
  /\ table = Nobody /\ unresolved = {} /\ age = 0
  /\ at = "start" /\ key = Unparsed
  /\ since = [p \in Anyone |-> IF Has(p, owners[Watched]) THEN 0 ELSE Refresh]
  /\ unread = {} /\ reads = 0 /\ steady = NoPid /\ due = NoPid

-----------------------------------------------------------------------------
(* The receive thread. *)

\* The thread starts: the table is read, then the revision of the rules.
StartRead ==
  /\ at = "start" /\ ReadTable /\ at' = "capture"
  /\ age' = 0
  /\ UNCHANGED <<osVars, unresolved, revised, reads, ruleVars, newer, key, steady, due>>
StartRevision ==
  /\ at = "capture" /\ at' = "ready" /\ revised' = FALSE
  /\ UNCHANGED <<osVars, readVars, unresolved, age, reads, ruleVars, newer, key, steady, due>>

\* Mutant: the age is not looked at.
StaleRevision == revised
Stale == age >= Refresh \/ revised

\* What becomes of a packet: one that cannot be parsed (or that the global rule blocks, which is
\* the same here) is done with, of another the process is looked up.
\* Mutant: without the early return for a packet that cannot be parsed.
OnwardAny(k) == "lookup"
Onward(k) == IF k = Unparsed THEN "ready" ELSE "lookup"

\* A packet with some key is captured, or one without, and the revision loaded: the copy is
\* renewed if it is old or the rules have changed.
Captured(k) ==
  /\ at = "ready" /\ key' = k
  /\ at' = IF Stale THEN "refresh" ELSE Onward(k)
  /\ due' = IF k = Watched THEN steady ELSE NoPid
  /\ UNCHANGED <<osVars, copyVars, ruleVars, newer, steady>>

\* The copy is renewed; then the revision that was loaded before is kept.
Reread ==
  /\ at = "refresh" /\ at' = "store"
  /\ ReadTable /\ age' = 0
  /\ UNCHANGED <<osVars, unresolved, revised, reads, ruleVars, newer, key, steady, due>>

\* Mutant: the revision is loaded again for it.
StoredAnew ==
  /\ at = "store" /\ at' = Onward(key)
  /\ revised' = FALSE /\ newer' = FALSE /\ unresolved' = {} /\ reads' = 0
  /\ UNCHANGED <<osVars, readVars, age, ruleVars, key, steady, due>>
Stored ==
  /\ at = "store" /\ at' = Onward(key)
  /\ revised' = newer /\ newer' = FALSE /\ unresolved' = {} /\ reads' = 0
  /\ UNCHANGED <<osVars, readVars, age, ruleVars, key, steady, due>>

\* Mutant: a miss is not remembered.
Retried == ruled
Retry == ruled /\ key \notin unresolved

\* pid_for, of which the answer is table'[key]; a miss needs the lock of the rules and reads the
\* table again, once between two refreshes, if the rules need it.
Lookup ==
  /\ at = "lookup" /\ at' = "ready"
  /\ \/ table[key] # NoPid /\ UNCHANGED copyVars
     \/ /\ table[key] = NoPid /\ change # "update"
        /\ \/ ~Retry /\ UNCHANGED copyVars
           \/ /\ Retry /\ ReadTable
              /\ unresolved' = unresolved \cup {key} /\ reads' = reads + 1
              /\ UNCHANGED <<age, revised>>
  /\ key' = Unparsed /\ due' = NoPid
  /\ UNCHANGED <<osVars, ruleVars, newer, steady>>

-----------------------------------------------------------------------------
(* The others. *)

\* The process that alone has the watched key.
Alone == {p \in Pid : owners[Watched] = {p}}

\* UpdateRule, for Block, loss or delay; SetGlobalRule, for Block or delay; ClearRules: the
\* revision moves.  While the thread has a table, but no revision yet, nobody sees it move.
Revise(by) ==
  /\ change = "none" /\ change' = by
  /\ revised' = TRUE /\ newer' = (at \in {"refresh", "store"})
  /\ steady' = IF at = "capture" THEN steady
               ELSE IF Alone = {} THEN NoPid ELSE CHOOSE p \in Alone : TRUE
  /\ UNCHANGED <<osVars, readVars, unresolved, age, reads, ruled, at, key, due>>

\* Then the rules change: those of a process in any way; ClearRules leaves none, and
\* SetGlobalRule all.
SetRules(r) ==
  /\ change # "none" /\ change' = "none"
  /\ change = "other" => r \in {FALSE, ruled}
  /\ ruled' = r
  /\ UNCHANGED <<osVars, copyVars, newer, at, key, steady, due>>

\* A socket opens or closes.
Change(k, ps) ==
  /\ ps # owners[k]
  /\ owners' = [owners EXCEPT ![k] = ps]
  /\ IF k = Watched
        THEN since' = [p \in Anyone |-> IF Has(p, ps) THEN 0 ELSE since[p]] /\ steady' = NoPid /\ due' = NoPid
        ELSE UNCHANGED <<since, steady, due>>
  /\ UNCHANGED <<copyVars, ruleVars, newer, at, key>>

Older(n) == IF n < Refresh THEN n + 1 ELSE Refresh

Tick ==
  /\ age' = Older(age)
  /\ since' = [p \in Anyone |-> IF Has(p, owners[Watched]) THEN 0 ELSE Older(since[p])]
  /\ UNCHANGED <<owners, readVars, unresolved, revised, reads, ruleVars, newer, at, key, steady, due>>

Next ==
  \/ StartRead \/ StartRevision \/ Reread \/ Stored \/ Lookup \/ Tick
  \/ \E k \in Key \cup {Unparsed} : Captured(k)
  \/ \E by \in {"update", "other"} : Revise(by)
  \/ \E r \in BOOLEAN : SetRules(r)
  \/ \E k \in Key : \E p \in Pid : Change(k, owners[k] \cup {p}) \/ Change(k, owners[k] \ {p})

Spec == Init /\ [][Next]_vars

-----------------------------------------------------------------------------
(* Properties. *)

TypeOK ==
  /\ owners \in [Key -> SUBSET Pid] /\ since \in [Anyone -> 0 .. Refresh]
  /\ ruled \in BOOLEAN /\ change \in {"none", "update", "other"}
  /\ revised \in BOOLEAN /\ newer \in BOOLEAN
  /\ table \in [Key -> Anyone] /\ steady \in Anyone /\ due \in Anyone
  /\ unresolved \in SUBSET Key /\ unread \in SUBSET Key
  /\ age \in 0 .. Refresh /\ reads \in Nat
  /\ at \in {"start", "capture", "ready", "refresh", "store", "lookup"}
  /\ key \in Key \cup {Unparsed} /\ (at = "lookup" => key \in Key)

\* A packet is attributed to a process, or to none, only if that process, or none, had its port
\* less than a refresh before the packet was captured, or has it when the copy is renewed for
\* it, unless the table could not be read: neither a port that changed hands, nor a remembered
\* miss (unresolved_ports), nor a change of the rules while the thread starts (engine.rs:659)
\* misleads for longer.
Fresh ==
  [][\/ at = "ready" /\ at' = "lookup"
     \/ at = "refresh" /\ at' = "store"
     => (key' = Watched => Watched \in unread' \/ since'[table'[Watched]] < Refresh)]_vars

\* A packet that is captured after a change of the rules has moved rule_revision is attributed
\* to the process that alone has had its port since then, however old the copy, whatever was
\* remembered of misses, and wherever another change falls between the loading of the revision
\* and its storing; unless the table could not be read.  Not so when the revision moved between
\* the first table (engine.rs:659) and the first revision (661): there it is Fresh that bounds
\* how long the copy misleads, as for a port opened between the revision's move and the rules'.
CoveredAfterChange ==
  [][at = "lookup" /\ at' = "ready" /\ due # NoPid => table'[key] = due \/ key \in unread']_vars

\* Between two refreshes the table is read again for no more misses than there are ports:
\* "Cache misses to bound table queries" (engine.rs:738).
RetriesBounded == reads <= Cardinality(Key)
=============================================================================
