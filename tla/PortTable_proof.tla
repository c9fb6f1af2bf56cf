--------------------------- MODULE PortTable_proof ---------------------------
(***************************************************************************)
(* What a packet is attributed to, for any processes, ports and refresh    *)
(* interval: never to what has been wrong for longer than a refresh        *)
(* (Fresh); right at once after a change of the rules, unless that falls   *)
(* into the thread's start (CoveredAfterChange); and how often the table   *)
(* is read (RetriesBounded).                                               *)
(*                                                                         *)
(* Behind it, what the bytes are read as that this rests on: the parser of *)
(* packets, for any bytes; the table of TCP connections, for any           *)
(* connections over IPv4 (DisconnectRight); and packets put together from  *)
(* any headers (ParsedRight).                                              *)
(***************************************************************************)
EXTENDS Wire, SequenceTheorems, FiniteSetTheorems, WellFoundedInduction, TLAPS

\* Who has the watched key now had it no time ago.
Present == \A p \in Anyone : Has(p, owners[Watched]) => since[p] = 0

\* The copy is not older than its age.
Recent == at = "start" \/ Watched \in unread \/ since[table[Watched]] <= age

\* The copy says of the watched key that it is p's, if it could be read.
InCopy(p) == table[Watched] = p \/ Watched \in unread

\* A process that has had the key since the revision moved is in the copy, or the copy is to be
\* read, or the revision will be seen to have moved.
Held ==
  steady # NoPid =>
    /\ owners[Watched] = {steady}
    /\ \/ at \in {"start", "refresh"}
       \/ at \in {"ready", "lookup"} /\ revised
       \/ at = "store" /\ newer
       \/ InCopy(steady)

\* While its packet is in hand, it is in the copy, or the copy is to be read.
Renewed ==
  due # NoPid =>
    /\ at \in {"refresh", "store", "lookup"} /\ key = Watched /\ owners[Watched] = {due}
    /\ at = "refresh" \/ InCopy(due)

\* The tables read for a miss are those of the ports that are remembered.
Counted == reads = Cardinality(unresolved)

IInv == TypeOK /\ Present /\ Recent /\ Held /\ Renewed /\ Counted

\* What a read of the table puts into the copy.
LEMMA ReadFresh ==
  ASSUME TypeOK, Present, ReadTable
  PROVE  /\ table' \in [Key -> Anyone] /\ unread' \in SUBSET Key
         /\ Watched \in unread' \/ Has(table'[Watched], owners[Watched])
         /\ Watched \in unread' \/ since[table'[Watched]] = 0
<1>1. PICK lost \in Readable : table' \in Copies(lost) /\ unread' = {k \in Key : Mapping(k) \in lost}
  BY DEF ReadTable
<1>2. table' \in [Key -> Anyone] /\ unread' \in SUBSET Key
  BY <1>1 DEF Copies
<1>3. Watched \in Key
  BY PortTableAssumption
<1>4. IF owners[Watched] = {} \/ Mapping(Watched) \in lost
        THEN table'[Watched] = NoPid ELSE table'[Watched] \in owners[Watched]
  BY <1>1, <1>3 DEF Copies
<1>5. Watched \in unread' \/ Has(table'[Watched], owners[Watched])
  BY <1>1, <1>3, <1>4 DEF Has
<1>6. table'[Watched] \in Anyone
  BY <1>2, <1>3
<1> QED
  BY <1>2, <1>5, <1>6 DEF Present

\* A read puts the process that alone has the key into the copy.
LEMMA ReadFinds ==
  ASSUME TypeOK, Present, ReadTable, NEW p \in Pid, owners[Watched] = {p}
  PROVE  table'[Watched] = p \/ Watched \in unread'
BY ReadFresh, PortTableAssumption DEF Has

LEMMA Unkeyed == Unparsed \notin Key
<1> SUFFICES ASSUME Unparsed \in Key PROVE FALSE
  OBVIOUS
<1>1. Unparsed.protocol \in {Tcp, Udp}
  BY DEF Key
<1>2. Unparsed.protocol = 0
  BY DEF Unparsed
<1> QED
  BY <1>1, <1>2 DEF Tcp, Udp

LEMMA InitInv == Init => IInv
<1> SUFFICES ASSUME Init PROVE IInv
  OBVIOUS
<1>1. TypeOK
  <2>1. since \in [Anyone -> 0 .. Refresh] /\ age \in 0 .. Refresh
    BY PortTableAssumption DEF Init
  <2>2. table \in [Key -> Anyone] /\ NoPid \in Anyone
    BY DEF Init, Nobody, Anyone
  <2> QED
    BY <2>1, <2>2 DEF Init, TypeOK
<1>2. Present /\ Recent /\ Held /\ Renewed
  BY DEF Init, Present, Recent, Held, Renewed
<1>3. Counted
  BY FS_EmptySet DEF Init, Counted
<1> QED
  BY <1>1, <1>2, <1>3 DEF IInv

LEMMA StartReadKeeps == IInv /\ StartRead => IInv'
<1> SUFFICES ASSUME IInv, StartRead PROVE IInv'
  OBVIOUS
<1> USE DEF StartRead, osVars, ruleVars
<1>1. TypeOK /\ Present /\ Held /\ Renewed /\ Counted
  BY DEF IInv
<1>2. /\ table' \in [Key -> Anyone] /\ unread' \in SUBSET Key
      /\ Watched \in unread' \/ since[table'[Watched]] = 0
  BY <1>1, ReadFresh
<1>3. TypeOK'
  BY <1>1, <1>2, PortTableAssumption DEF TypeOK
<1>4. Present' /\ Recent'
  BY <1>1, <1>2 DEF Present, Recent
<1>5. Held'
  <2>1. steady # NoPid => steady \in Pid /\ owners[Watched] = {steady}
    BY <1>1 DEF Held, TypeOK, Anyone
  <2>2. steady # NoPid => table'[Watched] = steady \/ Watched \in unread'
    BY <1>1, <2>1, ReadFinds
  <2> QED
    BY <2>1, <2>2 DEF Held, InCopy
<1>6. Renewed' /\ Counted'
  BY <1>1 DEF Renewed, Counted
<1> QED
  BY <1>3, <1>4, <1>5, <1>6 DEF IInv

LEMMA StartRevisionKeeps == IInv /\ StartRevision => IInv'
<1> SUFFICES ASSUME IInv, StartRevision PROVE IInv'
  OBVIOUS
<1> USE DEF StartRevision, osVars, readVars, ruleVars
<1>1. TypeOK'
  BY DEF IInv, TypeOK
<1>2. Present' /\ Recent' /\ Held' /\ Renewed' /\ Counted'
  BY DEF IInv, Present, Recent, Held, Renewed, InCopy, Counted
<1> QED
  BY <1>1, <1>2 DEF IInv

LEMMA ParsedAt ==
  ASSUME NEW k \in Key \cup {Unparsed}
  PROVE  /\ Onward(k) \in {"ready", "lookup"}
         /\ Onward(k) = "lookup" <=> k \in Key
BY Unkeyed DEF Onward

\* A packet whose key is looked up at once finds a copy younger than a refresh, and no change of
\* the rules is unseen.
LEMMA CapturedFresh ==
  ASSUME IInv, NEW k \in Key \cup {Unparsed}, Captured(k), at' # "refresh"
  PROVE  /\ age < Refresh /\ ~revised
         /\ Watched \in unread \/ since[table[Watched]] < Refresh
         /\ steady # NoPid => InCopy(steady)
<1>1. TypeOK /\ Recent /\ Held /\ at = "ready" /\ ~Stale
  BY DEF IInv, Captured
<1>2. age < Refresh /\ ~revised /\ age \in 0 .. Refresh
  BY <1>1, PortTableAssumption DEF Stale, TypeOK
<1>3. steady # NoPid => InCopy(steady)
  BY <1>1, <1>2 DEF Held
<1>4. table[Watched] \in Anyone
  BY <1>1, PortTableAssumption DEF TypeOK
<1>5. since[table[Watched]] \in 0 .. Refresh
  BY <1>1, <1>4 DEF TypeOK
<1>6. Watched \in unread \/ since[table[Watched]] < Refresh
  BY <1>1, <1>2, <1>5, PortTableAssumption DEF Recent
<1> QED
  BY <1>2, <1>3, <1>6

LEMMA CapturedKeeps ==
  ASSUME IInv, NEW k \in Key \cup {Unparsed}, Captured(k)
  PROVE  IInv'
<1> USE DEF Captured, osVars, copyVars, readVars, ruleVars
<1>1. TypeOK /\ Present /\ Recent /\ Held /\ Counted /\ at = "ready"
  BY DEF IInv
<1>2. at' \in {"ready", "refresh", "lookup"} /\ (at' = "lookup" => k \in Key)
      /\ (k \in Key => at' # "ready")
  <2>1. CASE Stale
    BY <2>1
  <2>2. CASE ~Stale
    BY <2>2, ParsedAt
  <2> QED
    BY <2>1, <2>2
<1>3. TypeOK'
  <2>1. due' \in Anyone
    BY <1>1 DEF TypeOK, Anyone
  <2> QED
    BY <1>1, <1>2, <2>1 DEF TypeOK
<1>4. Present' /\ Recent' /\ Counted'
  BY <1>1 DEF Present, Recent, Counted
<1>5. at' # "refresh" => (steady # NoPid => InCopy(steady))
  BY CapturedFresh
<1>6. Held'
  BY <1>1, <1>2, <1>5 DEF Held, InCopy
<1>7. Renewed'
  <2>1. CASE k = Watched
    BY <1>1, <1>2, <1>5, <2>1, PortTableAssumption DEF Renewed, Held, InCopy
  <2>2. CASE k # Watched
    BY <2>2 DEF Renewed
  <2> QED
    BY <2>1, <2>2
<1> QED
  BY <1>3, <1>4, <1>6, <1>7 DEF IInv

LEMMA RereadKeeps == IInv /\ Reread => IInv'
<1> SUFFICES ASSUME IInv, Reread PROVE IInv'
  OBVIOUS
<1> USE DEF Reread, osVars, ruleVars
<1>1. TypeOK /\ Present /\ Held /\ Renewed /\ Counted
  BY DEF IInv
<1>2. /\ table' \in [Key -> Anyone] /\ unread' \in SUBSET Key
      /\ Watched \in unread' \/ since[table'[Watched]] = 0
  BY <1>1, ReadFresh
<1>3. TypeOK'
  BY <1>1, <1>2, PortTableAssumption DEF TypeOK
<1>4. Present' /\ Recent'
  BY <1>1, <1>2 DEF Present, Recent
<1>5. \A p \in Pid : owners[Watched] = {p} => table'[Watched] = p \/ Watched \in unread'
  BY <1>1, ReadFinds
<1>6. Held'
  <2>1. steady # NoPid => steady \in Pid /\ owners[Watched] = {steady}
    BY <1>1 DEF Held, TypeOK, Anyone
  <2> QED
    BY <1>5, <2>1 DEF Held, InCopy
<1>7. Renewed'
  <2>1. due # NoPid => due \in Pid /\ owners[Watched] = {due} /\ key = Watched
    BY <1>1 DEF Renewed, TypeOK, Anyone
  <2> QED
    BY <1>5, <2>1 DEF Renewed, InCopy
<1>8. Counted'
  BY <1>1 DEF Counted
<1> QED
  BY <1>3, <1>4, <1>6, <1>7, <1>8 DEF IInv

LEMMA StoredKeeps == IInv /\ Stored => IInv'
<1> SUFFICES ASSUME IInv, Stored PROVE IInv'
  OBVIOUS
<1> USE DEF Stored, osVars, readVars, ruleVars
<1>1. TypeOK /\ Present /\ Recent /\ Held /\ Renewed /\ at = "store"
  BY DEF IInv
<1>2. at' \in {"ready", "lookup"} /\ (at' = "lookup" <=> key \in Key)
  BY <1>1, ParsedAt DEF TypeOK
<1>3. TypeOK'
  BY <1>1, <1>2 DEF TypeOK
<1>4. Present' /\ Recent'
  BY <1>1, <1>2 DEF Present, Recent
<1>5. Held'
  <2>1. newer' = FALSE /\ (newer => revised')
    BY <1>1, Zenon DEF TypeOK
  <2> QED
    BY <1>1, <1>2, <2>1 DEF Held, InCopy
<1>6. Renewed'
  BY <1>1, <1>2, PortTableAssumption DEF Renewed, InCopy
<1>7. Counted'
  BY FS_EmptySet DEF Counted
<1> QED
  BY <1>3, <1>4, <1>5, <1>6, <1>7 DEF IInv

\* What a lookup finds for a process that was due, and leaves of the copy for the others.
LEMMA LookupFinds ==
  ASSUME IInv, Lookup
  PROVE  /\ due # NoPid => table'[key] = due \/ key \in unread'
         /\ steady # NoPid => revised \/ table'[Watched] = steady \/ Watched \in unread'
         /\ Watched \in unread' \/ since[table'[Watched]] <= age'
<1> USE DEF Lookup, copyVars, readVars
<1>1. TypeOK /\ Present /\ Recent /\ Held /\ Renewed /\ at = "lookup"
  BY DEF IInv
<1>2. CASE UNCHANGED copyVars
  BY <1>1, <1>2 DEF Recent, Held, Renewed, InCopy
<1>3. CASE ReadTable /\ UNCHANGED <<age, revised>>
  <2>1. \A p \in Pid : owners[Watched] = {p} => table'[Watched] = p \/ Watched \in unread'
    BY <1>1, <1>3, ReadFinds
  <2>2. Watched \in unread' \/ since[table'[Watched]] = 0
    BY <1>1, <1>3, ReadFresh
  <2>3. age \in 0 .. Refresh /\ age' = age
    BY <1>1, <1>3 DEF TypeOK
  <2>4. Watched \in unread' \/ since[table'[Watched]] <= age'
    BY <2>2, <2>3, PortTableAssumption
  <2>5. /\ due # NoPid => due \in Pid /\ owners[Watched] = {due} /\ key = Watched
        /\ steady # NoPid => steady \in Pid /\ owners[Watched] = {steady}
    BY <1>1 DEF Held, Renewed, TypeOK, Anyone
  <2> QED
    BY <2>1, <2>4, <2>5
<1> QED
  BY <1>2, <1>3

LEMMA LookupKeeps == IInv /\ Lookup => IInv'
<1> SUFFICES ASSUME IInv, Lookup PROVE IInv'
  OBVIOUS
<1> USE DEF Lookup, osVars, readVars, ruleVars
<1>1. TypeOK /\ Present /\ Held /\ Counted /\ revised' = revised
  BY DEF IInv, copyVars
<1>2. /\ steady # NoPid => revised \/ table'[Watched] = steady \/ Watched \in unread'
      /\ Watched \in unread' \/ since[table'[Watched]] <= age'
  BY LookupFinds
<1>3. /\ table' \in [Key -> Anyone] /\ unread' \in SUBSET Key /\ unresolved' \in SUBSET Key
      /\ age' \in 0 .. Refresh /\ revised' \in BOOLEAN /\ reads' \in Nat /\ Counted'
  <2>1. CASE UNCHANGED copyVars
    BY <1>1, <2>1 DEF copyVars, TypeOK, Counted
  <2>2. CASE ReadTable /\ Retry /\ unresolved' = unresolved \cup {key} /\ reads' = reads + 1
             /\ UNCHANGED <<age, revised>>
    <3>1. table' \in [Key -> Anyone] /\ unread' \in SUBSET Key
      BY <1>1, <2>2, ReadFresh
    <3>2. key \in Key /\ key \notin unresolved /\ unresolved \in SUBSET Key
      BY <1>1, <2>2 DEF TypeOK, Retry
    <3>3. IsFiniteSet(unresolved)
      BY <3>2, FS_Subset, PortTableAssumption
    <3>4. Cardinality(unresolved') = Cardinality(unresolved) + 1
      BY <2>2, <3>2, <3>3, FS_AddElement
    <3> QED
      BY <1>1, <2>2, <3>1, <3>2, <3>4 DEF TypeOK, Counted
  <2> QED
    BY <2>1, <2>2
<1>4. TypeOK'
  BY <1>1, <1>3 DEF TypeOK, Anyone
<1>5. Present' /\ Recent' /\ Renewed'
  BY <1>1, <1>2 DEF Present, Recent, Renewed
<1>6. Held'
  BY <1>1, <1>2 DEF Held, InCopy
<1> QED
  BY <1>3, <1>4, <1>5, <1>6 DEF IInv

LEMMA ReviseKeeps ==
  ASSUME IInv, NEW by \in {"update", "other"}, Revise(by)
  PROVE  IInv'
<1> USE DEF Revise, osVars, readVars
<1>1. TypeOK /\ Present /\ Recent /\ Held /\ Renewed /\ Counted
  BY DEF IInv
<1>2. CASE at = "capture"
  <2>1. steady' = steady
    BY <1>2
  <2>2. TypeOK'
    BY <1>1, <1>2, <2>1 DEF TypeOK
  <2>3. Present' /\ Recent' /\ Held' /\ Renewed' /\ Counted'
    BY <1>1, <1>2, <2>1 DEF Present, Recent, Held, Renewed, InCopy, Counted
  <2> QED
    BY <2>2, <2>3 DEF IInv
<1>3. CASE at # "capture"
  <2>1. steady' \in Anyone /\ (steady' # NoPid => owners[Watched] = {steady'})
    <3>1. CASE Alone = {}
      BY <1>3, <3>1 DEF Anyone
    <3>2. CASE Alone # {}
      <4>1. steady' = CHOOSE p \in Alone : TRUE
        BY <1>3, <3>2
      <4>2. steady' \in Alone
        BY <3>2, <4>1
      <4> QED
        BY <4>2 DEF Alone, Anyone
    <3> QED
      BY <3>1, <3>2
  <2>2. TypeOK'
    BY <1>1, <2>1 DEF TypeOK
  <2>3. Present' /\ Recent' /\ Renewed' /\ Counted'
    BY <1>1 DEF Present, Recent, Renewed, InCopy, Counted
  <2>4. Held'
    <3>1. at \in {"start", "ready", "refresh", "store", "lookup"}
      BY <1>1, <1>3 DEF TypeOK
    <3>2. revised' /\ (at = "store" => newer')
      OBVIOUS
    <3> QED
      BY <2>1, <3>1, <3>2 DEF Held
  <2> QED
    BY <2>2, <2>3, <2>4 DEF IInv
<1> QED
  BY <1>2, <1>3

LEMMA SetRulesKeeps ==
  ASSUME IInv, NEW r \in BOOLEAN, SetRules(r)
  PROVE  IInv'
<1> USE DEF SetRules, osVars, copyVars, readVars
<1>1. TypeOK'
  BY DEF IInv, TypeOK
<1>2. Present' /\ Recent' /\ Held' /\ Renewed' /\ Counted'
  BY DEF IInv, Present, Recent, Held, Renewed, InCopy, Counted
<1> QED
  BY <1>1, <1>2 DEF IInv

LEMMA ChangeKeeps ==
  ASSUME IInv, NEW k \in Key, NEW ps \in SUBSET Pid, Change(k, ps)
  PROVE  IInv'
<1> USE DEF Change, copyVars, readVars, ruleVars
<1>1. TypeOK /\ Present /\ Recent /\ Held /\ Renewed /\ Counted
  BY DEF IInv
<1>2. owners' \in [Key -> SUBSET Pid] /\ Watched \in Key
  BY <1>1, PortTableAssumption DEF TypeOK
<1>3. CASE k = Watched
  <2>1. since' = [p \in Anyone |-> IF Has(p, ps) THEN 0 ELSE since[p]]
        /\ steady' = NoPid /\ due' = NoPid /\ owners'[Watched] = ps
    BY <1>1, <1>3 DEF TypeOK
  <2>2. since' \in [Anyone -> 0 .. Refresh]
    BY <1>1, <2>1, PortTableAssumption DEF TypeOK
  <2>3. TypeOK'
    BY <1>1, <1>2, <2>1, <2>2 DEF TypeOK, Anyone
  <2>4. Present' /\ Held' /\ Renewed' /\ Counted'
    BY <1>1, <2>1 DEF Present, Held, Renewed, Counted
  <2>5. Recent'
    <3>1. table[Watched] \in Anyone /\ age \in 0 .. Refresh
      BY <1>1, <1>2 DEF TypeOK
    <3>2. since'[table[Watched]] = 0 \/ since'[table[Watched]] = since[table[Watched]]
      BY <2>1, <3>1
    <3> QED
      BY <1>1, <3>1, <3>2, PortTableAssumption DEF Recent
  <2> QED
    BY <2>3, <2>4, <2>5 DEF IInv
<1>4. CASE k # Watched
  <2>1. owners'[Watched] = owners[Watched]
    BY <1>1, <1>2, <1>4 DEF TypeOK
  <2>2. TypeOK'
    BY <1>1, <1>2, <1>4 DEF TypeOK
  <2>3. Present' /\ Recent' /\ Held' /\ Renewed' /\ Counted'
    BY <1>1, <1>4, <2>1 DEF Present, Recent, Held, Renewed, InCopy, Counted
  <2> QED
    BY <2>2, <2>3 DEF IInv
<1> QED
  BY <1>3, <1>4

LEMMA TickKeeps == IInv /\ Tick => IInv'
<1> SUFFICES ASSUME IInv, Tick PROVE IInv'
  OBVIOUS
<1> USE DEF Tick, readVars, ruleVars
<1>1. TypeOK /\ Present /\ Recent /\ Held /\ Renewed /\ Counted
  BY DEF IInv
<1>2. \A n, m \in 0 .. Refresh : Older(n) \in 0 .. Refresh /\ (n <= m => Older(n) <= Older(m))
  BY PortTableAssumption DEF Older
<1>3. TypeOK'
  BY <1>1, <1>2, PortTableAssumption DEF TypeOK
<1>4. Present' /\ Held' /\ Renewed' /\ Counted'
  BY <1>1 DEF Present, Held, Renewed, InCopy, Counted
<1>5. Recent'
  <2>1. table[Watched] \in Anyone /\ age \in 0 .. Refresh /\ since \in [Anyone -> 0 .. Refresh]
    BY <1>1, PortTableAssumption DEF TypeOK
  <2>2. since'[table[Watched]] = 0 \/ since'[table[Watched]] = Older(since[table[Watched]])
    BY <2>1
  <2>3. age' \in 0 .. Refresh
    BY <1>2, <2>1
  <2>4. CASE at = "start" \/ Watched \in unread
    BY <2>4 DEF Recent
  <2>5. CASE since[table[Watched]] <= age
    <3>1. Older(since[table[Watched]]) <= Older(age)
      BY <1>2, <2>1, <2>5
    <3> QED
      BY <2>2, <2>3, <3>1, PortTableAssumption DEF Recent
  <2> QED
    BY <1>1, <2>4, <2>5 DEF Recent
<1> QED
  BY <1>3, <1>4, <1>5 DEF IInv

LEMMA NextKeeps == IInv /\ [Next]_vars => IInv'
<1> SUFFICES ASSUME IInv, [Next]_vars PROVE IInv'
  OBVIOUS
<1>1. CASE UNCHANGED vars
  <2> USE DEF vars, osVars, copyVars, readVars, ruleVars
  <2>1. TypeOK'
    BY <1>1 DEF IInv, TypeOK
  <2>2. Present' /\ Recent' /\ Held' /\ Renewed' /\ Counted'
    BY <1>1 DEF IInv, Present, Recent, Held, Renewed, InCopy, Counted
  <2> QED
    BY <2>1, <2>2 DEF IInv
<1>2. CASE \E k \in Key \cup {Unparsed} : Captured(k)
  BY <1>2, CapturedKeeps
<1>3. CASE \E by \in {"update", "other"} : Revise(by)
  BY <1>3, ReviseKeeps
<1>4. CASE \E r \in BOOLEAN : SetRules(r)
  BY <1>4, SetRulesKeeps
<1>5. CASE \E k \in Key : \E p \in Pid : Change(k, owners[k] \cup {p}) \/ Change(k, owners[k] \ {p})
  <2>1. PICK k \in Key, p \in Pid : Change(k, owners[k] \cup {p}) \/ Change(k, owners[k] \ {p})
    BY <1>5
  <2>2. owners[k] \cup {p} \in SUBSET Pid /\ owners[k] \ {p} \in SUBSET Pid
    BY DEF IInv, TypeOK
  <2> QED
    BY <2>1, <2>2, ChangeKeeps
<1>6. CASE StartRead \/ StartRevision \/ Reread \/ Stored
  BY <1>6, StartReadKeeps, StartRevisionKeeps, RereadKeeps, StoredKeeps
<1> QED
  BY <1>1, <1>2, <1>3, <1>4, <1>5, <1>6, LookupKeeps, TickKeeps DEF Next

THEOREM Inductive == Spec => []IInv
  BY InitInv, NextKeeps, PTL DEF Spec

\* The copy and its history keep their type, and only a key is looked up.
THEOREM TypeCorrect == Spec => []TypeOK
<1>1. IInv => TypeOK
  BY DEF IInv
<1> QED
  BY <1>1, Inductive, PTL

\* The table is read again for no more misses than there are ports between two refreshes.
THEOREM RetriesAreBounded == Spec => []RetriesBounded
<1>1. IInv => RetriesBounded
  <2> SUFFICES ASSUME IInv PROVE RetriesBounded
    OBVIOUS
  <2>1. unresolved \in SUBSET Key /\ reads = Cardinality(unresolved)
    BY DEF IInv, TypeOK, Counted
  <2> QED
    BY <2>1, FS_Subset, PortTableAssumption DEF RetriesBounded
<1> QED
  BY <1>1, Inductive, PTL

\* No attribution is wrong for longer than a refresh, also after a start.
THEOREM AttributionFresh == Spec => Fresh
<1>1. IInv /\ [Next]_vars =>
        [\/ at = "ready" /\ at' = "lookup"
         \/ at = "refresh" /\ at' = "store"
         => (key' = Watched => Watched \in unread' \/ since'[table'[Watched]] < Refresh)]_vars
  <2>1. ASSUME IInv, Next, at = "ready", at' = "lookup"
        PROVE  Watched \in unread' \/ since'[table'[Watched]] < Refresh
    <3>1. PICK k \in Key \cup {Unparsed} : Captured(k)
      BY <2>1 DEF Next, StartRead, StartRevision, Reread, Stored, Lookup, Tick, Revise, SetRules, Change
    <3>2. Watched \in unread \/ since[table[Watched]] < Refresh
      BY <2>1, <3>1, CapturedFresh
    <3> QED
      BY <3>1, <3>2 DEF Captured, osVars, copyVars, readVars
  <2>2. ASSUME IInv, Next, at = "refresh", at' = "store"
        PROVE  Watched \in unread' \/ since'[table'[Watched]] < Refresh
    <3>1. ReadTable /\ UNCHANGED osVars
      BY <2>2 DEF Next, StartRead, StartRevision, Captured, Reread, Stored, Lookup, Tick, Revise, SetRules, Change
    <3>2. Watched \in unread' \/ since[table'[Watched]] = 0
      BY <2>2, <3>1, ReadFresh DEF IInv
    <3> QED
      BY <3>1, <3>2, PortTableAssumption DEF osVars
  <2> QED
    BY <2>1, <2>2
<1> QED
  BY <1>1, Inductive, PTL DEF Spec, Fresh

\* A change of the rules reaches every process that has its port when the revision moves, unless
\* it moves between the first table and the first revision.
THEOREM RulesReach == Spec => CoveredAfterChange
<1>1. IInv /\ [Next]_vars =>
        [at = "lookup" /\ at' = "ready" /\ due # NoPid => table'[key] = due \/ key \in unread']_vars
  <2> SUFFICES ASSUME IInv, Next, at = "lookup", at' = "ready", due # NoPid
               PROVE  table'[key] = due \/ key \in unread'
    OBVIOUS
  <2>1. Lookup
    BY DEF Next, StartRead, StartRevision, Captured, Reread, Stored, Tick, Revise, SetRules, Change
  <2> QED
    BY <2>1, LookupFinds
<1> QED
  BY <1>1, Inductive, PTL DEF Spec, CoveredAfterChange

-----------------------------------------------------------------------------
(***************************************************************************)
(* The parser of packets.  What holds at every step of the walk over the   *)
(* extension headers is shown by the smallest number of steps at which it  *)
(* would not hold.                                                         *)
(***************************************************************************)
LEMMA Nibbles == \A b \in Byte : HighNibble(b) \in Nat /\ LowNibble(b) \in Nat
BY DEF Byte, HighNibble, LowNibble

LEMMA Words == MaxWord \in Nat /\ \A a, b \in Byte : 256 * a + b \in Word
<1>1. \A a, b \in Byte : 256 * a + b \in Nat /\ 256 * a + b <= MaxWord
  BY DEF Byte, MaxWord
<1>2. MaxWord \in Nat
  BY DEF MaxWord
<1> QED BY <1>1, <1>2 DEF Word

\* A predicate's smallest number, where an induction would be used.
LEMMA SmallestNumber ==
  ASSUME NEW W \in SUBSET Nat, W # {}
  PROVE  \E m \in W : \A y \in W : m <= y
<1>1. PICK m \in W : \A y \in W : ~(<<y, m>> \in OpToRel(<, Nat))
  BY NatLessThanWellFounded, WFMin
<1>2. \A y \in W : ~(y < m)
  BY <1>1, Zenon DEF OpToRel
<1>3. \A y \in W : m <= y
  BY <1>2
<1> QED BY <1>3

LEMMA ByteRead ==
  ASSUME NEW bytes \in Seq(Byte), NEW i \in Nat, i < Len(bytes)
  PROVE  U8(bytes, i) \in Byte
<1>1. i + 1 \in 1 .. Len(bytes)
  OBVIOUS
<1> QED BY <1>1, ElementOfSeq DEF U8

\* What follows a packet in the buffer is not seen by a read within the packet.
LEMMA SameRead ==
  ASSUME NEW bytes \in Seq(Byte), NEW more \in Seq(Byte), NEW i \in Nat, i < Len(bytes)
  PROVE  U8(bytes \o more, i) = U8(bytes, i)
<1>1. i + 1 \in 1 .. Len(bytes) /\ Len(bytes) \in Nat /\ Len(more) \in Nat
  BY LenProperties
<1>2. (bytes \o more)[i + 1] = bytes[i + 1]
  BY <1>1, ConcatProperties
<1> QED BY <1>2 DEF U8

LEMMA WordRead ==
  ASSUME NEW bytes \in Seq(Byte), NEW i \in Nat, i + 1 < Len(bytes)
  PROVE  U16(bytes, i) \in Word
<1>1. U8(bytes, i) \in Byte /\ U8(bytes, i + 1) \in Byte
  BY ByteRead
<1> QED BY <1>1, Words, Zenon DEF U16

LEMMA SameWord ==
  ASSUME NEW bytes \in Seq(Byte), NEW more \in Seq(Byte), NEW i \in Nat, i + 1 < Len(bytes)
  PROVE  U16(bytes \o more, i) = U16(bytes, i)
<1>1. U8(bytes \o more, i) = U8(bytes, i) /\ U8(bytes \o more, i + 1) = U8(bytes, i + 1)
  BY SameRead
<1> QED BY <1>1 DEF U16

-----------------------------------------------------------------------------
(***************************************************************************)
(* The transport header, at an offset within a packet of `total` bytes.    *)
(***************************************************************************)
LEMMA HeaderFits ==
  ASSUME NEW bytes \in Seq(Byte), NEW total \in Nat, total <= Len(bytes), NEW offset \in Nat,
         NEW protocol
  PROVE  LET header == TransportHeader(bytes, protocol, offset, total)
         IN  header \in Nat /\ (header # 0 => header >= 8 /\ offset + header <= total)
<1> DEFINE tcp == 4 * HighNibble(U8(bytes, offset + 12))
<1>1. CASE protocol = Tcp /\ offset + 20 <= total
  <2>1. U8(bytes, offset + 12) \in Byte
    BY <1>1, ByteRead, LenProperties
  <2>2. tcp \in Nat
    BY <2>1, Nibbles
  <2> HIDE DEF tcp
  <2>3. TransportHeader(bytes, protocol, offset, total) =
          IF tcp < 20 \/ offset + tcp > total THEN 0 ELSE tcp
    BY <1>1 DEF TransportHeader, tcp
  <2> QED BY <2>2, <2>3
<1>2. CASE protocol = Tcp /\ ~(offset + 20 <= total)
  <2>1. TransportHeader(bytes, protocol, offset, total) = 0
    BY <1>2 DEF TransportHeader
  <2> QED BY <2>1
<1>3. CASE protocol # Tcp
  <2>1. TransportHeader(bytes, protocol, offset, total) = IF offset + 8 > total THEN 0 ELSE 8
    BY <1>3 DEF TransportHeader
  <2> QED BY <2>1
<1> QED BY <1>1, <1>2, <1>3

LEMMA SameHeader ==
  ASSUME NEW bytes \in Seq(Byte), NEW more \in Seq(Byte), NEW total \in Nat, total <= Len(bytes),
         NEW offset \in Nat, NEW protocol
  PROVE  TransportHeader(bytes \o more, protocol, offset, total)
           = TransportHeader(bytes, protocol, offset, total)
<1>1. CASE offset + 20 <= total
  <2>1. U8(bytes \o more, offset + 12) = U8(bytes, offset + 12)
    BY <1>1, SameRead, LenProperties
  <2> QED BY <2>1 DEF TransportHeader
<1>2. CASE ~(offset + 20 <= total)
  BY <1>2 DEF TransportHeader
<1> QED BY <1>1, <1>2

\* What a parsed packet may be, of one with n bytes.
Parsed(n) ==
  [protocol : {Tcp, Udp}, source : Word, destination : Word, payload : 0 .. n]

LEMMA TransportFits ==
  ASSUME NEW bytes \in Seq(Byte), NEW total \in Nat, total <= Len(bytes), NEW offset \in Nat,
         NEW protocol, Transport(bytes, protocol, offset, total) # Unparsed
  PROVE  /\ Transport(bytes, protocol, offset, total) \in Parsed(Len(bytes))
         /\ \A more \in Seq(Byte) :
              Transport(bytes \o more, protocol, offset, total)
                = Transport(bytes, protocol, offset, total)
<1> DEFINE header == TransportHeader(bytes, protocol, offset, total)
<1>1. protocol \in {Tcp, Udp} /\ header # 0
  BY DEF Transport
<1>2. header \in Nat /\ header >= 8 /\ offset + header <= total /\ Len(bytes) \in Nat
  BY <1>1, HeaderFits, LenProperties
<1>3. Transport(bytes, protocol, offset, total) =
        [protocol |-> protocol, source |-> U16(bytes, offset),
         destination |-> U16(bytes, offset + 2), payload |-> total - (offset + header)]
  BY <1>1 DEF Transport
<1> HIDE DEF header
<1>4. U16(bytes, offset) \in Word /\ U16(bytes, offset + 2) \in Word
  <2>1. offset + 1 < Len(bytes) /\ (offset + 2) + 1 < Len(bytes) /\ offset + 2 \in Nat
    BY <1>2
  <2> QED BY <2>1, WordRead
<1>5. total - (offset + header) \in 0 .. Len(bytes)
  BY <1>2
<1>6. ASSUME NEW more \in Seq(Byte)
      PROVE  Transport(bytes \o more, protocol, offset, total)
               = Transport(bytes, protocol, offset, total)
  <2>1. /\ U16(bytes \o more, offset) = U16(bytes, offset)
        /\ U16(bytes \o more, offset + 2) = U16(bytes, offset + 2)
    BY <1>2, SameWord
  <2>2. TransportHeader(bytes \o more, protocol, offset, total) = header
    BY SameHeader DEF header
  <2> QED BY <1>1, <1>3, <2>1, <2>2 DEF Transport
<1>7. Transport(bytes, protocol, offset, total) \in Parsed(Len(bytes))
  BY <1>1, <1>3, <1>4, <1>5 DEF Parsed
<1> QED BY <1>6, <1>7

LEMMA IPv4Fits ==
  ASSUME NEW bytes \in Seq(Byte), IPv4(bytes) # Unparsed
  PROVE  /\ IPv4(bytes) \in Parsed(Len(bytes))
         /\ \A more \in Seq(Byte) : IPv4(bytes \o more) = IPv4(bytes)
<1> DEFINE ihl == 4 * LowNibble(U8(bytes, 0))
           total == U16(bytes, 2)
<1>1. Len(bytes) \in Nat
  BY LenProperties
<1>2. /\ Len(bytes) >= 24 /\ HighNibble(U8(bytes, 0)) = 4
      /\ ~(ihl + 4 > Len(bytes)) /\ ~(total < ihl) /\ ~(total > Len(bytes))
      /\ IPv4(bytes) = Transport(bytes, U8(bytes, 9), ihl, total)
  BY <1>1 DEF IPv4
<1>3. U8(bytes, 0) \in Byte /\ total \in Word
  <2>1. 0 < Len(bytes) /\ 2 + 1 < Len(bytes)
    BY <1>1, <1>2
  <2> QED BY <2>1, ByteRead, WordRead
<1>4. ihl \in Nat
  BY <1>3, Nibbles
<1> HIDE DEF ihl, total
<1>5. total \in Nat /\ total <= Len(bytes) /\ Transport(bytes, U8(bytes, 9), ihl, total) # Unparsed
  BY <1>1, <1>2, <1>3 DEF Word
<1>6. ASSUME NEW more \in Seq(Byte) PROVE IPv4(bytes \o more) = IPv4(bytes)
  <2>1. /\ U8(bytes \o more, 0) = U8(bytes, 0) /\ U16(bytes \o more, 2) = total
        /\ U8(bytes \o more, 9) = U8(bytes, 9)
    BY <1>1, <1>2, SameRead, SameWord DEF total
  <2>2. Len(bytes \o more) \in Nat /\ Len(bytes \o more) >= Len(bytes)
    BY <1>1, LenProperties, ConcatProperties
  <2>3. IPv4(bytes \o more) = Transport(bytes \o more, U8(bytes, 9), ihl, total)
    <3>1. ihl + 4 <= Len(bytes \o more) /\ total <= Len(bytes \o more) /\ Len(bytes \o more) >= 24
      BY <1>1, <1>2, <1>4, <1>5, <2>2
    <3>2. 4 * LowNibble(U8(bytes \o more, 0)) = ihl
      BY <2>1 DEF ihl
    <3> QED BY <1>2, <1>4, <1>5, <2>1, <2>2, <3>1, <3>2 DEF IPv4
  <2> QED BY <1>2, <1>4, <1>5, <2>3, TransportFits
<1> QED BY <1>2, <1>4, <1>5, <1>6, TransportFits

-----------------------------------------------------------------------------
(***************************************************************************)
(* The walk over the extension headers of IPv6.  Its places are the values *)
(* of a recursive function, which exists; what holds of all of them is     *)
(* shown by the smallest number of steps at which it would not.            *)
(***************************************************************************)
Walks(bytes, total, g, k) ==
  g = [n \in 0 .. k |-> IF n = 0 THEN <<40, U8(bytes, 6)>> ELSE Passed(bytes, total, g[n - 1])]

LEMMA WalkExists ==
  ASSUME NEW bytes, NEW total, NEW k \in Nat PROVE \E g : Walks(bytes, total, g, k)
<1> DEFINE W == {n \in Nat : ~ \E g : Walks(bytes, total, g, n)}
<1> SUFFICES ASSUME W # {} PROVE FALSE
  OBVIOUS
<1>1. PICK m \in W : \A y \in W : m <= y
  <2>1. W \in SUBSET Nat
    OBVIOUS
  <2> HIDE DEF W
  <2> QED BY <2>1, SmallestNumber
<1>2. m \in Nat /\ ~ \E g : Walks(bytes, total, g, m)
  OBVIOUS
<1>3. CASE m = 0
  <2> DEFINE g == [n \in 0 .. 0 |-> <<40, U8(bytes, 6)>>]
  <2>1. g = [n \in 0 .. 0 |-> IF n = 0 THEN <<40, U8(bytes, 6)>>
                              ELSE Passed(bytes, total, g[n - 1])]
    OBVIOUS
  <2> HIDE DEF g
  <2>2. Walks(bytes, total, g, 0)
    BY <2>1, Zenon DEF Walks
  <2> QED BY <1>2, <1>3, <2>2
<1>4. CASE m # 0
  <2>1. m - 1 \in Nat /\ m - 1 \notin W
    BY <1>1, <1>2, <1>4
  <2>2. PICK h : Walks(bytes, total, h, m - 1)
    BY <2>1
  <2> DEFINE last == Passed(bytes, total, h[m - 1])
             g == [n \in 0 .. m |-> IF n < m THEN h[n] ELSE last]
  <2>3. \A n \in 0 .. m - 1 :
          h[n] = IF n = 0 THEN <<40, U8(bytes, 6)>> ELSE Passed(bytes, total, h[n - 1])
    BY <2>2, Zenon DEF Walks
  <2>4. ASSUME NEW n \in 0 .. m
        PROVE  g[n] = IF n = 0 THEN <<40, U8(bytes, 6)>> ELSE Passed(bytes, total, g[n - 1])
    <3>1. CASE n = 0
      BY <1>2, <1>4, <2>1, <2>3, <3>1
    <3>2. CASE n # 0 /\ n < m
      <4>1. n \in 0 .. m - 1 /\ n - 1 \in 0 .. m /\ n - 1 < m
        BY <1>2, <3>2
      <4>2. g[n] = h[n] /\ g[n - 1] = h[n - 1]
        BY <3>2, <4>1
      <4> QED BY <2>3, <3>2, <4>1, <4>2
    <3>3. CASE n # 0 /\ n = m
      <4>1. n - 1 \in 0 .. m /\ n - 1 < m
        BY <1>2, <3>3
      <4>2. g[n] = last /\ g[n - 1] = h[m - 1]
        BY <3>3, <4>1
      <4> QED BY <3>3, <4>2
    <3>4. n < m \/ n = m
      BY <1>2
    <3> QED BY <3>1, <3>2, <3>3, <3>4
  <2>5. g = [n \in 0 .. m |-> g[n]]
    OBVIOUS
  <2> HIDE DEF g
  <2>6. Walks(bytes, total, g, m)
    BY <2>4, <2>5, Zenon DEF Walks
  <2> QED BY <1>2, <2>6
<1> QED BY <1>3, <1>4

\* The places of the walk: the last one is its result, and each follows from the one before.
Places(bytes, total) == CHOOSE g : Walks(bytes, total, g, total \div 8)

Steps(bytes, total, g) ==
  \A n \in 0 .. total \div 8 :
    g[n] = IF n = 0 THEN <<40, U8(bytes, 6)>> ELSE Passed(bytes, total, g[n - 1])

LEMMA WalkIs ==
  ASSUME NEW bytes, NEW total \in Nat
  PROVE  /\ total \div 8 \in Nat
         /\ Walk(bytes, total) = Places(bytes, total)[total \div 8]
         /\ Steps(bytes, total, Places(bytes, total))
<1>1. total \div 8 \in Nat
  OBVIOUS
<1>2. Walk(bytes, total) = Places(bytes, total)[total \div 8]
  BY Zenon DEF Walk, Places, Walks
<1>3. Walks(bytes, total, Places(bytes, total), total \div 8)
  BY <1>1, WalkExists, Zenon DEF Places
<1>4. Steps(bytes, total, Places(bytes, total))
  BY <1>3, Zenon DEF Walks, Steps
<1> QED BY <1>1, <1>2, <1>4

LEMMA PassedFits ==
  ASSUME NEW bytes \in Seq(Byte), NEW total \in Nat, total <= Len(bytes),
         NEW place \in Nat \X Byte
  PROVE  /\ Passed(bytes, total, place) \in Nat \X Byte
         /\ \/ place[2] \in {Tcp, Udp} /\ Passed(bytes, total, place) = place
            \/ Passed(bytes, total, place) = None
            \/ Passed(bytes, total, place)[1] >= place[1] + 8
         /\ \A more \in Seq(Byte) :
              Passed(bytes \o more, total, place) = Passed(bytes, total, place)
<1> DEFINE offset == place[1]
           next == place[2]
           code == U8(bytes, offset + 1)
           length == ExtensionLength(next, code)
<1>1. offset \in Nat /\ next \in Byte
  OBVIOUS
<1>2. None \in Nat \X Byte
  <2>1. 59 \in Byte
    BY DEF Byte
  <2> QED BY <2>1 DEF None
<1>3. CASE next \in {Tcp, Udp}
  <2>1. \A other : Passed(other, total, place) = place
    BY <1>3, Zenon DEF Passed
  <2> QED BY <1>3, <2>1
<1>4. CASE next \notin {Tcp, Udp} /\ (next \notin Extensions \/ offset + 8 > total)
  <2>1. \A other : Passed(other, total, place) = None
    BY <1>4, Zenon DEF Passed
  <2> QED BY <1>2, <2>1
<1>5. CASE next \notin {Tcp, Udp} /\ next \in Extensions /\ ~(offset + 8 > total)
  <2> HIDE DEF offset
  <2>1. Len(bytes) \in Nat /\ offset + 1 < Len(bytes) /\ offset < Len(bytes)
    BY <1>1, <1>5, LenProperties
  <2>2. U8(bytes, offset) \in Byte /\ code \in Byte
    BY <1>1, <2>1, ByteRead
  <2>3. \A other : Passed(other, total, place) =
                     <<offset + ExtensionLength(next, U8(other, offset + 1)), U8(other, offset)>>
    BY <1>5, Zenon DEF Passed, offset
  <2>4. length \in Nat /\ length >= 8
    <3> HIDE DEF code
    <3> QED BY <2>2 DEF ExtensionLength, Byte
  <2>5. Passed(bytes, total, place) = <<offset + length, U8(bytes, offset)>>
    BY <2>3
  <2>6. ASSUME NEW more \in Seq(Byte)
        PROVE  Passed(bytes \o more, total, place) = Passed(bytes, total, place)
    <3>1. U8(bytes \o more, offset) = U8(bytes, offset) /\ U8(bytes \o more, offset + 1) = code
      BY <1>1, <2>1, SameRead
    <3> QED BY <2>3, <2>5, <3>1
  <2> HIDE DEF length
  <2>7. Passed(bytes, total, place) \in Nat \X Byte /\ Passed(bytes, total, place)[1] >= offset + 8
    BY <1>1, <2>2, <2>4, <2>5
  <2> QED BY <2>6, <2>7 DEF offset
<1> QED BY <1>3, <1>4, <1>5

\* A place that is neither a transport header nor none is as far as the steps have gone.
Further(place, n) ==
  place \in Nat \X Byte /\ (place[2] \in {Tcp, Udp} \/ place = None \/ place[1] >= 40 + 8 * n)

LEMMA PlacesFit ==
  ASSUME NEW bytes \in Seq(Byte), NEW total \in Nat, 40 <= total, total <= Len(bytes),
         NEW more \in Seq(Byte)
  PROVE  \A n \in 0 .. total \div 8 :
           /\ Further(Places(bytes, total)[n], n)
           /\ Places(bytes \o more, total)[n] = Places(bytes, total)[n]
<1> DEFINE g == Places(bytes, total)
           h == Places(bytes \o more, total)
           Good(n) == Further(g[n], n) /\ h[n] = g[n]
           W == {n \in Nat : n <= total \div 8 /\ ~Good(n)}
<1>1. total \div 8 \in Nat
  OBVIOUS
<1>2. Steps(bytes, total, g) /\ Steps(bytes \o more, total, h)
  BY WalkIs
<1> HIDE DEF g, h
<1>3. Good(0)
  <2>1. 6 < Len(bytes)
    BY LenProperties
  <2>2. U8(bytes, 6) \in Byte /\ U8(bytes \o more, 6) = U8(bytes, 6)
    BY <2>1, ByteRead, SameRead
  <2>3. g[0] = <<40, U8(bytes, 6)>> /\ h[0] = <<40, U8(bytes, 6)>>
    BY <1>1, <1>2, <2>2 DEF Steps
  <2> QED BY <2>2, <2>3 DEF Further
<1>4. ASSUME NEW n \in Nat, n # 0, n <= total \div 8, Good(n - 1)
      PROVE  Good(n)
  <2>1. n \in 0 .. total \div 8
    BY <1>1, <1>4
  <2>2. g[n] = Passed(bytes, total, g[n - 1]) /\ h[n] = Passed(bytes \o more, total, g[n - 1])
    BY <1>2, <1>4, <2>1 DEF Steps
  <2> DEFINE offset == g[n - 1][1]
             next == g[n - 1][2]
  <2>3. g[n - 1] \in Nat \X Byte /\ offset \in Nat
    BY <1>4 DEF Further
  <2>4. next \in {Tcp, Udp} \/ g[n - 1] = None \/ offset >= 40 + 8 * (n - 1)
    BY <1>4 DEF Further
  <2>5. /\ g[n] \in Nat \X Byte
        /\ (next \in {Tcp, Udp} /\ g[n] = g[n - 1]) \/ g[n] = None \/ g[n][1] >= offset + 8
        /\ h[n] = g[n]
    BY <2>2, <2>3, PassedFits
  <2>6. g[n - 1] = None => g[n] = None
    BY <2>2 DEF Passed, None, Tcp, Udp, Extensions
  <2>7. next \in {Tcp, Udp} => g[n] = g[n - 1]
    BY <2>2, <2>3 DEF Passed
  <2>8. CASE next \in {Tcp, Udp} \/ g[n - 1] = None
    BY <2>5, <2>6, <2>7, <2>8 DEF Further
  <2>9. CASE next \notin {Tcp, Udp} /\ g[n - 1] # None
    <3>1. g[n] = None \/ g[n][1] >= 40 + 8 * n
      <4>1. g[n][1] \in Nat
        BY <2>5
      <4>2. offset >= 40 + 8 * (n - 1) /\ (g[n] = None \/ g[n][1] >= offset + 8)
        BY <2>4, <2>5, <2>9
      <4> HIDE DEF offset
      <4> QED BY <1>4, <2>3, <4>1, <4>2
    <3> QED BY <2>5, <3>1 DEF Further
  <2> QED BY <2>8, <2>9
<1>5. W = {}
  <2> SUFFICES ASSUME W # {} PROVE FALSE
    OBVIOUS
  <2>1. PICK m \in W : \A y \in W : m <= y
    <3>1. W \in SUBSET Nat
      OBVIOUS
    <3> HIDE DEF W
    <3> QED BY <3>1, SmallestNumber
  <2>2. m \in Nat /\ m <= total \div 8 /\ ~Good(m)
    BY <2>1
  <2>3. m # 0
    BY <1>3, <2>2
  <2> HIDE DEF Good
  <2>4. m - 1 \in Nat /\ m - 1 \notin W /\ m - 1 <= total \div 8
    BY <1>1, <2>1, <2>2, <2>3
  <2>5. Good(m - 1)
    BY <2>4
  <2> QED BY <1>4, <2>2, <2>3, <2>5
<1>6. \A n \in 0 .. total \div 8 : Good(n)
  <2> HIDE DEF Good
  <2> QED BY <1>1, <1>5
<1> QED BY <1>6 DEF g, h

LEMMA WalkFits ==
  ASSUME NEW bytes \in Seq(Byte), NEW total \in Nat, 40 <= total, total <= Len(bytes)
  PROVE  /\ Further(Walk(bytes, total), total \div 8)
         /\ \A more \in Seq(Byte) : Walk(bytes \o more, total) = Walk(bytes, total)
<1>1. total \div 8 \in 0 .. total \div 8
  OBVIOUS
<1>2. \A other : Walk(other, total) = Places(other, total)[total \div 8]
  BY WalkIs
<1>3. <<>> \in Seq(Byte)
  BY EmptySeq
<1>4. ASSUME NEW more \in Seq(Byte)
      PROVE  /\ Further(Walk(bytes, total), total \div 8)
             /\ Walk(bytes \o more, total) = Walk(bytes, total)
  <2>1. /\ Further(Places(bytes, total)[total \div 8], total \div 8)
        /\ Places(bytes \o more, total)[total \div 8] = Places(bytes, total)[total \div 8]
    BY <1>1, PlacesFit
  <2> QED BY <1>2, <2>1
<1> QED BY <1>3, <1>4

\* A walk over the headers of a packet ends within the steps that the model gives it: after as
\* many as there can be headers of eight bytes it stands at a transport header, has found none,
\* or is beyond the packet, where one more step finds none (ipv6_transport_offset).
THEOREM WalkEnds ==
  ASSUME NEW bytes \in Seq(Byte), NEW total \in Nat, 40 <= total, total <= Len(bytes)
  PROVE  LET found == Walk(bytes, total)
         IN  \/ found[2] \in {Tcp, Udp} /\ found[1] \in Nat
             \/ found = None
             \/ found[1] > total /\ Passed(bytes, total, found) = None
<1> DEFINE found == Walk(bytes, total)
<1>1. /\ found \in Nat \X Byte
      /\ found[2] \in {Tcp, Udp} \/ found = None \/ found[1] >= 40 + 8 * (total \div 8)
  BY WalkFits DEF Further
<1>2. found[1] \in Nat
  BY <1>1
<1> HIDE DEF found
<1>3. 40 + 8 * (total \div 8) > total
  OBVIOUS
<1>4. CASE found[2] \notin {Tcp, Udp} /\ found # None
  <2>1. found[1] > total /\ found[1] + 8 > total
    <3>1. found[1] >= 40 + 8 * (total \div 8) /\ total \div 8 \in Nat
      BY <1>1, <1>4
    <3> QED BY <1>2, <1>3, <3>1
  <2>2. Passed(bytes, total, found) = None
    BY <1>4, <2>1 DEF Passed
  <2> QED BY <2>1, <2>2 DEF found
<1>5. \/ found[2] \in {Tcp, Udp} /\ found[1] \in Nat
      \/ found = None
      \/ found[1] > total /\ Passed(bytes, total, found) = None
  BY <1>2, <1>4 DEF found
<1> QED BY <1>5 DEF found

\* The places of a chain of extension headers, each inside the packet, that ends at the transport
\* header, of whatever protocol; k of them are extension headers.
Chain(bytes, total, p, k) ==
  /\ p[0] = <<40, U8(bytes, 6)>> /\ p[k][2] \notin Extensions
  /\ \A i \in 0 .. k - 1 :
       /\ p[i][2] \in Extensions /\ p[i][1] + 8 <= total
       /\ p[i + 1] = <<p[i][1] + ExtensionLength(p[i][2], U8(bytes, p[i][1] + 1)),
                       U8(bytes, p[i][1])>>

LEMMA ExtensionLengths ==
  ASSUME NEW next, NEW code \in Byte
  PROVE  ExtensionLength(next, code) \in Nat /\ ExtensionLength(next, code) >= 8
BY DEF ExtensionLength, Byte

LEMMA NoTransport == \A next \in Extensions : next \notin {Tcp, Udp}
BY DEF Extensions, Tcp, Udp

\* A step from a place that is no extension header's comes to rest.
LEMMA Rests ==
  ASSUME NEW bytes, NEW total, NEW place, place[2] \notin Extensions
  PROVE  LET last == Passed(bytes, total, place)
         IN  /\ last = IF place[2] \in {Tcp, Udp} THEN place ELSE None
             /\ Passed(bytes, total, last) = last
<1>1. \A other : other[2] \notin Extensions =>
        Passed(bytes, total, other) = IF other[2] \in {Tcp, Udp} THEN other ELSE None
  BY Zenon DEF Passed
<1>2. None[2] \notin Extensions /\ None[2] \notin {Tcp, Udp}
  BY DEF None, Extensions, Tcp, Udp
<1>3. CASE place[2] \in {Tcp, Udp}
  <2>1. Passed(bytes, total, place) = place
    BY <1>1, <1>3, Zenon
  <2> QED BY <1>3, <2>1, Zenon
<1>4. CASE place[2] \notin {Tcp, Udp}
  <2>1. Passed(bytes, total, place) = None /\ Passed(bytes, total, None) = None
    BY <1>1, <1>2, <1>4, Zenon
  <2> QED BY <1>4, <2>1, Zenon
<1> QED BY <1>3, <1>4

LEMMA ChainFound ==
  ASSUME NEW bytes \in Seq(Byte), NEW total \in Nat, 40 <= total, total <= Len(bytes),
         NEW k \in Nat, NEW p \in [0 .. k -> Nat \X Byte], Chain(bytes, total, p, k)
  PROVE  Walk(bytes, total) \in {p[k], Passed(bytes, total, p[k])}
<1> DEFINE g == Places(bytes, total)
           last == Passed(bytes, total, p[k])
           Good(n) == g[n] = IF n <= k THEN p[n] ELSE last
           Far(n) == p[n][1] >= 40 + 8 * n
           W == {n \in Nat : (n <= total \div 8 /\ ~Good(n)) \/ (n <= k /\ ~Far(n))}
<1>1. total \div 8 \in Nat /\ Walk(bytes, total) = g[total \div 8] /\ Steps(bytes, total, g)
  BY WalkIs
<1> HIDE DEF g
<1>2. /\ p[0] = <<40, U8(bytes, 6)>> /\ p[k][2] \notin Extensions
      /\ \A i \in 0 .. k - 1 :
           /\ p[i][2] \in Extensions /\ p[i][1] + 8 <= total
           /\ p[i + 1] = <<p[i][1] + ExtensionLength(p[i][2], U8(bytes, p[i][1] + 1)),
                           U8(bytes, p[i][1])>>
  BY DEF Chain
<1>3. Good(0) /\ Far(0)
  BY <1>1, <1>2 DEF Steps
<1>4. ASSUME NEW n \in 0 .. k - 1
      PROVE  /\ Passed(bytes, total, p[n]) = p[n + 1]
             /\ p[n + 1][1] >= p[n][1] + 8
  <2>1. p[n] \in Nat \X Byte /\ p[n][1] \in Nat
    BY <1>4
  <2>2. p[n][2] \notin {Tcp, Udp} /\ p[n][2] \in Extensions /\ p[n][1] + 8 <= total
    BY <1>2, NoTransport
  <2>3. Passed(bytes, total, p[n]) = p[n + 1]
    <3>1. ~(p[n][1] + 8 > total)
      BY <2>1, <2>2
    <3> QED BY <1>2, <2>2, <3>1, Zenon DEF Passed
  <2>4. p[n + 1][1] >= p[n][1] + 8
    <3>1. U8(bytes, p[n][1] + 1) \in Byte
      <4>1. p[n][1] + 1 \in Nat /\ p[n][1] + 1 < Len(bytes)
        BY <2>1, <2>2, LenProperties
      <4> QED BY <4>1, ByteRead
    <3> DEFINE code == U8(bytes, p[n][1] + 1)
    <3>2. p[n + 1][1] = p[n][1] + ExtensionLength(p[n][2], code)
      BY <1>2
    <3> HIDE DEF code
    <3>3. ExtensionLength(p[n][2], code) \in Nat /\ ExtensionLength(p[n][2], code) >= 8
      BY <3>1, ExtensionLengths DEF code
    <3> QED BY <2>1, <3>2, <3>3
  <2> QED BY <2>3, <2>4
<1>5. ASSUME NEW n \in Nat, n # 0, n <= k, Far(n - 1) PROVE Far(n)
  <2>1. n - 1 \in 0 .. k - 1 /\ n - 1 + 1 = n /\ n - 1 \in 0 .. k /\ n \in 0 .. k
    BY <1>5
  <2>2. p[n][1] >= p[n - 1][1] + 8
    BY <1>4, <2>1
  <2>3. p[n][1] \in Nat /\ p[n - 1][1] \in Nat
    BY <2>1
  <2> QED BY <1>5, <2>2, <2>3
<1>6. ASSUME NEW n \in Nat, n # 0, n <= total \div 8, Good(n - 1) PROVE Good(n)
  <2>1. g[n] = Passed(bytes, total, g[n - 1])
    BY <1>1, <1>6 DEF Steps
  <2>2. CASE n <= k
    <3>1. n - 1 \in 0 .. k - 1 /\ (n - 1) + 1 = n /\ n - 1 <= k
      <4> HIDE DEF Good
      <4> QED BY <1>6, <2>2
    <3>2. g[n - 1] = p[n - 1] /\ Passed(bytes, total, p[n - 1]) = p[n]
      BY <1>4, <1>6, <3>1
    <3> QED BY <2>1, <2>2, <3>2
  <2>3. CASE ~(n <= k)
    <3>1. Passed(bytes, total, last) = last
      BY <1>2, Rests, Zenon
    <3>2. CASE n - 1 <= k
      <4>1. n - 1 = k
        BY <1>6, <2>3, <3>2
      <4>2. g[n] = last
        BY <1>6, <2>1, <4>1
      <4> QED BY <2>3, <4>2
    <3>3. CASE ~(n - 1 <= k)
      <4> HIDE DEF last
      <4>1. g[n - 1] = last
        BY <1>6, <3>3
      <4> QED BY <2>1, <2>3, <3>1, <4>1 DEF last
    <3> QED BY <3>2, <3>3
  <2> QED BY <2>2, <2>3
<1>7. W = {}
  <2> SUFFICES ASSUME W # {} PROVE FALSE
    OBVIOUS
  <2>1. PICK m \in W : \A y \in W : m <= y
    <3>1. W \in SUBSET Nat
      OBVIOUS
    <3> HIDE DEF W
    <3> QED BY <3>1, SmallestNumber
  <2>2. m \in Nat /\ ((m <= total \div 8 /\ ~Good(m)) \/ (m <= k /\ ~Far(m)))
    BY <2>1
  <2>3. m # 0
    BY <1>3, <2>2
  <2> HIDE DEF Good, Far
  <2>4. m - 1 \in Nat /\ m - 1 \notin W
    BY <2>1, <2>2, <2>3
  <2>5. (m <= total \div 8 => Good(m - 1)) /\ (m <= k => Far(m - 1))
    BY <1>1, <2>2, <2>4
  <2> QED BY <1>5, <1>6, <2>2, <2>3, <2>5
<1>8. k <= total \div 8
  <2>1. CASE k = 0
    BY <1>1, <2>1
  <2>2. CASE k # 0
    <3>1. k - 1 \in 0 .. k - 1 /\ k - 1 \in Nat /\ k - 1 \in 0 .. k /\ k - 1 <= k
      BY <2>2
    <3>2. Far(k - 1)
      <4> HIDE DEF Far
      <4> QED BY <1>7, <3>1
    <3>3. p[k - 1][1] + 8 <= total /\ p[k - 1][1] \in Nat
      BY <1>2, <3>1
    <3>4. 40 + 8 * (k - 1) + 8 <= total
      BY <3>1, <3>2, <3>3
    <3> QED BY <3>4
  <2> QED BY <2>1, <2>2
<1> DEFINE n == total \div 8
<1>9. n \in Nat /\ n \notin W
  BY <1>1, <1>7, Zenon
<1> HIDE DEF n, last
<1>10. g[n] = IF n <= k THEN p[n] ELSE last
  BY <1>9 DEF n
<1>11. n <= k => n = k
  BY <1>8, <1>9 DEF n
<1>12. g[n] \in {p[k], last}
  BY <1>10, <1>11
<1> QED BY <1>1, <1>12, Zenon DEF n, last

\* However many extension headers a packet has and however long they are, its ports and payload
\* are read from the transport header behind them (parse_ipv6, ipv6_transport_offset).
THEOREM ChainParsed ==
  ASSUME NEW bytes \in Seq(Byte), Len(bytes) >= 40, HighNibble(U8(bytes, 0)) = 6,
         40 + U16(bytes, 4) <= Len(bytes),
         NEW k \in Nat, NEW p \in [0 .. k -> Nat \X Byte],
         Chain(bytes, 40 + U16(bytes, 4), p, k)
  PROVE  Parse(bytes, TRUE) = Transport(bytes, p[k][2], p[k][1], 40 + U16(bytes, 4))
<1> DEFINE total == 40 + U16(bytes, 4)
           found == p[k]
<1>1. Len(bytes) \in Nat /\ found \in Nat \X Byte /\ found[1] \in Nat /\ total \in Nat /\ 40 <= total
  <2>1. Len(bytes) \in Nat
    BY LenProperties
  <2>2. U16(bytes, 4) \in Word
    BY <2>1, WordRead
  <2> QED BY <2>1, <2>2 DEF Word
<1>2. Walk(bytes, total) \in {found, Passed(bytes, total, found)}
  <2> HIDE DEF total
  <2>1. total <= Len(bytes) /\ Chain(bytes, total, p, k)
    BY DEF total
  <2> QED BY <1>1, <2>1, ChainFound
<1>3. /\ found[2] \notin Extensions
      /\ Passed(bytes, total, found) = IF found[2] \in {Tcp, Udp} THEN found ELSE None
  <2>1. found[2] \notin Extensions
    BY DEF Chain
  <2> HIDE DEF found, total
  <2> QED BY <2>1, Rests, Zenon
<1>4. ~(Len(bytes) < 40) /\ ~(total > Len(bytes))
  <2>1. total <= Len(bytes)
    OBVIOUS
  <2> HIDE DEF total
  <2> QED BY <1>1, <2>1
<1> HIDE DEF found
<1>5. Parse(bytes, TRUE) = IF Walk(bytes, total) = None \/ Walk(bytes, total)[1] + 4 > total THEN Unparsed
                           ELSE Transport(bytes, Walk(bytes, total)[2], Walk(bytes, total)[1], total)
  BY <1>4, Zenon DEF IPv6, Parse
<1> HIDE DEF total
<1>6. CASE found[2] \in {Tcp, Udp}
  <2>1. Walk(bytes, total) = found /\ found # None
    BY <1>2, <1>3, <1>6 DEF None, Tcp, Udp
  <2>2. ASSUME found[1] + 4 > total
        PROVE  Transport(bytes, found[2], found[1], total) = Unparsed
    <3>1. TransportHeader(bytes, found[2], found[1], total) = 0
      BY <1>1, <2>2 DEF TransportHeader
    <3> QED BY <3>1 DEF Transport
  <2> QED BY <1>5, <2>1, <2>2 DEF total, found
<1>7. CASE found[2] \notin {Tcp, Udp}
  <2>1. Walk(bytes, total) = found \/ Walk(bytes, total) = None
    BY <1>2, <1>3, <1>7
  <2>2. Transport(bytes, found[2], found[1], total) = Unparsed
    BY <1>7, Zenon DEF Transport
  <2> QED BY <1>5, <2>1, <2>2, Zenon DEF total, found
<1> QED BY <1>6, <1>7

LEMMA IPv6Fits ==
  ASSUME NEW bytes \in Seq(Byte), IPv6(bytes) # Unparsed
  PROVE  /\ IPv6(bytes) \in Parsed(Len(bytes))
         /\ \A more \in Seq(Byte) : IPv6(bytes \o more) = IPv6(bytes)
<1> DEFINE total == 40 + U16(bytes, 4)
           found == Walk(bytes, total)
<1>1. Len(bytes) \in Nat
  BY LenProperties
<1>2. /\ ~(Len(bytes) < 40) /\ HighNibble(U8(bytes, 0)) = 6 /\ ~(total > Len(bytes))
      /\ found # None /\ ~(found[1] + 4 > total)
      /\ IPv6(bytes) = Transport(bytes, found[2], found[1], total)
  BY Zenon DEF IPv6
<1>3. total \in Nat /\ 40 <= total
  <2>1. U16(bytes, 4) \in Word
    BY <1>1, <1>2, WordRead
  <2>2. U16(bytes, 4) \in Nat
    BY <2>1 DEF Word
  <2> QED BY <2>2
<1>4. total <= Len(bytes)
  <2> HIDE DEF total
  <2> QED BY <1>1, <1>2, <1>3
<1>5. found[1] \in Nat /\ \A more \in Seq(Byte) : Walk(bytes \o more, total) = found
  <2> HIDE DEF total
  <2>1. Further(Walk(bytes, total), total \div 8)
    BY <1>3, <1>4, WalkFits
  <2> QED BY <1>3, <1>4, <2>1, WalkFits DEF Further
<1>6. ASSUME NEW more \in Seq(Byte) PROVE IPv6(bytes \o more) = IPv6(bytes)
  <2>1. U8(bytes \o more, 0) = U8(bytes, 0) /\ 40 + U16(bytes \o more, 4) = total
    BY <1>1, <1>2, SameRead, SameWord
  <2>2. Len(bytes \o more) \in Nat /\ Len(bytes \o more) >= Len(bytes)
    BY <1>1, LenProperties, ConcatProperties
  <2>3. ~(Len(bytes \o more) < 40) /\ ~(total > Len(bytes \o more))
    <3> HIDE DEF total
    <3> QED BY <1>1, <1>2, <1>3, <1>4, <2>2
  <2>4. Walk(bytes \o more, total) = found
    BY <1>5
  <2> HIDE DEF found
  <2>5. IPv6(bytes \o more) = Transport(bytes \o more, found[2], found[1], total)
    <3> HIDE DEF total
    <3> QED BY <1>2, <2>1, <2>3, <2>4, Zenon DEF IPv6
  <2> HIDE DEF total
  <2>6. Transport(bytes \o more, found[2], found[1], total)
          = Transport(bytes, found[2], found[1], total)
    BY <1>2, <1>3, <1>4, <1>5, TransportFits
  <2> QED BY <1>2, <2>5, <2>6
<1> HIDE DEF total, found
<1>7. IPv6(bytes) \in Parsed(Len(bytes))
  BY <1>2, <1>3, <1>4, <1>5, TransportFits
<1> QED BY <1>6, <1>7

\* Whatever bytes are captured, a packet that is parsed is of TCP or UDP, its ports are 16 bits
\* wide, and its payload is no longer than the buffer and never negative: the subtraction that
\* saturates in the code never has to (parse_ipv4, parse_ipv6).
THEOREM ParsedFits ==
  ASSUME NEW bytes \in Seq(Byte), NEW ipv6 \in BOOLEAN, Parse(bytes, ipv6) # Unparsed
  PROVE  Parse(bytes, ipv6) \in Parsed(Len(bytes))
BY IPv4Fits, IPv6Fits DEF Parse

\* What follows a packet in its buffer, a frame's padding for one, changes nothing of what is
\* parsed: neither the ports nor the length of the payload (IpPacket::parse).
THEOREM PaddingIgnored ==
  ASSUME NEW bytes \in Seq(Byte), NEW ipv6 \in BOOLEAN, Parse(bytes, ipv6) # Unparsed,
         NEW more \in Seq(Byte)
  PROVE  Parse(bytes \o more, ipv6) = Parse(bytes, ipv6)
BY IPv4Fits, IPv6Fits DEF Parse

-----------------------------------------------------------------------------
(***************************************************************************)
(* The table of TCP connections, row by row and byte by byte.              *)
(***************************************************************************)
LEMMA Powers == 2^8 = 256 /\ 2^16 = 65536 /\ 2^24 = 16777216
BY SMT

LEMMA Longs ==
  ASSUME NEW n \in Nat
  PROVE  n \in Long <=> n < 256 * 16777216
<1>1. n \in Long <=> n \div 2^24 \in Byte
  BY Zenon DEF Long
<1>2. n \div 2^24 = n \div 16777216
  BY SMT, Powers
<1>3. n \div 16777216 \in 0 .. 255 <=> n < 256 * 16777216
  BY SMT
<1> QED BY SMT, <1>1, <1>2, <1>3 DEF Byte

\* Numbers and bytes, in the machine's order and in the network's.
LEMMA LongBytes ==
  ASSUME NEW n \in Long
  PROVE  /\ Bytes32(n) \in Octets
         /\ U32(Bytes32(n), 0) = n
<1>1. n \in Nat /\ n < 256 * 16777216
  BY SMT, Longs DEF Long
<1>2. Bytes32(n) = <<n % 256, (n \div 256) % 256, (n \div 65536) % 256, n \div 16777216>>
  BY SMT, Powers DEF Bytes32
<1>3. /\ n % 256 \in 0 .. 255 /\ (n \div 256) % 256 \in 0 .. 255
      /\ (n \div 65536) % 256 \in 0 .. 255 /\ n \div 16777216 \in 0 .. 255
  BY SMT, <1>1
<1>4. (n % 256) + (256 * ((n \div 256) % 256)) + (65536 * ((n \div 65536) % 256))
        + (16777216 * (n \div 16777216)) = n
  BY SMT, <1>1
<1>5. U32(Bytes32(n), 0) = n
  BY SMT, <1>2, <1>4, Powers DEF U32
<1> QED BY SMT, <1>2, <1>3, <1>5 DEF Octets, Byte

LEMMA BytesLong ==
  ASSUME NEW a \in Octets
  PROVE  /\ U32(a, 0) \in Long
         /\ Bytes32(U32(a, 0)) = a
<1>1. PICK p \in Byte, q \in Byte, r \in Byte, s \in Byte : a = <<p, q, r, s>>
  BY SMT DEF Octets
<1>2. p \in 0 .. 255 /\ q \in 0 .. 255 /\ r \in 0 .. 255 /\ s \in 0 .. 255
  BY DEF Byte
<1> DEFINE m == r + (256 * s)
           k == q + (256 * m)
           n == p + (256 * k)
<1>3. U32(a, 0) = n
  BY SMT, <1>1, <1>2, Powers DEF U32
<1>4. m \in Nat /\ m < 65536 /\ m % 256 = r /\ m \div 256 = s
  BY <1>2
<1> HIDE DEF m
<1>5. k \in Nat /\ k < 16777216 /\ k % 256 = q /\ k \div 256 = m
  BY SMT, <1>2, <1>4
<1> HIDE DEF k
<1>6. n \in Nat /\ n < 256 * 16777216 /\ n % 256 = p /\ n \div 256 = k
  BY SMT, <1>2, <1>5
<1> HIDE DEF n
<1>7. n \div 65536 = m
  BY SMT, <1>4, <1>5, <1>6
<1>8. n \div 16777216 = s
  BY SMT, <1>4, <1>6, <1>7
<1>9. Bytes32(n) = <<p, q, r, s>>
  BY SMT, <1>4, <1>5, <1>6, <1>7, <1>8, Powers DEF Bytes32
<1>10. n \in Long
  BY SMT, <1>6, Longs
<1> QED BY <1>1, <1>3, <1>9, <1>10

LEMMA Halves ==
  ASSUME NEW n \in Nat, n <= 65535
  PROVE  n \div 256 \in 0 .. 255 /\ n % 256 \in 0 .. 255 /\ n = (256 * (n \div 256)) + (n % 256)
BY SMTT(30)

LEMMA PortBytes ==
  ASSUME NEW port \in Word, NEW junk \in Byte
  PROVE  /\ Port32(port, junk) \in Octets
         /\ PortOf(U32(Port32(port, junk), 0)) = port
         /\ Bytes32(MibPort(port)) = Port32(port, 0)
<1> DEFINE high == port \div 256
           low == port % 256
           raw == high + (256 * low) + (65536 * junk) + (16777216 * junk)
<1>1. port \in Nat /\ port <= 65535 /\ junk \in 0 .. 255
  BY SMT DEF Word, MaxWord, Byte
<1>2. high \in 0 .. 255 /\ low \in 0 .. 255 /\ port = (256 * high) + low
  BY <1>1, Halves
<1>3. Port32(port, junk) = <<high, low, junk, junk>> /\ Port32(port, 0) = <<high, low, 0, 0>>
  BY SMT, Powers DEF Port32
<1>4. U32(Port32(port, junk), 0) = raw
  BY SMT, <1>3, Powers DEF U32
<1> HIDE DEF high, low
<1>5. raw % 65536 = high + (256 * low)
  BY SMT, <1>1, <1>2
<1> HIDE DEF raw
<1>6. PortOf(raw) = port
  <2>1. (high + (256 * low)) % 256 = high /\ (high + (256 * low)) \div 256 = low
    BY SMT, <1>2
  <2> QED BY SMT, <1>2, <1>5, <2>1, Powers DEF PortOf, Swapped
<1>7. Bytes32(MibPort(port)) = <<high, low, 0, 0>>
  <2>1. port % 256 = low /\ port \div 256 = high
    BY SMT DEF low, high
  <2>2. MibPort(port) = (256 * low) + high
    BY SMT, <2>1, Powers DEF MibPort, Swapped
  <2> DEFINE m == (256 * low) + high
  <2>3. m % 256 = high /\ (m \div 256) % 256 = low /\ (m \div 65536) % 256 = 0 /\ m \div 16777216 = 0
    BY SMT, <1>2
  <2> HIDE DEF m
  <2>4. Bytes32(m) = <<high, low, 0, 0>>
    BY SMT, <2>3, Powers DEF Bytes32
  <2> QED BY SMT, <2>2, <2>4 DEF m
<1> QED BY SMT, <1>1, <1>2, <1>3, <1>4, <1>6, <1>7 DEF Octets, Byte

\* Where four bytes stand in a row.
LEMMA OctetsSeq ==
  ASSUME NEW a \in Octets
  PROVE  a \in Seq(Byte) /\ Len(a) = 4
<1>1. PICK p \in Byte, q \in Byte, r \in Byte, s \in Byte : a = <<p, q, r, s>>
  BY SMT DEF Octets
<1>2. <<p, q, r, s>> \in Seq(Byte) /\ Len(<<p, q, r, s>>) = 4
  OBVIOUS
<1> QED BY <1>1, <1>2

LEMMA Before ==
  ASSUME NEW s \in Seq(Byte), NEW t \in Seq(Byte), NEW i \in Nat, i + 4 <= Len(s)
  PROVE  U32(s \o t, i) = U32(s, i)
<1>1. Len(s) \in Nat
  BY LenProperties
<1>2. \A j \in {i + 1, i + 2, i + 3, i + 4} : j \in 1 .. Len(s)
  BY <1>1
<1>3. \A j \in 1 .. Len(s) : (s \o t)[j] = s[j]
  BY <1>1, ConcatProperties
<1> QED BY SMT, <1>2, <1>3 DEF U32

LEMMA Extended ==
  ASSUME NEW s \in Seq(Byte), NEW a \in Octets
  PROVE  /\ s \o a \in Seq(Byte) /\ Len(s \o a) = Len(s) + 4
         /\ U32(s \o a, Len(s)) = U32(a, 0)
         /\ \A i \in Nat : i + 4 <= Len(s) => U32(s \o a, i) = U32(s, i)
<1>1. Len(s) \in Nat /\ a \in Seq(Byte) /\ Len(a) = 4
  BY LenProperties, OctetsSeq
<1>2. /\ s \o a \in Seq(Byte) /\ Len(s \o a) = Len(s) + Len(a)
      /\ \A i \in 1 .. Len(s) + Len(a) : (s \o a)[i] = IF i <= Len(s) THEN s[i] ELSE a[i - Len(s)]
  BY <1>1, ConcatProperties, Zenon
<1>3. ASSUME NEW i \in 1 .. 4 PROVE (s \o a)[Len(s) + i] = a[i]
  <2>1. Len(s) + i \in 1 .. Len(s) + Len(a) /\ ~(Len(s) + i <= Len(s)) /\ (Len(s) + i) - Len(s) = i
    BY <1>1
  <2> QED BY <1>2, <2>1
<1>4. U32(s \o a, Len(s)) = U32(a, 0)
  <2>1. 1 \in 1 .. 4 /\ 2 \in 1 .. 4 /\ 3 \in 1 .. 4 /\ 4 \in 1 .. 4
    OBVIOUS
  <2>2. /\ (s \o a)[Len(s) + 1] = a[1] /\ (s \o a)[Len(s) + 2] = a[2]
        /\ (s \o a)[Len(s) + 3] = a[3] /\ (s \o a)[Len(s) + 4] = a[4]
    BY <1>3, <2>1, Zenon
  <2>3. 0 + 1 = 1 /\ 0 + 2 = 2 /\ 0 + 3 = 3 /\ 0 + 4 = 4
    OBVIOUS
  <2> QED BY <2>2, <2>3, Zenon DEF U32
<1>5. \A i \in Nat : i + 4 <= Len(s) => U32(s \o a, i) = U32(s, i)
  BY <1>1, Before
<1> QED BY <1>1, <1>2, <1>4, <1>5

\* A row has four bytes of each of six parts.
Parts(row, a, b, c, d, e, f) ==
  /\ U32(row, 0) = U32(a, 0) /\ U32(row, 4) = U32(b, 0) /\ U32(row, 8) = U32(c, 0)
  /\ U32(row, 12) = U32(d, 0) /\ U32(row, 16) = U32(e, 0) /\ U32(row, 20) = U32(f, 0)

LEMMA RowParts ==
  ASSUME NEW a \in Octets, NEW b \in Octets, NEW c \in Octets,
         NEW d \in Octets, NEW e \in Octets, NEW f \in Octets
  PROVE  /\ Parts(a \o b \o c \o d \o e \o f, a, b, c, d, e, f)
         /\ a \o b \o c \o d \o e \in Seq(Byte) /\ Len(a \o b \o c \o d \o e) = 20
         /\ a \o b \o c \o d \o e \o f \in Seq(Byte) /\ Len(a \o b \o c \o d \o e \o f) = 24
<1>1. /\ a \in Seq(Byte) /\ b \in Seq(Byte) /\ c \in Seq(Byte)
      /\ d \in Seq(Byte) /\ e \in Seq(Byte) /\ f \in Seq(Byte)
      /\ Len(a) = 4 /\ Len(b) = 4 /\ Len(c) = 4 /\ Len(d) = 4 /\ Len(e) = 4 /\ Len(f) = 4
  BY OctetsSeq
<1> DEFINE s2 == a \o b
           s3 == s2 \o c
           s4 == s3 \o d
           s5 == s4 \o e
           s6 == s5 \o f
<1>2. /\ s2 \in Seq(Byte) /\ Len(s2) = 8 /\ U32(s2, 4) = U32(b, 0)
      /\ U32(s2, 0) = U32(a, 0)
  <2>1. /\ s2 \in Seq(Byte) /\ Len(s2) = Len(a) + 4
        /\ U32(s2, Len(a)) = U32(b, 0)
        /\ \A i \in Nat : i + 4 <= Len(a) => U32(s2, i) = U32(a, i)
    BY <1>1, Extended
  <2> HIDE DEF s2
  <2> QED BY <1>1, <2>1
<1> HIDE DEF s2
<1>3. /\ s3 \in Seq(Byte) /\ Len(s3) = 12 /\ U32(s3, 8) = U32(c, 0)
      /\ U32(s3, 0) = U32(s2, 0) /\ U32(s3, 4) = U32(s2, 4)
  <2>1. /\ s3 \in Seq(Byte) /\ Len(s3) = Len(s2) + 4
        /\ U32(s3, Len(s2)) = U32(c, 0)
        /\ \A i \in Nat : i + 4 <= Len(s2) => U32(s3, i) = U32(s2, i)
    BY <1>1, <1>2, Extended
  <2> HIDE DEF s3
  <2> QED BY <1>1, <1>2, <2>1
<1> HIDE DEF s3
<1>4. /\ s4 \in Seq(Byte) /\ Len(s4) = 16 /\ U32(s4, 12) = U32(d, 0)
      /\ U32(s4, 0) = U32(s3, 0) /\ U32(s4, 4) = U32(s3, 4) /\ U32(s4, 8) = U32(s3, 8)
  <2>1. /\ s4 \in Seq(Byte) /\ Len(s4) = Len(s3) + 4
        /\ U32(s4, Len(s3)) = U32(d, 0)
        /\ \A i \in Nat : i + 4 <= Len(s3) => U32(s4, i) = U32(s3, i)
    BY <1>1, <1>3, Extended
  <2> HIDE DEF s4
  <2> QED BY <1>1, <1>3, <2>1
<1> HIDE DEF s4
<1>5. /\ s5 \in Seq(Byte) /\ Len(s5) = 20 /\ U32(s5, 16) = U32(e, 0)
      /\ U32(s5, 0) = U32(s4, 0) /\ U32(s5, 4) = U32(s4, 4) /\ U32(s5, 8) = U32(s4, 8)
      /\ U32(s5, 12) = U32(s4, 12)
  <2>1. /\ s5 \in Seq(Byte) /\ Len(s5) = Len(s4) + 4
        /\ U32(s5, Len(s4)) = U32(e, 0)
        /\ \A i \in Nat : i + 4 <= Len(s4) => U32(s5, i) = U32(s4, i)
    BY <1>1, <1>4, Extended
  <2> HIDE DEF s5
  <2> QED BY <1>1, <1>4, <2>1
<1> HIDE DEF s5
<1>6. /\ s6 \in Seq(Byte) /\ Len(s6) = 24 /\ U32(s6, 20) = U32(f, 0)
      /\ U32(s6, 0) = U32(s5, 0) /\ U32(s6, 4) = U32(s5, 4) /\ U32(s6, 8) = U32(s5, 8)
      /\ U32(s6, 12) = U32(s5, 12) /\ U32(s6, 16) = U32(s5, 16)
  <2>1. /\ s6 \in Seq(Byte) /\ Len(s6) = Len(s5) + 4
        /\ U32(s6, Len(s5)) = U32(f, 0)
        /\ \A i \in Nat : i + 4 <= Len(s5) => U32(s6, i) = U32(s5, i)
    BY <1>1, <1>5, Extended
  <2> HIDE DEF s6
  <2> QED BY <1>1, <1>5, <2>1
<1> HIDE DEF s6
<1>7. /\ U32(s6, 0) = U32(a, 0) /\ U32(s6, 4) = U32(b, 0) /\ U32(s6, 8) = U32(c, 0)
      /\ U32(s6, 12) = U32(d, 0) /\ U32(s6, 16) = U32(e, 0) /\ U32(s6, 20) = U32(f, 0)
  BY <1>2, <1>3, <1>4, <1>5, <1>6
<1> QED BY <1>5, <1>6, <1>7, Zenon DEF Parts, s2, s3, s4, s5, s6

-----------------------------------------------------------------------------
\* What the list should say of a connection over IPv4.
Listed(c) ==
  [key |-> [local |-> [addr |-> c.local, port |-> c.local_port],
            remote |-> [addr |-> c.remote, port |-> c.remote_port], ipv6 |-> FALSE],
   pid |-> c.pid, state |-> StateOf(c.state)]

LEMMA TruthIs == \A c \in Socket(FALSE) : Truth(c) = Listed(c)
<1>1. \A c \in Socket(FALSE) : c.ipv6 = FALSE
  BY DEF Socket
<1> QED BY <1>1, Zenon DEF Truth, Listed

\* A row of the system's table is read as the connection that it is of, with every address, port,
\* state and process number, whatever is in the unused half of a port (parse_tcp_connections,
\* parse_mib_port, ipv4_from_mib_addr).
THEOREM RowRead ==
  ASSUME NEW c \in Socket(FALSE), NEW junk \in Byte
  PROVE  Connection(SystemRow(c, junk), FALSE) = Listed(c)
<1> DEFINE row == SystemRow(c, junk)
<1>1. /\ c.ipv6 = FALSE /\ c.local \in Octets /\ c.remote \in Octets
      /\ c.local_port \in Word /\ c.remote_port \in Word /\ c.state \in Long /\ c.pid \in Long
  BY DEF Socket, Address
<1>2. row = Bytes32(c.state) \o c.local \o Port32(c.local_port, junk) \o c.remote
              \o Port32(c.remote_port, junk) \o Bytes32(c.pid)
  BY <1>1, Zenon DEF SystemRow
<1> HIDE DEF row
<1>3. /\ Bytes32(c.state) \in Octets /\ Bytes32(c.pid) \in Octets
      /\ U32(Bytes32(c.state), 0) = c.state /\ U32(Bytes32(c.pid), 0) = c.pid
  BY <1>1, LongBytes
<1>4. /\ Port32(c.local_port, junk) \in Octets /\ Port32(c.remote_port, junk) \in Octets
      /\ PortOf(U32(Port32(c.local_port, junk), 0)) = c.local_port
      /\ PortOf(U32(Port32(c.remote_port, junk), 0)) = c.remote_port
  BY <1>1, PortBytes
<1>5. Bytes32(U32(c.local, 0)) = c.local /\ Bytes32(U32(c.remote, 0)) = c.remote
  BY <1>1, BytesLong
<1>6. /\ U32(row, 0) = c.state /\ U32(row, 20) = c.pid
      /\ IPv4Of(U32(row, 4)) = c.local /\ IPv4Of(U32(row, 12)) = c.remote
      /\ PortOf(U32(row, 8)) = c.local_port /\ PortOf(U32(row, 16)) = c.remote_port
  <2>1. /\ U32(row, 0) = U32(Bytes32(c.state), 0) /\ U32(row, 4) = U32(c.local, 0)
        /\ U32(row, 8) = U32(Port32(c.local_port, junk), 0) /\ U32(row, 12) = U32(c.remote, 0)
        /\ U32(row, 16) = U32(Port32(c.remote_port, junk), 0)
        /\ U32(row, 20) = U32(Bytes32(c.pid), 0)
    <3> DEFINE A == Bytes32(c.state)
               B == c.local
               C == Port32(c.local_port, junk)
               D == c.remote
               E == Port32(c.remote_port, junk)
               F == Bytes32(c.pid)
    <3>1. A \in Octets /\ B \in Octets /\ C \in Octets /\ D \in Octets /\ E \in Octets /\ F \in Octets
      BY <1>1, <1>3, <1>4
    <3>2. row = A \o B \o C \o D \o E \o F
      BY <1>2
    <3> HIDE DEF A, B, C, D, E, F
    <3>3. Parts(row, A, B, C, D, E, F)
      BY <3>1, <3>2, RowParts, Zenon
    <3> QED BY <3>3, Zenon DEF Parts, A, B, C, D, E, F
  <2> QED BY <1>3, <1>4, <1>5, <2>1, Zenon DEF IPv4Of
<1>7. Connection(row, FALSE) =
        [key |-> [local |-> [addr |-> IPv4Of(U32(row, 4)), port |-> PortOf(U32(row, 8))],
                  remote |-> [addr |-> IPv4Of(U32(row, 12)), port |-> PortOf(U32(row, 16))],
                  ipv6 |-> FALSE],
         pid |-> U32(row, 20), state |-> StateOf(U32(row, 0))]
  BY DEF Connection, Layout
<1> QED BY <1>6, <1>7, Zenon DEF Listed, row

\* The text of a connection comes back from the window as the connection.
LEMMA TextReturns ==
  ASSUME NEW c \in Socket(FALSE)
  PROVE  Decoded(Encoded(Listed(c).key)) = Listed(c).key
BY DEF Decoded, Encoded, Listed

\* The row by which a connection is closed, part by part.
LEMMA ClosingIs ==
  ASSUME NEW c \in Socket(FALSE)
  PROVE  Closing(Listed(c).key) = Bytes32(12) \o c.local \o Port32(c.local_port, 0) \o c.remote
                                    \o Port32(c.remote_port, 0)
<1> DEFINE id == Listed(c).key
<1>1. /\ c.local \in Octets /\ c.remote \in Octets
      /\ c.local_port \in Word /\ c.remote_port \in Word
  BY DEF Socket, Address
<1>2. /\ id.local.addr = c.local /\ id.local.port = c.local_port
      /\ id.remote.addr = c.remote /\ id.remote.port = c.remote_port
  BY DEF Listed
<1> HIDE DEF id
<1>3. Bytes32(MibAddr(c.local)) = c.local /\ Bytes32(MibAddr(c.remote)) = c.remote
  BY <1>1, BytesLong DEF MibAddr
<1>4. 0 \in Byte
  BY DEF Byte
<1>5. /\ Bytes32(MibPort(c.local_port)) = Port32(c.local_port, 0)
      /\ Bytes32(MibPort(c.remote_port)) = Port32(c.remote_port, 0)
  BY <1>1, <1>4, PortBytes
<1> QED BY <1>2, <1>3, <1>5, Zenon DEF Closing, id

\* The row that disconnecting gives to the system is the one that the system itself would write
\* of the connection, as deleted and without a process: every byte of its addresses and ports is
\* back in its place (decode_id, mib_ipv4_addr, mib_port, close_tcp_connection).
THEOREM RowGivenBack ==
  ASSUME NEW c \in Socket(FALSE), NEW junk \in Byte
  PROVE  Closing(Decoded(Encoded(Connection(SystemRow(c, junk), FALSE).key))) \o Bytes32(0)
           = SystemRow([c EXCEPT !.state = 12, !.pid = 0], 0)
<1> DEFINE deleted == [c EXCEPT !.state = 12, !.pid = 0]
<1>1. Decoded(Encoded(Connection(SystemRow(c, junk), FALSE).key)) = Listed(c).key
  BY RowRead, TextReturns, Zenon
<1>2. /\ deleted.ipv6 = FALSE /\ deleted.local = c.local /\ deleted.local_port = c.local_port
      /\ deleted.remote = c.remote /\ deleted.remote_port = c.remote_port
      /\ deleted.state = 12 /\ deleted.pid = 0
  BY DEF Socket
<1> HIDE DEF deleted
<1>3. SystemRow(deleted, 0) = Bytes32(12) \o c.local \o Port32(c.local_port, 0) \o c.remote
                               \o Port32(c.remote_port, 0) \o Bytes32(0)
  BY <1>2, Zenon DEF SystemRow
<1> QED BY <1>1, <1>3, ClosingIs, Zenon DEF deleted

\* Disconnecting closes the connection that was asked for and no other: two connections whose
\* rows given to the system are the same have the same addresses and ports, the four things
\* that tell connections apart (close_tcp_connection).
THEOREM ClosesNoOther ==
  ASSUME NEW c \in Socket(FALSE), NEW d \in Socket(FALSE), NEW junk \in Byte, NEW other \in Byte,
         Closing(Decoded(Encoded(Connection(SystemRow(c, junk), FALSE).key)))
           = Closing(Decoded(Encoded(Connection(SystemRow(d, other), FALSE).key)))
  PROVE  /\ c.local = d.local /\ c.local_port = d.local_port
         /\ c.remote = d.remote /\ c.remote_port = d.remote_port
<1> DEFINE Deleted(s) == [s EXCEPT !.state = 12, !.pid = 0]
<1>1. SystemRow(Deleted(c), 0) = SystemRow(Deleted(d), 0)
  BY RowGivenBack, Zenon
<1>2. 0 \in Byte /\ 0 \in Long /\ 12 \in Long
  BY SMT, Longs DEF Byte
<1>3. ASSUME NEW s \in Socket(FALSE)
      PROVE  /\ Deleted(s) \in Socket(FALSE)
             /\ Listed(Deleted(s)).key = Listed(s).key
  <2>1. Deleted(s) \in Socket(FALSE)
    BY <1>2 DEF Socket, Address
  <2>2. /\ Deleted(s).local = s.local /\ Deleted(s).local_port = s.local_port
        /\ Deleted(s).remote = s.remote /\ Deleted(s).remote_port = s.remote_port
    BY DEF Socket, Address
  <2> HIDE DEF Deleted
  <2> QED BY <2>1, <2>2, Zenon DEF Listed
<1> HIDE DEF Deleted
<1>4. Listed(Deleted(c)) = Listed(Deleted(d))
  BY <1>1, <1>2, <1>3, RowRead, Zenon
<1>5. Listed(c).key = Listed(d).key
  BY <1>3, <1>4, Zenon
<1> QED BY <1>5 DEF Listed

-----------------------------------------------------------------------------
(***************************************************************************)
(* A whole table: where its rows are, what the list says, what is closed.  *)
(***************************************************************************)
LEMMA RowBytes ==
  ASSUME NEW c \in Socket(FALSE), NEW junk \in Byte
  PROVE  SystemRow(c, junk) \in Seq(Byte) /\ Len(SystemRow(c, junk)) = 24
<1>1. /\ c.ipv6 = FALSE /\ c.local \in Octets /\ c.remote \in Octets
      /\ c.local_port \in Word /\ c.remote_port \in Word /\ c.state \in Long /\ c.pid \in Long
  BY DEF Socket, Address
<1>2. SystemRow(c, junk) = Bytes32(c.state) \o c.local \o Port32(c.local_port, junk) \o c.remote
              \o Port32(c.remote_port, junk) \o Bytes32(c.pid)
  BY <1>1, Zenon DEF SystemRow
<1>3. /\ Bytes32(c.state) \in Octets /\ Bytes32(c.pid) \in Octets
      /\ Port32(c.local_port, junk) \in Octets /\ Port32(c.remote_port, junk) \in Octets
  BY <1>1, LongBytes, PortBytes
<1> DEFINE A == Bytes32(c.state)
           B == c.local
           C == Port32(c.local_port, junk)
           D == c.remote
           E == Port32(c.remote_port, junk)
           F == Bytes32(c.pid)
<1>4. A \in Octets /\ B \in Octets /\ C \in Octets /\ D \in Octets /\ E \in Octets /\ F \in Octets
  BY <1>1, <1>3
<1>5. SystemRow(c, junk) = A \o B \o C \o D \o E \o F
  BY <1>2
<1> HIDE DEF A, B, C, D, E, F
<1>6. A \o B \o C \o D \o E \o F \in Seq(Byte) /\ Len(A \o B \o C \o D \o E \o F) = 24
  BY <1>4, RowParts
<1> QED BY <1>5, <1>6, Zenon

\* The row of a button is the one that the system would write.
LEMMA ClosingDeletes ==
  ASSUME NEW c \in Socket(FALSE)
  PROVE  Closing(Listed(c).key) = Deleting(c)
<1> DEFINE A == Bytes32(12)
           B == c.local
           C == Port32(c.local_port, 0)
           D == c.remote
           E == Port32(c.remote_port, 0)
           F == Bytes32(c.pid)
           deleted == [c EXCEPT !.state = 12]
<1>1. 0 \in Byte /\ 12 \in Long
  BY SMT, Longs DEF Byte
<1>2. /\ c.local \in Octets /\ c.remote \in Octets /\ c.pid \in Long
      /\ c.local_port \in Word /\ c.remote_port \in Word
  BY DEF Socket, Address
<1>3. A \in Octets /\ B \in Octets /\ C \in Octets /\ D \in Octets /\ E \in Octets /\ F \in Octets
  BY <1>1, <1>2, LongBytes, PortBytes
<1>4. /\ deleted.ipv6 = FALSE /\ deleted.local = c.local /\ deleted.local_port = c.local_port
      /\ deleted.remote = c.remote /\ deleted.remote_port = c.remote_port
      /\ deleted.state = 12 /\ deleted.pid = c.pid
  BY DEF Socket
<1>5. Deleting(c) = SubSeq(A \o B \o C \o D \o E \o F, 1, 20)
  <2> HIDE DEF deleted
  <2>1. SystemRow(deleted, 0) = A \o B \o C \o D \o E \o F
    BY <1>4, Zenon DEF SystemRow
  <2> HIDE DEF A, B, C, D, E, F
  <2> QED BY <2>1, Zenon DEF Deleting, deleted
<1>6. Closing(Listed(c).key) = A \o B \o C \o D \o E
  BY ClosingIs, Zenon
<1> HIDE DEF A, B, C, D, E, F
<1> DEFINE front == A \o B \o C \o D \o E
<1>7. front \in Seq(Byte) /\ Len(front) = 20 /\ F \in Seq(Byte)
  BY <1>3, RowParts, OctetsSeq
<1>8. A \o B \o C \o D \o E \o F = front \o F
  OBVIOUS
<1> HIDE DEF front
<1>9. SubSeq(front \o F, 1, 20) = front
  <2>1. 1 \in 1 .. Len(front) /\ 20 \in 1 .. Len(front)
    BY <1>7
  <2>2. SubSeq(front \o F, 1, 20) = SubSeq(front, 1, 20)
    BY <1>7, <2>1, SubSeqOfConcat1
  <2> QED BY <1>7, <2>2, SubSeqFull
<1> QED BY <1>5, <1>6, <1>8, <1>9 DEF front

LEMMA FilledSeq ==
  ASSUME NEW n \in Nat, NEW b \in Byte
  PROVE  Filled(n, b) \in Seq(Byte) /\ Len(Filled(n, b)) = n
BY DEF Filled

\* The place of a byte in the rows of a table.
LEMMA Division ==
  ASSUME NEW q \in Nat, NEW r \in 0 .. 23
  PROVE  (24 * q + r) \div 24 = q /\ (24 * q + r) % 24 = r
OBVIOUS

LEMMA RowOfBytes ==
  ASSUME NEW t \in TableOf(FALSE), NEW i \in Nat \ {0}
  PROVE  RowOf(t, i) \in Seq(Byte) /\ Len(RowOf(t, i)) = 24
<1>1. t.ipv6 = FALSE /\ t.sockets \in Seq(Socket(FALSE)) /\ t.junk \in Byte
  BY DEF TableOf
<1>2. CASE i <= Len(t.sockets)
  <2>1. t.sockets[i] \in Socket(FALSE)
    <3>1. i \in 1 .. Len(t.sockets)
      BY <1>1, <1>2, LenProperties
    <3> QED BY <1>1, <3>1, ElementOfSeq, Zenon
  <2> QED BY <1>1, <1>2, <2>1, RowBytes DEF RowOf
<1>3. CASE ~(i <= Len(t.sockets))
  BY <1>1, <1>3, FilledSeq DEF RowOf, RowSize
<1> QED BY <1>2, <1>3

LEMMA TableIs ==
  ASSUME NEW t \in TableOf(FALSE)
  PROVE  /\ TableBytes(t) \in Seq(Byte) /\ Len(TableBytes(t)) = t.length
         /\ t.length >= 4 => U32(TableBytes(t), 0) = Len(t.sockets)
         /\ \A i \in 1 .. Len(t.sockets) : 4 + 24 * i <= t.length =>
              Part(TableBytes(t), 4 + (i - 1) * 24, 24) = SystemRow(t.sockets[i], t.junk)
<1> DEFINE n == Len(t.sockets)
           length == t.length
           bytes == TableBytes(t)
           head == Bytes32(n)
<1>1. /\ t.ipv6 = FALSE /\ t.sockets \in Seq(Socket(FALSE)) /\ t.junk \in Byte
      /\ length \in Nat /\ n \in Long /\ n \in Nat
  BY LenProperties DEF TableOf
<1>2. head \in Octets /\ head \in Seq(Byte) /\ Len(head) = 4 /\ U32(head, 0) = n
  BY <1>1, LongBytes, OctetsSeq
<1>3. bytes = [j \in 1 .. length |->
                 IF j <= 4 THEN head[j]
                 ELSE RowOf(t, ((j - 5) \div 24) + 1)[((j - 5) % 24) + 1]]
  BY <1>1, Zenon DEF TableBytes, RowSize
<1> HIDE DEF n, length, bytes, head
<1>4. ASSUME NEW j \in 1 .. length
      PROVE  bytes[j] \in Byte
  <2>1. CASE j <= 4
    <3>1. j \in 1 .. Len(head)
      BY <1>2, <2>1
    <3> QED BY <1>2, <1>3, <2>1, <3>1, ElementOfSeq
  <2>2. CASE ~(j <= 4)
    <3> DEFINE i == ((j - 5) \div 24) + 1
               k == ((j - 5) % 24) + 1
    <3>1. i \in Nat \ {0} /\ k \in 1 .. 24
      BY <1>1, <2>2
    <3>2. bytes[j] = RowOf(t, i)[k]
      BY <1>3, <2>2
    <3> HIDE DEF i, k
    <3> QED BY <3>1, <3>2, RowOfBytes, ElementOfSeq
  <2> QED BY <2>1, <2>2
<1>5. bytes \in Seq(Byte) /\ Len(bytes) = length
  <2>1. bytes \in [1 .. length -> Byte]
    BY <1>3, <1>4
  <2> QED BY <1>1, <2>1
<1>6. ASSUME length >= 4 PROVE U32(bytes, 0) = n
  <2>1. \A j \in 1 .. 4 : bytes[j] = head[j]
    BY <1>1, <1>3, <1>6
  <2>2. U32(bytes, 0) = U32(head, 0)
    BY <2>1 DEF U32
  <2> QED BY <1>2, <2>2
<1>7. ASSUME NEW i \in 1 .. n, 4 + 24 * i <= length
      PROVE  Part(bytes, 4 + (i - 1) * 24, 24) = SystemRow(t.sockets[i], t.junk)
  <2> DEFINE row == SystemRow(t.sockets[i], t.junk)
             a == 4 + (i - 1) * 24
             part == SubSeq(bytes, a + 1, a + 24)
  <2>1. i \in Nat \ {0} /\ a \in Nat /\ a + 24 <= length
    BY <1>1, <1>7
  <2>2. row = RowOf(t, i) /\ row \in Seq(Byte) /\ Len(row) = 24
    <3>1. row = RowOf(t, i)
      BY <1>7 DEF RowOf, n
    <3> HIDE DEF row
    <3> QED BY <2>1, <3>1, RowOfBytes
  <2> HIDE DEF row
  <2>3. ASSUME NEW k \in 1 .. 24 PROVE bytes[a + k] = row[k]
    <3>1. a + k \in 1 .. length /\ ~(a + k <= 4)
      BY <1>1, <2>1
    <3>2. ((a + k) - 5) = 24 * (i - 1) + (k - 1) /\ i - 1 \in Nat /\ k - 1 \in 0 .. 23
      BY <2>1
    <3>3. ((a + k) - 5) \div 24 = i - 1 /\ ((a + k) - 5) % 24 = k - 1
      BY <3>2, Division, Zenon
    <3>4. (i - 1) + 1 = i /\ (k - 1) + 1 = k
      BY <2>1
    <3> QED BY <1>3, <2>2, <3>1, <3>3, <3>4, Zenon
  <2>4. \A j \in a + 1 .. a + 24 : bytes[j] \in Byte
    BY <1>1, <1>4, <2>1
  <2> HIDE DEF a
  <2>5. /\ part \in Seq(Byte) /\ Len(part) = 24
        /\ \A k \in 1 .. 24 : part[k] = bytes[a + k]
    <3>1. a + 1 \in Int /\ a + 24 \in Int /\ a + 1 <= a + 24 /\ (a + 24) - (a + 1) + 1 = 24
          /\ \A k \in 1 .. 24 : (a + 1) + k - 1 = a + k
      BY <2>1
    <3>2. /\ part \in Seq(Byte) /\ Len(part) = (a + 24) - (a + 1) + 1
          /\ \A k \in 1 .. (a + 24) - (a + 1) + 1 : part[k] = bytes[(a + 1) + k - 1]
      BY <2>4, <3>1, SubSeqProperties
    <3> HIDE DEF part
    <3> QED BY <3>1, <3>2
  <2> HIDE DEF part
  <2>6. part = row
    <3>1. \A k \in 1 .. Len(part) : part[k] = row[k]
      BY <2>3, <2>5
    <3> QED BY <2>2, <2>5, <3>1, SeqEqual, Zenon
  <2> QED BY <2>6, Zenon DEF Part, part, row, a
<1> QED BY <1>5, <1>6, <1>7 DEF n, length, bytes

\* What is shown of a socket is decided by what the list says of it.
Shown(c) == Visible(c.state) /\ c.pid # 0 /\ c.key.local.port # 0

LEMMA ShownIs ==
  ASSUME NEW s \in Socket(FALSE)
  PROVE  Shown(Truth(s)) <=> Visible(StateOf(s.state)) /\ s.pid # 0 /\ s.local_port # 0
<1>1. /\ Listed(s).state = StateOf(s.state) /\ Listed(s).pid = s.pid
      /\ Listed(s).key.local.port = s.local_port
  BY DEF Listed
<1> QED BY <1>1, TruthIs, Zenon DEF Shown

\* The rows that are read are those that are there as a whole.
LEMMA RowsThere ==
  ASSUME NEW n \in Nat, NEW length \in Nat, length >= 4, NEW i \in Nat
  PROVE  LET there == (length - 4) \div 24
             rows == IF n <= there THEN n ELSE there
         IN  i \in 1 .. rows <=> i \in 1 .. n /\ 4 + i * 24 <= length
OBVIOUS

\* The list has the connection of every row that is there as a whole, and nothing that is not one
\* of them, whatever the number of rows and whether the buffer has more than the table says or,
\* the table having grown since its size was asked for, less (parse_tcp_connections).
THEOREM TableRead ==
  ASSUME NEW t \in TableOf(FALSE)
  PROVE  ListRight(t)
<1> DEFINE n == Len(t.sockets)
           length == t.length
           bytes == TableBytes(t)
           row(i) == Part(bytes, 4 + (i - 1) * 24, 24)
           there == (length - 4) \div 24
           rows == IF n <= there THEN n ELSE there
           Fits(i) == i \in 1 .. n /\ 4 + i * 24 <= length
<1>1. /\ t.ipv6 = FALSE /\ t.sockets \in Seq(Socket(FALSE)) /\ t.junk \in Byte
      /\ length \in Nat /\ n \in Nat
  BY LenProperties DEF TableOf
<1>2. /\ Len(bytes) = length /\ (length >= 4 => U32(bytes, 0) = n)
      /\ \A i \in 1 .. n : 4 + 24 * i <= length => row(i) = SystemRow(t.sockets[i], t.junk)
  BY TableIs
<1>3. \A i \in 1 .. n : t.sockets[i] \in Socket(FALSE)
  BY <1>1, ElementOfSeq
<1>4. ListedSockets(t) = {t.sockets[i] : i \in {i \in 1 .. n :
        4 + i * 24 <= length
          /\ Visible(StateOf(t.sockets[i].state)) /\ t.sockets[i].pid # 0 /\ t.sockets[i].local_port # 0}}
  BY <1>1, Zenon DEF ListedSockets, RowSize
<1>5. \A s : s \in ListedSockets(t) <=> \E i \in Nat : Fits(i) /\ s = t.sockets[i] /\ Shown(Truth(s))
  <2> DEFINE socket(i) == t.sockets[i]
             Open(i) == Visible(StateOf(socket(i).state)) /\ socket(i).pid # 0 /\ socket(i).local_port # 0
  <2>1. \A i \in 1 .. n : Shown(Truth(socket(i))) <=> Open(i)
    BY <1>3, ShownIs, Zenon
  <2>2. ListedSockets(t) = {socket(i) : i \in {i \in 1 .. n : 4 + i * 24 <= length /\ Open(i)}}
    BY <1>4, Zenon
  <2>3. \A i \in 1 .. n : i \in Nat
    BY <1>1
  <2> HIDE DEF n, length, socket, Open
  <2>4. \A s : s \in ListedSockets(t) <=> \E i \in Nat : Fits(i) /\ s = socket(i) /\ Shown(Truth(s))
    BY <2>1, <2>2, <2>3
  <2> QED BY <2>4, Zenon DEF socket
<1> HIDE DEF n, length, bytes
<1>6. CASE length < 4
  <2>1. ListedSockets(t) = {}
    <3>1. \A i \in Nat : ~Fits(i)
      BY <1>1, <1>6
    <3> QED BY <1>5, <3>1
  <2>2. Connections(bytes, FALSE) = {}
    BY <1>2, <1>6 DEF Connections
  <2> QED BY <1>1, <2>1, <2>2 DEF ListRight, bytes
<1>7. CASE ~(length < 4)
  <2>1. length >= 4
    BY <1>1, <1>7
  <2>2. \A i \in Nat : i \in 1 .. rows <=> Fits(i)
    BY <1>1, <2>1, RowsThere
  <2>3. Connections(bytes, FALSE) = {c \in {Connection(row(i), FALSE) : i \in 1 .. rows} : Shown(c)}
    <3>1. Layout(FALSE).size = 24
      BY DEF Layout
    <3> QED BY <1>2, <1>7, <2>1, <3>1, Zenon DEF Connections, Shown
  <2>4. \A i \in Nat : Fits(i) => Connection(row(i), FALSE) = Truth(t.sockets[i])
    <3> SUFFICES ASSUME NEW i \in Nat, Fits(i) PROVE Connection(row(i), FALSE) = Truth(t.sockets[i])
      OBVIOUS
    <3>1. t.sockets[i] \in Socket(FALSE)
      BY <1>3
    <3>2. row(i) = SystemRow(t.sockets[i], t.junk)
      BY <1>1, <1>2
    <3> QED BY <1>1, <3>1, <3>2, RowRead, TruthIs, Zenon
  <2>5. \A i : i \in 1 .. rows => i \in Nat
    BY <1>1
  <2> HIDE DEF rows, row, Fits
  <2>6. \A c : c \in Connections(bytes, FALSE)
          <=> \E i \in Nat : Fits(i) /\ c = Truth(t.sockets[i]) /\ Shown(c)
    BY <2>2, <2>3, <2>4, <2>5
  <2>7. Connections(bytes, FALSE) = {Truth(s) : s \in ListedSockets(t)}
    BY <1>5, <2>6
  <2> QED BY <1>1, <2>7 DEF ListRight, bytes
<1> QED BY <1>6, <1>7

\* Of one connection: what the button closes, and whether it has one.
LEMMA ButtonCloses ==
  ASSUME NEW s \in Socket(FALSE)
  PROVE  /\ ClosedBy(Encoded(Truth(s).key)) = {Deleting(s)}
         /\ Closing(Truth(s).key) = Deleting(s)
         /\ Truth(s).pid = s.pid /\ Truth(s).state = StateOf(s.state) /\ Truth(s).key.ipv6 = FALSE
<1>1. Truth(s) = Listed(s) /\ Closing(Listed(s).key) = Deleting(s)
  BY TruthIs, ClosingDeletes
<1>2. Listed(s).pid = s.pid /\ Listed(s).state = StateOf(s.state) /\ Listed(s).key.ipv6 = FALSE
  BY DEF Listed
<1>3. Decoded(Encoded(Listed(s).key)) = Listed(s).key
  BY TextReturns
<1>4. ClosedBy(Encoded(Listed(s).key)) = {Closing(Listed(s).key)}
  BY <1>2, <1>3, Zenon DEF ClosedBy
<1> QED BY <1>1, <1>2, <1>4, Zenon

\* Whatever the sockets and the chosen processes, disconnecting closes those connections of theirs
\* that can be closed, each by the row of it, and no other (close_tcp_connections_for_pids).
THEOREM ClosesRight ==
  ASSUME NEW t \in TableOf(FALSE)
  PROVE  CloseRight(t)
<1> DEFINE list == Connections(TableBytes(t), FALSE)
           open == ListedSockets(t)
<1>1. t.ipv6 = FALSE /\ t.sockets \in Seq(Socket(FALSE))
  BY DEF TableOf
<1>2. open \in SUBSET Socket(FALSE)
  <2>1. \A i \in 1 .. Len(t.sockets) : t.sockets[i] \in Socket(FALSE)
    BY <1>1, ElementOfSeq
  <2> QED BY <2>1 DEF ListedSockets
<1>3. list = {Truth(s) : s \in open}
  BY <1>1, TableRead, Zenon DEF ListRight
<1> HIDE DEF list, open
<1>4. \A s \in open : Offered(Truth(s)) => ClosedBy(Encoded(Truth(s).key)) = {Deleting(s)}
  BY <1>2, ButtonCloses, Zenon
<1>5. \A s \in open : /\ Closing(Truth(s).key) = Deleting(s) /\ Truth(s).key.ipv6 = FALSE
                      /\ Truth(s).pid = s.pid /\ Truth(s).state = StateOf(s.state)
  BY <1>2, ButtonCloses, Zenon
<1>6. ASSUME NEW pids
      PROVE  /\ ListedFor(pids, list) = {Truth(s) : s \in {o \in open : o.pid \in pids}}
             /\ ClosedFor(pids, list) =
                  {Deleting(s) : s \in {o \in open : o.pid \in pids /\ Disconnectable(StateOf(o.state))}}
  <2>1. ListedFor(pids, list) = {Truth(s) : s \in {o \in open : o.pid \in pids}}
    BY <1>3, <1>5, Zenon DEF ListedFor
  <2>2. {d \in list : d.pid \in pids /\ Disconnectable(d.state) /\ ~d.key.ipv6}
          = {Truth(s) : s \in {o \in open : o.pid \in pids /\ Disconnectable(StateOf(o.state))}}
    BY <1>3, <1>5, Zenon
  <2>3. ClosedFor(pids, list) = {Closing(c.key) : c \in
          {Truth(s) : s \in {o \in open : o.pid \in pids /\ Disconnectable(StateOf(o.state))}}}
    BY <2>2, Zenon DEF ClosedFor
  <2>4. ClosedFor(pids, list) =
          {Deleting(s) : s \in {o \in open : o.pid \in pids /\ Disconnectable(StateOf(o.state))}}
    <3> DEFINE chosen == {o \in open : o.pid \in pids /\ Disconnectable(StateOf(o.state))}
    <3>1. \A s \in chosen : Closing(Truth(s).key) = Deleting(s)
      BY <1>5
    <3> HIDE DEF chosen
    <3>2. {Closing(c.key) : c \in {Truth(s) : s \in chosen}} = {Deleting(s) : s \in chosen}
      BY <3>1
    <3> QED BY <2>3, <3>2, Zenon DEF chosen
  <2> QED BY <2>1, <2>4
<1> QED BY <1>4, <1>6, Zenon DEF CloseRight, list, open

\* In every reachable state the tables of IPv4 connections are listed as they are and closed as
\* they are asked to be.
THEOREM ConnectionsRight == Spec => []DisconnectRight
<1>1. \A t \in Tables : t.ipv6 \/ (ListRight(t) /\ CloseRight(t))
  <2> SUFFICES ASSUME NEW t \in Tables, ~t.ipv6 PROVE ListRight(t) /\ CloseRight(t)
    OBVIOUS
  <2>1. t \in TableOf(FALSE) \/ t \in TableOf(TRUE)
    BY WireAssumption
  <2>2. t \in TableOf(TRUE) => t.ipv6 = TRUE
    BY DEF TableOf
  <2> QED BY <2>1, <2>2, TableRead, ClosesRight
<1>2. Misdirected = {}
  BY <1>1, Zenon DEF Misdirected
<1>3. DisconnectRight
  BY <1>2 DEF DisconnectRight
<1> QED BY <1>3, PTL

-----------------------------------------------------------------------------
(***************************************************************************)
(* Packets as they are put together, read back.                            *)
(***************************************************************************)
\* Where the bytes of two parts are when one follows the other.
LEMMA Placed ==
  ASSUME NEW s \in Seq(Byte), NEW t \in Seq(Byte)
  PROVE  /\ s \o t \in Seq(Byte) /\ Len(s \o t) = Len(s) + Len(t)
         /\ \A i \in Nat : i < Len(s) => U8(s \o t, i) = U8(s, i)
         /\ \A i \in Nat : i < Len(t) => U8(s \o t, Len(s) + i) = U8(t, i)
<1>1. Len(s) \in Nat /\ Len(t) \in Nat
  BY LenProperties
<1>2. /\ s \o t \in Seq(Byte) /\ Len(s \o t) = Len(s) + Len(t)
      /\ \A i \in 1 .. Len(s) + Len(t) : (s \o t)[i] = IF i <= Len(s) THEN s[i] ELSE t[i - Len(s)]
  BY ConcatProperties, Zenon
<1>3. ASSUME NEW i \in Nat, i < Len(t) PROVE U8(s \o t, Len(s) + i) = U8(t, i)
  <2>1. /\ (Len(s) + i) + 1 \in 1 .. Len(s) + Len(t) /\ ~((Len(s) + i) + 1 <= Len(s))
        /\ ((Len(s) + i) + 1) - Len(s) = i + 1
    BY <1>1, <1>3
  <2>2. (s \o t)[(Len(s) + i) + 1] = t[((Len(s) + i) + 1) - Len(s)]
    BY <1>2, <2>1, Zenon
  <2> QED BY <2>1, <2>2, Zenon DEF U8
<1> QED BY <1>2, <1>3, SameRead

LEMMA TwoBytes ==
  ASSUME NEW n \in Word
  PROVE  /\ Bytes16(n) \in Seq(Byte) /\ Len(Bytes16(n)) = 2
         /\ 256 * U8(Bytes16(n), 0) + U8(Bytes16(n), 1) = n
<1>1. n \in Nat /\ n <= 65535
  BY DEF Word, MaxWord
<1>2. n \div 256 \in Byte /\ n % 256 \in Byte /\ 256 * (n \div 256) + (n % 256) = n
  <2>1. n \div 256 \in 0 .. 255 /\ n % 256 \in 0 .. 255 /\ n = (256 * (n \div 256)) + (n % 256)
    BY <1>1, Halves
  <2> QED BY <2>1 DEF Byte
<1> QED BY <1>2 DEF Bytes16, U8

LEMMA HighByte ==
  ASSUME NEW n \in 0 .. 15
  PROVE  16 * n \in Byte /\ HighNibble(16 * n) = n
BY DEF Byte, HighNibble

\* What a packet's parts are.
PartsOf(p) ==
  /\ p.ipv6 \in BOOLEAN /\ p.ihl \in 5 .. 15 /\ p.headers \in Seq(ExtensionHeader)
  /\ p.protocol \in Byte /\ p.words \in 0 .. 15 /\ p.source \in Word /\ p.destination \in Word
  /\ p.payload \in Seq(Byte) /\ p.padding \in Seq(Byte) /\ p.fill \in Byte /\ p.outbound \in BOOLEAN
  /\ Len(p.payload) \in Nat /\ TransportSize(p) \in Nat /\ TransportSize(p) >= 8
  /\ p.protocol = Tcp => TransportSize(p) >= 20
  /\ p.protocol = Tcp /\ p.words >= 5 => TransportSize(p) = 4 * p.words
  /\ p.protocol # Tcp => TransportSize(p) = 8

LEMMA PacketParts ==
  ASSUME NEW p \in Packet
  PROVE  /\ PartsOf(p)
         /\ p.ipv6 => Len(Behind(p)) <= MaxWord /\ p.protocol \notin Extensions
         /\ ~p.ipv6 => Whole4(p) <= MaxWord
<1>1. /\ p.ipv6 \in BOOLEAN /\ p.ihl \in 5 .. 15 /\ p.headers \in Seq(ExtensionHeader)
      /\ p.protocol \in Byte /\ p.words \in 0 .. 15 /\ p.source \in Word /\ p.destination \in Word
      /\ p.payload \in Seq(Byte) /\ p.padding \in Seq(Byte) /\ p.fill \in Byte /\ p.outbound \in BOOLEAN
  BY DEF Packet
<1>2. Len(p.payload) \in Nat
  BY <1>1, LenProperties
<1>3. /\ TransportSize(p) \in Nat /\ TransportSize(p) >= 8
      /\ p.protocol = Tcp => TransportSize(p) >= 20
      /\ p.protocol = Tcp /\ p.words >= 5 => TransportSize(p) = 4 * p.words
      /\ p.protocol # Tcp => TransportSize(p) = 8
  <2>1. p.words \in Nat /\ (p.words < 5 \/ p.words >= 5)
    BY <1>1
  <2>2. CASE p.protocol # Tcp
    <3>1. TransportSize(p) = 8
      BY <2>2, Zenon DEF TransportSize
    <3> QED BY <2>2, <3>1
  <2>3. CASE p.protocol = Tcp /\ p.words < 5
    <3>1. TransportSize(p) = 20
      BY <2>3, Zenon DEF TransportSize
    <3> QED BY <2>1, <2>3, <3>1
  <2>4. CASE p.protocol = Tcp /\ p.words >= 5
    <3>1. TransportSize(p) = 4 * p.words
      <4>1. ~(p.words < 5)
        BY <2>1, <2>4
      <4> QED BY <2>4, <4>1, Zenon DEF TransportSize
    <3> QED BY <2>1, <2>4, <3>1
  <2> QED BY <2>1, <2>2, <2>3, <2>4
<1>4. /\ p.ipv6 => Len(Behind(p)) <= MaxWord /\ p.protocol \notin Extensions
      /\ ~p.ipv6 => Whole4(p) <= MaxWord
  BY DEF Packet
<1> QED BY <1>1, <1>2, <1>3, <1>4, Zenon DEF PartsOf

\* The transport header and the payload, byte by byte.
LEMMA TransportIs ==
  ASSUME NEW p, PartsOf(p)
  PROVE  LET bytes == TransportBytes(p)
         IN  /\ bytes \in Seq(Byte) /\ Len(bytes) = TransportSize(p) + Len(p.payload)
             /\ U16(bytes, 0) = p.source /\ U16(bytes, 2) = p.destination
             /\ p.protocol = Tcp => U8(bytes, 12) = 16 * p.words
<1> DEFINE S == Bytes16(p.source)
           D == Bytes16(p.destination)
           ports == S \o D
           body == IF p.protocol = Tcp
                     THEN Filled(8, p.fill) \o <<16 * p.words>> \o Filled(TransportSize(p) - 13, p.fill)
                     ELSE Filled(4, p.fill)
           front == ports \o body
           bytes == TransportBytes(p)
<1>1. /\ p.protocol \in Byte /\ p.words \in 0 .. 15 /\ p.source \in Word /\ p.destination \in Word
      /\ p.payload \in Seq(Byte) /\ p.fill \in Byte
      /\ Len(p.payload) \in Nat /\ TransportSize(p) \in Nat
      /\ (p.protocol = Tcp => TransportSize(p) >= 20) /\ (p.protocol # Tcp => TransportSize(p) = 8)
  BY Zenon DEF PartsOf
<1>2. /\ S \in Seq(Byte) /\ Len(S) = 2 /\ 256 * U8(S, 0) + U8(S, 1) = p.source
      /\ D \in Seq(Byte) /\ Len(D) = 2 /\ 256 * U8(D, 0) + U8(D, 1) = p.destination
  BY <1>1, TwoBytes
<1>3. bytes = front \o p.payload
  BY Zenon DEF TransportBytes
<1> HIDE DEF S, D, bytes
<1>4. /\ ports \in Seq(Byte) /\ Len(ports) = 4
      /\ U8(ports, 0) = U8(S, 0) /\ U8(ports, 1) = U8(S, 1)
      /\ U8(ports, 2) = U8(D, 0) /\ U8(ports, 3) = U8(D, 1)
  <2>1. /\ ports \in Seq(Byte) /\ Len(ports) = Len(S) + Len(D)
        /\ \A i \in Nat : i < Len(S) => U8(ports, i) = U8(S, i)
        /\ \A i \in Nat : i < Len(D) => U8(ports, Len(S) + i) = U8(D, i)
    BY <1>2, Placed
  <2> HIDE DEF ports
  <2>2. U8(ports, 2 + 0) = U8(D, 0) /\ U8(ports, 2 + 1) = U8(D, 1)
    BY <1>2, <2>1
  <2> QED BY <1>2, <2>1, <2>2
<1>5. /\ body \in Seq(Byte) /\ Len(body) = TransportSize(p) - 4
      /\ p.protocol = Tcp => U8(body, 8) = 16 * p.words
  <2>1. CASE p.protocol = Tcp
    <3> DEFINE A == Filled(8, p.fill)
               B == <<16 * p.words>>
               C == Filled(TransportSize(p) - 13, p.fill)
    <3>1. TransportSize(p) >= 20 /\ TransportSize(p) - 13 \in Nat
      BY <1>1, <2>1
    <3>2. A \in Seq(Byte) /\ Len(A) = 8 /\ C \in Seq(Byte) /\ Len(C) = TransportSize(p) - 13
      BY <1>1, <3>1, FilledSeq
    <3>3. B \in Seq(Byte) /\ Len(B) = 1 /\ U8(B, 0) = 16 * p.words
      <4>1. 16 * p.words \in Byte
        BY <1>1, HighByte, Zenon
      <4> DEFINE b == 16 * p.words
      <4> HIDE DEF b
      <4>2. <<b>> \in Seq(Byte) /\ Len(<<b>>) = 1 /\ U8(<<b>>, 0) = b
        BY <4>1 DEF U8, b
      <4> QED BY <4>2, Zenon DEF b
    <3> HIDE DEF A, B, C
    <3>4. /\ A \o B \in Seq(Byte) /\ Len(A \o B) = 9 /\ U8(A \o B, 8) = 16 * p.words
      <4>1. /\ A \o B \in Seq(Byte) /\ Len(A \o B) = Len(A) + Len(B)
            /\ \A i \in Nat : i < Len(B) => U8(A \o B, Len(A) + i) = U8(B, i)
        BY <3>2, <3>3, Placed
      <4>2. U8(A \o B, 8 + 0) = U8(B, 0)
        BY <3>2, <3>3, <4>1
      <4> QED BY <3>2, <3>3, <4>1, <4>2
    <3>5. /\ (A \o B) \o C \in Seq(Byte) /\ Len((A \o B) \o C) = 9 + Len(C)
          /\ U8((A \o B) \o C, 8) = 16 * p.words
      <4> DEFINE AB == A \o B
      <4> HIDE DEF AB
      <4>1. /\ AB \o C \in Seq(Byte) /\ Len(AB \o C) = Len(AB) + Len(C)
            /\ \A i \in Nat : i < Len(AB) => U8(AB \o C, i) = U8(AB, i)
        BY <3>2, <3>4, Placed, Zenon DEF AB
      <4>2. Len(AB) = 9 /\ 8 \in Nat /\ 8 < 9 /\ U8(AB, 8) = 16 * p.words
        BY <3>4 DEF AB
      <4>3. U8(AB \o C, 8) = U8(AB, 8)
        BY <4>1, <4>2, Zenon
      <4> QED BY <4>1, <4>2, <4>3, Zenon DEF AB
    <3>6. body = (A \o B) \o C
      BY <2>1, Zenon DEF A, B, C
    <3> HIDE DEF body
    <3> QED BY <1>1, <3>2, <3>5, <3>6
  <2>2. CASE p.protocol # Tcp
    <3>1. TransportSize(p) = 8
      BY <1>1, <2>2
    <3>2. body = Filled(4, p.fill)
      BY <2>2
    <3> HIDE DEF body
    <3>3. Filled(4, p.fill) \in Seq(Byte) /\ Len(Filled(4, p.fill)) = 4
      BY <1>1, FilledSeq
    <3>4. TransportSize(p) - 4 = 4
      BY <3>1
    <3> QED BY <2>2, <3>2, <3>3, <3>4, Zenon
  <2> QED BY <2>1, <2>2
<1> HIDE DEF ports, body
<1>6. /\ front \in Seq(Byte) /\ Len(front) = TransportSize(p)
      /\ \A i \in 0 .. 3 : U8(front, i) = U8(ports, i)
      /\ p.protocol = Tcp => U8(front, 12) = 16 * p.words
  <2>1. /\ front \in Seq(Byte) /\ Len(front) = Len(ports) + Len(body)
        /\ \A i \in Nat : i < Len(ports) => U8(front, i) = U8(ports, i)
        /\ \A i \in Nat : i < Len(body) => U8(front, Len(ports) + i) = U8(body, i)
    BY <1>4, <1>5, Placed
  <2> HIDE DEF front
  <2>2. ASSUME p.protocol = Tcp PROVE U8(front, 4 + 8) = U8(body, 8)
    <3>1. TransportSize(p) >= 20
      BY <1>1, <2>2
    <3> QED BY <1>1, <1>4, <1>5, <2>1, <3>1
  <2> QED BY <1>1, <1>4, <1>5, <2>1, <2>2
<1> HIDE DEF front
<1>7. /\ bytes \in Seq(Byte) /\ Len(bytes) = TransportSize(p) + Len(p.payload)
      /\ \A i \in Nat : i < TransportSize(p) => U8(bytes, i) = U8(front, i)
  BY <1>1, <1>3, <1>6, Placed
<1>8. U16(bytes, 0) = p.source /\ U16(bytes, 2) = p.destination
  <2>1. /\ U8(bytes, 0) = U8(S, 0) /\ U8(bytes, 1) = U8(S, 1)
        /\ U8(bytes, 2) = U8(D, 0) /\ U8(bytes, 3) = U8(D, 1)
    BY <1>1, <1>4, <1>6, <1>7
  <2>2. U16(bytes, 0) = 256 * U8(bytes, 0) + U8(bytes, 1)
        /\ U16(bytes, 2) = 256 * U8(bytes, 2) + U8(bytes, 3)
    BY DEF U16
  <2> QED BY <1>2, <2>1, <2>2
<1>9. ASSUME p.protocol = Tcp PROVE U8(bytes, 12) = 16 * p.words
  <2>1. TransportSize(p) >= 20
    BY <1>1, <1>9
  <2> QED BY <1>1, <1>6, <1>7, <1>9, <2>1
<1> QED BY <1>7, <1>8, <1>9 DEF bytes

\* A byte of a part that lies between two others.
LEMMA Between ==
  ASSUME NEW s \in Seq(Byte), NEW t \in Seq(Byte), NEW more \in Seq(Byte), NEW i \in Nat, i < Len(t)
  PROVE  U8((s \o t) \o more, Len(s) + i) = U8(t, i)
<1> DEFINE st == s \o t
<1> HIDE DEF st
<1>1. Len(s) \in Nat /\ Len(t) \in Nat
  BY LenProperties
<1>2. st \in Seq(Byte) /\ Len(st) = Len(s) + Len(t) /\ U8(st, Len(s) + i) = U8(t, i)
  BY Placed DEF st
<1>3. Len(s) + i \in Nat /\ Len(s) + i < Len(st)
  BY <1>1, <1>2
<1>4. U8(st \o more, Len(s) + i) = U8(st, Len(s) + i)
  BY <1>2, <1>3, SameRead
<1> QED BY <1>2, <1>4 DEF st

LEMMA WordsOfHeader ==
  ASSUME NEW w \in 0 .. 15, NEW o \in Nat, NEW n \in Nat
  PROVE  /\ w < 5 => 4 * w < 20
         /\ ~(w < 5) => /\ w >= 5 /\ ~(4 * w < 20) /\ 4 * w # 0
                        /\ ~(o + 20 > o + (4 * w + n)) /\ ~(o + 4 * w > o + (4 * w + n))
                        /\ (o + (4 * w + n)) - (o + 4 * w) = n
OBVIOUS

\* The transport header, whatever stands before it and behind the packet, is read as what the
\* packet was made of.
LEMMA TransportRead ==
  ASSUME NEW p, PartsOf(p), NEW s \in Seq(Byte), NEW more \in Seq(Byte)
  PROVE  Transport((s \o TransportBytes(p)) \o more, p.protocol, Len(s), Len(s) + Len(TransportBytes(p)))
           = Told(p)
<1> DEFINE t == TransportBytes(p)
           bytes == (s \o t) \o more
           o == Len(s)
           total == o + Len(t)
           size == TransportSize(p)
<1>1. /\ p.words \in 0 .. 15 /\ p.source \in Word /\ p.destination \in Word
      /\ Len(p.payload) \in Nat /\ size \in Nat /\ size >= 8
      /\ (p.protocol = Tcp => size >= 20) /\ (p.protocol # Tcp => size = 8)
      /\ (p.protocol = Tcp /\ p.words >= 5 => size = 4 * p.words)
  BY Zenon DEF PartsOf
<1>2. /\ t \in Seq(Byte) /\ Len(t) = size + Len(p.payload)
      /\ U16(t, 0) = p.source /\ U16(t, 2) = p.destination
      /\ p.protocol = Tcp => U8(t, 12) = 16 * p.words
  BY TransportIs
<1>3. o \in Nat
  BY LenProperties
<1> HIDE DEF t
<1>4. \A i \in Nat : i < Len(t) => U8(bytes, o + i) = U8(t, i)
  BY <1>2, Between
<1> HIDE DEF bytes, o, size
<1>5. U16(bytes, o) = p.source /\ U16(bytes, o + 2) = p.destination
  <2>1. /\ U8(bytes, o + 0) = U8(t, 0) /\ U8(bytes, o + 1) = U8(t, 1)
        /\ U8(bytes, o + 2) = U8(t, 2) /\ U8(bytes, o + 3) = U8(t, 3)
    BY <1>1, <1>2, <1>4
  <2>2. o + 0 = o /\ (o + 2) + 1 = o + 3 /\ 0 + 1 = 1 /\ 2 + 1 = 3
    BY <1>3
  <2>3. U16(bytes, o) = U16(t, 0) /\ U16(bytes, o + 2) = U16(t, 2)
    BY <2>1, <2>2, Zenon DEF U16
  <2> QED BY <1>2, <2>3
<1>6. CASE p.protocol \notin {Tcp, Udp}
  <2>1. Transport(bytes, p.protocol, o, total) = Unparsed
    BY <1>6, Zenon DEF Transport
  <2>2. Told(p) = Unparsed
    BY <1>6, Zenon DEF Told
  <2> QED BY <2>1, <2>2 DEF bytes, o, t
<1>7. CASE p.protocol = Tcp
  <2>1. U8(bytes, o + 12) = 16 * p.words
    BY <1>1, <1>2, <1>4, <1>7
  <2>2. 4 * HighNibble(U8(bytes, o + 12)) = 4 * p.words
    BY <1>1, <2>1, HighByte, Zenon
  <2>3. TransportHeader(bytes, p.protocol, o, total) =
          IF o + 20 > total \/ 4 * p.words < 20 \/ o + 4 * p.words > total THEN 0 ELSE 4 * p.words
    <3> HIDE DEF total
    <3> QED BY <1>7, <2>2, Zenon DEF TransportHeader
  <2>4. CASE p.words < 5
    <3>1. 4 * p.words < 20
      BY <1>1, <1>3, <2>4, WordsOfHeader, Zenon
    <3>2. TransportHeader(bytes, p.protocol, o, total) = 0
      BY <2>3, <3>1, Zenon
    <3>3. Transport(bytes, p.protocol, o, total) = Unparsed
      BY <3>2, Zenon DEF Transport
    <3>4. Told(p) = Unparsed
      BY <1>7, <2>4, Zenon DEF Told
    <3> QED BY <3>3, <3>4 DEF bytes, o, t
  <2>5. CASE ~(p.words < 5)
    <3>1. /\ ~(o + 20 > total) /\ ~(4 * p.words < 20) /\ ~(o + 4 * p.words > total)
          /\ 4 * p.words # 0 /\ total - (o + 4 * p.words) = Len(p.payload)
      <4>1. total = o + (4 * p.words + Len(p.payload))
        BY <1>1, <1>2, <1>3, <1>7, <2>5, WordsOfHeader, Zenon
      <4> HIDE DEF total
      <4> QED BY <1>1, <1>3, <2>5, <4>1, WordsOfHeader, Zenon
    <3>2. TransportHeader(bytes, p.protocol, o, total) = 4 * p.words
      BY <2>3, <3>1, Zenon
    <3>3. Transport(bytes, p.protocol, o, total) =
            [protocol |-> p.protocol, source |-> p.source, destination |-> p.destination,
             payload |-> Len(p.payload)]
      <4> HIDE DEF total
      <4> QED BY <1>5, <1>7, <3>1, <3>2, Zenon DEF Transport
    <3>4. Told(p) =
            [protocol |-> p.protocol, source |-> p.source, destination |-> p.destination,
             payload |-> Len(p.payload)]
      BY <1>7, <2>5, Zenon DEF Told
    <3> QED BY <3>3, <3>4 DEF bytes, o, t
  <2> QED BY <2>4, <2>5
<1>8. CASE p.protocol = Udp
  <2>1. p.protocol # Tcp
    BY <1>8 DEF Tcp, Udp
  <2>2. ~(o + 8 > total) /\ total - (o + 8) = Len(p.payload) /\ 8 # 0
    BY <1>1, <1>2, <1>3, <2>1
  <2>3. TransportHeader(bytes, p.protocol, o, total) = 8
    <3> HIDE DEF total
    <3> QED BY <2>1, <2>2, Zenon DEF TransportHeader
  <2>4. Transport(bytes, p.protocol, o, total) =
          [protocol |-> p.protocol, source |-> p.source, destination |-> p.destination,
           payload |-> Len(p.payload)]
    <3> HIDE DEF total
    <3> QED BY <1>5, <1>8, <2>2, <2>3, Zenon DEF Transport
  <2>5. Told(p) =
          [protocol |-> p.protocol, source |-> p.source, destination |-> p.destination,
           payload |-> Len(p.payload)]
    BY <1>8, <2>1, Zenon DEF Told
  <2> QED BY <2>4, <2>5 DEF bytes, o, t
<1> QED BY <1>6, <1>7, <1>8

\* A packet that was cut short has the same numbers as the whole one.
LEMMA CutShort ==
  ASSUME NEW bytes \in Seq(Byte), NEW n \in 0 .. Len(bytes)
  PROVE  LET cut == SubSeq(bytes, 1, n)
         IN  /\ cut \in Seq(Byte) /\ Len(cut) = n
             /\ \A i \in Nat : i < n => U8(cut, i) = U8(bytes, i)
             /\ \A i \in Nat : i + 1 < n => U16(cut, i) = U16(bytes, i)
<1> DEFINE cut == SubSeq(bytes, 1, n)
<1>1. Len(bytes) \in Nat /\ n \in Nat /\ n <= Len(bytes)
  BY LenProperties
<1>2. cut \in Seq(Byte) /\ Len(cut) = n /\ \A i \in 1 .. n : cut[i] = bytes[i]
  <2>1. CASE n = 0
    <3>1. cut = << >>
      BY <1>1, <2>1
    <3> QED BY <2>1, <3>1
  <2>2. CASE n # 0
    <3>1. 1 \in Int /\ n \in Int /\ 1 <= n /\ (n - 1) + 1 = n
          /\ \A i \in 1 .. n : (1 + i) - 1 = i /\ i \in 1 .. Len(bytes)
      BY <1>1, <2>2
    <3>2. \A i \in 1 .. n : bytes[i] \in Byte
      BY <3>1, ElementOfSeq
    <3>3. /\ cut \in Seq(Byte) /\ Len(cut) = (n - 1) + 1
          /\ \A i \in 1 .. (n - 1) + 1 : cut[i] = bytes[(1 + i) - 1]
      BY <3>1, <3>2, SubSeqProperties
    <3> HIDE DEF cut
    <3> QED BY <3>1, <3>3
  <2> QED BY <2>1, <2>2
<1> HIDE DEF cut
<1>3. \A i \in Nat : i < n => U8(cut, i) = U8(bytes, i)
  <2> SUFFICES ASSUME NEW i \in Nat, i < n PROVE U8(cut, i) = U8(bytes, i)
    OBVIOUS
  <2>1. i + 1 \in 1 .. n
    BY <1>1
  <2> QED BY <1>2, <2>1 DEF U8
<1>4. \A i \in Nat : i + 1 < n => U16(cut, i) = U16(bytes, i)
  <2> SUFFICES ASSUME NEW i \in Nat, i + 1 < n PROVE U16(cut, i) = U16(bytes, i)
    OBVIOUS
  <2>1. i < n /\ i + 1 \in Nat
    BY <1>1
  <2> QED BY <1>3, <2>1, Zenon DEF U16
<1> QED BY <1>2, <1>3, <1>4 DEF cut

LEMMA Version4 ==
  ASSUME NEW n \in 5 .. 15
  PROVE  64 + n \in Byte /\ HighNibble(64 + n) = 4 /\ LowNibble(64 + n) = n
BY DEF Byte, HighNibble, LowNibble

LEMMA SixBytes ==
  ASSUME NEW S, NEW a \in S, NEW b \in S, NEW c \in S, NEW d \in S, NEW e \in S, NEW f \in S
  PROVE  LET bytes == <<a, b, c, d, e, f>>
         IN  bytes \in Seq(S) /\ Len(bytes) = 6 /\ U8(bytes, 5) = f
BY DEF U8

\* The header of an IPv4 packet: all of what stands before the transport header.
Header4(p) ==
  ((<<64 + p.ihl, p.fill>> \o Bytes16(Whole4(p))) \o <<p.fill, p.fill, 0, 0, p.fill, p.protocol>>)
    \o Filled(4 * p.ihl - 10, p.fill)

LEMMA Header4Is ==
  ASSUME NEW p, PartsOf(p), Whole4(p) <= MaxWord
  PROVE  LET h == Header4(p)
         IN  /\ h \in Seq(Byte) /\ Len(h) = 4 * p.ihl /\ Len(h) >= 20
             /\ U8(h, 0) = 64 + p.ihl /\ U8(h, 9) = p.protocol /\ U16(h, 2) = Whole4(p)
             /\ Whole4(p) \in Nat /\ Whole4(p) = Len(h) + Len(TransportBytes(p))
             /\ Bytes4(p) = h \o TransportBytes(p)
<1> DEFINE v == 64 + p.ihl
           a == <<v, p.fill>>
           b == Bytes16(Whole4(p))
           c == <<p.fill, p.fill, 0, 0, p.fill, p.protocol>>
           d == Filled(4 * p.ihl - 10, p.fill)
           ab == a \o b
           abc == ab \o c
           h == Header4(p)
<1>1. /\ p.ihl \in 5 .. 15 /\ p.protocol \in Byte /\ p.fill \in Byte
      /\ Len(p.payload) \in Nat /\ TransportSize(p) \in Nat
  BY Zenon DEF PartsOf
<1>2. Whole4(p) \in Word /\ Whole4(p) \in Nat /\ Whole4(p) = 4 * p.ihl + (TransportSize(p) + Len(p.payload))
  <2> DEFINE m == TransportSize(p)
             n == Len(p.payload)
             i == p.ihl
  <2>1. Whole4(p) = (4 * i + m) + n /\ i \in Nat /\ m \in Nat /\ n \in Nat
    BY <1>1 DEF Whole4
  <2> HIDE DEF m, n, i
  <2>2. (4 * i + m) + n \in Nat /\ (4 * i + m) + n = 4 * i + (m + n)
    BY <2>1
  <2>3. \A k \in Nat : k <= MaxWord => k \in Word
    BY Words DEF Word
  <2> QED BY <2>1, <2>2, <2>3, Zenon DEF m, n, i
<1>3. b \in Seq(Byte) /\ Len(b) = 2 /\ 256 * U8(b, 0) + U8(b, 1) = Whole4(p)
  BY <1>2, TwoBytes
<1>4. v \in Byte
  BY <1>1, Version4, Zenon
<1> HIDE DEF b, v
<1>5. /\ a \in Seq(Byte) /\ Len(a) = 2 /\ U8(a, 0) = v
      /\ c \in Seq(Byte) /\ Len(c) = 6 /\ U8(c, 5) = p.protocol
  <2>1. 0 \in Byte
    BY DEF Byte
  <2>2. a \in Seq(Byte) /\ Len(a) = 2 /\ U8(a, 0) = v
    BY <1>1, <1>4 DEF U8
  <2>3. c \in Seq(Byte) /\ Len(c) = 6 /\ U8(c, 5) = p.protocol
    <3> DEFINE f == p.fill
               q == p.protocol
    <3>1. f \in Byte /\ q \in Byte
      BY <1>1, Zenon
    <3> HIDE DEF f, q
    <3>2. c = <<f, f, 0, 0, f, q>>
      BY DEF f, q
    <3> HIDE DEF c
    <3>3. /\ <<f, f, 0, 0, f, q>> \in Seq(Byte) /\ Len(<<f, f, 0, 0, f, q>>) = 6
          /\ U8(<<f, f, 0, 0, f, q>>, 5) = q
      BY <2>1, <3>1, SixBytes
    <3> QED BY <3>2, <3>3, Zenon DEF q
  <2> QED BY <2>2, <2>3
<1> DEFINE room == 4 * p.ihl - 10
<1>6. room \in Nat /\ 10 + room = 4 * p.ihl /\ 10 + room >= 20
  <2>1. \A i \in 5 .. 15 : 4 * i - 10 \in Nat /\ 10 + (4 * i - 10) = 4 * i /\ 10 + (4 * i - 10) >= 20
    OBVIOUS
  <2> QED BY <1>1, <2>1, Zenon
<1> HIDE DEF room
<1>7. d \in Seq(Byte) /\ Len(d) = room
  BY <1>1, <1>6, FilledSeq, Zenon DEF room
<1> HIDE DEF a, c, d
<1>8. /\ ab \in Seq(Byte) /\ Len(ab) = 4
      /\ U8(ab, 0) = v /\ U8(ab, 2) = U8(b, 0) /\ U8(ab, 3) = U8(b, 1)
  <2>1. /\ ab \in Seq(Byte) /\ Len(ab) = Len(a) + Len(b)
        /\ \A i \in Nat : i < Len(a) => U8(ab, i) = U8(a, i)
        /\ \A i \in Nat : i < Len(b) => U8(ab, Len(a) + i) = U8(b, i)
    BY <1>3, <1>5, Placed
  <2> HIDE DEF ab
  <2>2. U8(ab, 2 + 0) = U8(b, 0) /\ U8(ab, 2 + 1) = U8(b, 1)
    BY <1>3, <1>5, <2>1
  <2> QED BY <1>3, <1>5, <2>1, <2>2
<1> HIDE DEF ab
<1>9. /\ abc \in Seq(Byte) /\ Len(abc) = 10
      /\ U8(abc, 0) = v /\ U8(abc, 2) = U8(b, 0) /\ U8(abc, 3) = U8(b, 1) /\ U8(abc, 9) = p.protocol
  <2>1. /\ abc \in Seq(Byte) /\ Len(abc) = Len(ab) + Len(c)
        /\ \A i \in Nat : i < Len(ab) => U8(abc, i) = U8(ab, i)
        /\ \A i \in Nat : i < Len(c) => U8(abc, Len(ab) + i) = U8(c, i)
    BY <1>5, <1>8, Placed
  <2> HIDE DEF abc
  <2>2. U8(abc, 4 + 5) = U8(c, 5)
    BY <1>5, <1>8, <2>1
  <2> QED BY <1>5, <1>8, <2>1, <2>2
<1> HIDE DEF abc
<1>10. h = abc \o d
  BY Zenon DEF Header4, a, b, c, d, ab, abc, v
<1>11. /\ h \in Seq(Byte) /\ Len(h) = Len(abc) + Len(d)
       /\ \A i \in Nat : i < Len(abc) => U8(h, i) = U8(abc, i)
  <2>1. /\ abc \o d \in Seq(Byte) /\ Len(abc \o d) = Len(abc) + Len(d)
        /\ \A i \in Nat : i < Len(abc) => U8(abc \o d, i) = U8(abc, i)
    BY <1>7, <1>9, Placed
  <2> HIDE DEF h
  <2> QED BY <1>10, <2>1, Zenon
<1> HIDE DEF h
<1>12. Len(h) = 4 * p.ihl /\ Len(h) >= 20
  BY <1>6, <1>7, <1>9, <1>11
<1>13. /\ U8(h, 0) = v /\ U8(h, 9) = p.protocol /\ U8(h, 2) = U8(b, 0) /\ U8(h, 3) = U8(b, 1)
  BY <1>9, <1>11
<1>14. U16(h, 2) = Whole4(p)
  <2>1. 2 + 1 = 3
    OBVIOUS
  <2> QED BY <1>3, <1>13, <2>1, Zenon DEF U16
<1>15. Whole4(p) = Len(h) + Len(TransportBytes(p))
  <2>1. Len(TransportBytes(p)) = TransportSize(p) + Len(p.payload)
    BY TransportIs
  <2> QED BY <1>2, <1>12, <2>1, Zenon
<1>16. Bytes4(p) = h \o TransportBytes(p)
  BY Zenon DEF Bytes4, Header4, h
<1> QED BY <1>2, <1>11, <1>12, <1>13, <1>14, <1>15, <1>16 DEF h, v

\* The key of a packet that is read as what it was made of.
LEMMA KeyRead ==
  ASSUME NEW p, NEW bytes, Parse(bytes, p.ipv6) = Told(p), Told(p) # Unparsed
  PROVE  KeyOf([bytes |-> bytes, ipv6 |-> p.ipv6, outbound |-> p.outbound]) = TrueKey(p)
<1> DEFINE packet == [bytes |-> bytes, ipv6 |-> p.ipv6, outbound |-> p.outbound]
           told == Told(p)
<1>1. told = [protocol |-> p.protocol, source |-> p.source, destination |-> p.destination,
              payload |-> Len(p.payload)]
  BY Zenon DEF Told
<1>2. /\ told.protocol = p.protocol /\ told.source = p.source
      /\ told.destination = p.destination
  BY <1>1
<1> HIDE DEF told
<1>3. packet.bytes = bytes /\ packet.ipv6 = p.ipv6 /\ packet.outbound = p.outbound
  OBVIOUS
<1> HIDE DEF packet
<1>4. KeyOf(packet) = [protocol |-> told.protocol, port |-> LocalPort(told, p.outbound), ipv6 |-> p.ipv6]
  BY <1>3, Zenon DEF KeyOf, told
<1>5. LocalPort(told, p.outbound) = IF p.outbound THEN p.source ELSE p.destination
  BY <1>2, Zenon DEF LocalPort
<1> QED BY <1>2, <1>4, <1>5, Zenon DEF TrueKey, packet

\* An IPv4 packet is read as what it was made of (parse_ipv4).
LEMMA IPv4Read ==
  ASSUME NEW p \in Packet, ~p.ipv6
  PROVE  ReadRight(p)
<1> DEFINE h == Header4(p)
           t == TransportBytes(p)
           bytes == h \o t
           captured == bytes \o p.padding
           total == Whole4(p)
<1>1. /\ PartsOf(p) /\ Whole4(p) <= MaxWord /\ p.ihl \in 5 .. 15 /\ p.padding \in Seq(Byte)
      /\ p.ipv6 = FALSE
  BY PacketParts DEF PartsOf
<1>2. /\ h \in Seq(Byte) /\ Len(h) = 4 * p.ihl /\ Len(h) >= 20
      /\ U8(h, 0) = 64 + p.ihl /\ U8(h, 9) = p.protocol /\ U16(h, 2) = total
      /\ total \in Nat /\ total = Len(h) + Len(t)
      /\ BytesOf(p) = bytes
  BY <1>1, Header4Is DEF BytesOf
<1>3. t \in Seq(Byte) /\ Len(t) \in Nat /\ Len(t) >= 8
  <2>1. t \in Seq(Byte) /\ Len(t) = TransportSize(p) + Len(p.payload)
    BY <1>1, TransportIs
  <2>2. TransportSize(p) \in Nat /\ TransportSize(p) >= 8 /\ Len(p.payload) \in Nat
    BY <1>1 DEF PartsOf
  <2> HIDE DEF t
  <2> QED BY <2>1, <2>2
<1>4. Transport(captured, p.protocol, Len(h), total) = Told(p)
  BY <1>1, <1>2, TransportRead, Zenon
<1> HIDE DEF h, t, total
<1>5. /\ bytes \in Seq(Byte) /\ Len(bytes) = total
      /\ \A i \in Nat : i < Len(h) => U8(bytes, i) = U8(h, i)
  BY <1>2, <1>3, Placed
<1> HIDE DEF bytes
<1>6. /\ captured \in Seq(Byte) /\ Len(captured) = total + Len(p.padding)
      /\ \A i \in Nat : i < Len(bytes) => U8(captured, i) = U8(bytes, i)
  BY <1>1, <1>5, Placed
<1> HIDE DEF captured
<1>7. /\ U8(bytes, 0) = 64 + p.ihl /\ U8(bytes, 9) = p.protocol
      /\ U8(bytes, 2) = U8(h, 2) /\ U8(bytes, 3) = U8(h, 3)
  BY <1>2, <1>5
<1>8. 0 < Len(bytes) /\ 9 < Len(bytes) /\ 2 < Len(bytes) /\ 3 < Len(bytes) /\ 24 <= Len(bytes)
      /\ total >= Len(h) + 4
  BY <1>2, <1>3, <1>5
<1>9. /\ U8(captured, 0) = 64 + p.ihl /\ U8(captured, 9) = p.protocol
      /\ U16(captured, 2) = total /\ U16(bytes, 2) = total
  <2>1. /\ U8(captured, 0) = 64 + p.ihl /\ U8(captured, 9) = p.protocol
        /\ U8(captured, 2) = U8(h, 2) /\ U8(captured, 3) = U8(h, 3)
    BY <1>6, <1>7, <1>8
  <2>2. 2 + 1 = 3
    OBVIOUS
  <2> QED BY <1>2, <1>7, <2>1, <2>2, Zenon DEF U16
<1>10. HighNibble(U8(captured, 0)) = 4 /\ 4 * LowNibble(U8(captured, 0)) = Len(h)
  BY <1>1, <1>2, <1>9, Version4, Zenon
<1>11. Parse(captured, FALSE) = Told(p)
  <2>1. Len(p.padding) \in Nat /\ Len(h) \in Nat
    BY <1>1, <1>2, LenProperties
  <2>2. /\ ~(Len(captured) < 24) /\ ~(Len(h) + 4 > Len(captured))
        /\ ~(total < Len(h)) /\ ~(total > Len(captured))
    <3>1. \A i, j, k \in Nat : 24 <= i /\ i >= j + 4 =>
            ~(i + k < 24) /\ ~(j + 4 > i + k) /\ ~(i < j) /\ ~(i > i + k)
      OBVIOUS
    <3>2. total \in Nat /\ 24 <= total /\ total >= Len(h) + 4 /\ Len(captured) = total + Len(p.padding)
      BY <1>2, <1>5, <1>6, <1>8
    <3> QED BY <2>1, <3>1, <3>2, Zenon
  <2>3. IPv4(captured) = Transport(captured, p.protocol, Len(h), total)
    BY <1>9, <1>10, <2>2, Zenon DEF IPv4
  <2> QED BY <1>4, <2>3, Zenon DEF Parse, captured, bytes
<1>12. Parse(captured, TRUE) = Unparsed
  <2>1. HighNibble(U8(captured, 0)) # 6
    BY <1>10
  <2> QED BY <2>1, Zenon DEF Parse, IPv6
<1>13. ASSUME NEW n \in 0 .. Len(bytes) - 1
       PROVE  Parse(SubSeq(bytes, 1, n), FALSE) = Unparsed
  <2> DEFINE cut == SubSeq(bytes, 1, n)
  <2>1. n \in 0 .. Len(bytes) /\ n \in Nat /\ n < total
    BY <1>2, <1>5
  <2>2. Len(cut) = n /\ \A i \in Nat : i + 1 < n => U16(cut, i) = U16(bytes, i)
    BY <1>5, <2>1, CutShort
  <2> HIDE DEF cut
  <2>3. CASE n < 24
    BY <2>2, <2>3, Zenon DEF Parse, IPv4, cut
  <2>4. CASE ~(n < 24)
    <3>1. 2 + 1 < n
      BY <2>1, <2>4
    <3>2. U16(cut, 2) = total
      BY <1>9, <2>2, <3>1
    <3>3. total > n
      BY <1>2, <2>1
    <3> QED BY <2>2, <3>2, <3>3, Zenon DEF Parse, IPv4, cut
  <2> QED BY <2>3, <2>4
<1>14. Told(p) # Unparsed
         => KeyOf([bytes |-> captured, ipv6 |-> p.ipv6, outbound |-> p.outbound]) = TrueKey(p)
  BY <1>1, <1>11, KeyRead
<1>15. ~p.ipv6 = TRUE
  BY <1>1
<1> QED BY <1>1, <1>2, <1>11, <1>12, <1>13, <1>14, <1>15, Zenon DEF ReadRight, captured

LEMMA HeaderIs ==
  ASSUME NEW h \in ExtensionHeader, NEW next \in Byte, NEW fill \in Byte
  PROVE  LET bytes == HeaderBytes(h, next, fill)
         IN  /\ bytes \in Seq(Byte) /\ Len(bytes) = HeaderSize(h)
             /\ HeaderSize(h) \in Nat /\ HeaderSize(h) >= 8
             /\ HeaderSize(h) = ExtensionLength(h.type, h.code)
             /\ U8(bytes, 0) = next /\ U8(bytes, 1) = h.code
<1> DEFINE rest == IF h.type = 44 THEN 0 ELSE fill
           a == <<next, h.code>>
           b == Filled(HeaderSize(h) - 2, rest)
           bytes == a \o b
<1>1. h.type \in Extensions /\ h.code \in Byte /\ (h.type = 44 => h.code = 0)
  BY DEF ExtensionHeader
<1>2. HeaderSize(h) = ExtensionLength(h.type, h.code)
  <2>1. 44 # 51 /\ 8 * (0 + 1) = 8
    OBVIOUS
  <2>2. CASE h.type = 44
    BY <1>1, <2>1, <2>2, Zenon DEF HeaderSize, ExtensionLength
  <2>3. CASE h.type # 44
    BY <2>3, Zenon DEF HeaderSize, ExtensionLength
  <2> QED BY <2>2, <2>3
<1>3. HeaderSize(h) \in Nat /\ HeaderSize(h) >= 8
  BY <1>1, <1>2, ExtensionLengths
<1>4. rest \in Byte
  BY DEF Byte
<1> DEFINE n == HeaderSize(h) - 2
<1>5. n \in Nat /\ 2 + n = HeaderSize(h)
  BY <1>3
<1> HIDE DEF rest, n
<1>6. b \in Seq(Byte) /\ Len(b) = n
  BY <1>4, <1>5, FilledSeq, Zenon DEF n
<1>7. a \in Seq(Byte) /\ Len(a) = 2 /\ U8(a, 0) = next /\ U8(a, 1) = h.code
  BY <1>1 DEF U8
<1> HIDE DEF a, b
<1>8. /\ bytes \in Seq(Byte) /\ Len(bytes) = Len(a) + Len(b)
      /\ \A i \in Nat : i < Len(a) => U8(bytes, i) = U8(a, i)
  BY <1>6, <1>7, Placed
<1> HIDE DEF bytes
<1>9. Len(bytes) = HeaderSize(h) /\ U8(bytes, 0) = next /\ U8(bytes, 1) = h.code
  BY <1>5, <1>6, <1>7, <1>8
<1>10. HeaderBytes(h, next, fill) = bytes
  BY Zenon DEF HeaderBytes, bytes, a, b, n, rest
<1> QED BY <1>2, <1>3, <1>8, <1>9, <1>10, Zenon

\* What follows the headers of a packet, from the last of them back, for k of them.
Backwards(p, g, k) ==
  g = [n \in 0 .. k |->
         IF n = 0 THEN TransportBytes(p)
         ELSE HeaderBytes(p.headers[Len(p.headers) - n + 1], NextType(p, Len(p.headers) - n + 1), p.fill)
                \o g[n - 1]]

LEMMA BackwardsExists ==
  ASSUME NEW p, NEW k \in Nat PROVE \E g : Backwards(p, g, k)
<1> DEFINE Header(n) == HeaderBytes(p.headers[Len(p.headers) - n + 1],
                                    NextType(p, Len(p.headers) - n + 1), p.fill)
           W == {n \in Nat : ~ \E g : Backwards(p, g, n)}
<1> SUFFICES ASSUME W # {} PROVE FALSE
  OBVIOUS
<1>1. PICK m \in W : \A y \in W : m <= y
  <2>1. W \in SUBSET Nat
    OBVIOUS
  <2> HIDE DEF W
  <2> QED BY <2>1, SmallestNumber
<1>2. m \in Nat /\ ~ \E g : Backwards(p, g, m)
  OBVIOUS
<1>3. CASE m = 0
  <2> DEFINE g == [n \in 0 .. 0 |-> TransportBytes(p)]
  <2>1. g = [n \in 0 .. 0 |-> IF n = 0 THEN TransportBytes(p) ELSE Header(n) \o g[n - 1]]
    <3> HIDE DEF Header
    <3> QED OBVIOUS
  <2> HIDE DEF g
  <2>2. Backwards(p, g, 0)
    BY <2>1, Zenon DEF Backwards
  <2> QED BY <1>2, <1>3, <2>2
<1>4. CASE m # 0
  <2>1. m - 1 \in Nat /\ m - 1 \notin W
    BY <1>1, <1>2, <1>4
  <2>2. PICK h : Backwards(p, h, m - 1)
    BY <2>1
  <2> DEFINE first == Header(m) \o h[m - 1]
             g == [n \in 0 .. m |-> IF n < m THEN h[n] ELSE first]
  <2>3. \A n \in 0 .. m - 1 : h[n] = IF n = 0 THEN TransportBytes(p) ELSE Header(n) \o h[n - 1]
    BY <2>2, Zenon DEF Backwards
  <2> HIDE DEF Header
  <2>4. ASSUME NEW n \in 0 .. m
        PROVE  g[n] = IF n = 0 THEN TransportBytes(p) ELSE Header(n) \o g[n - 1]
    <3>1. CASE n = 0
      BY <1>2, <1>4, <2>1, <2>3, <3>1
    <3>2. CASE n # 0 /\ n < m
      <4>1. n \in 0 .. m - 1 /\ n - 1 \in 0 .. m /\ n - 1 < m
        BY <1>2, <3>2
      <4>2. g[n] = h[n] /\ g[n - 1] = h[n - 1]
        BY <3>2, <4>1
      <4> QED BY <2>3, <3>2, <4>1, <4>2
    <3>3. CASE n # 0 /\ n = m
      <4>1. n - 1 \in 0 .. m /\ n - 1 < m
        BY <1>2, <3>3
      <4>2. g[n] = first /\ g[n - 1] = h[m - 1]
        BY <3>3, <4>1
      <4> QED BY <3>3, <4>2
    <3>4. n < m \/ n = m
      BY <1>2
    <3> QED BY <3>1, <3>2, <3>3, <3>4
  <2>5. g = [n \in 0 .. m |-> g[n]]
    OBVIOUS
  <2> HIDE DEF g
  <2>6. Backwards(p, g, m)
    BY <2>4, <2>5, Zenon DEF Backwards, Header
  <2> QED BY <1>2, <2>6
<1> QED BY <1>3, <1>4

LEMMA NextTypes ==
  ASSUME NEW p, PartsOf(p), NEW i \in 0 .. Len(p.headers)
  PROVE  /\ NextType(p, i) \in Byte /\ NextType(p, Len(p.headers)) = p.protocol
         /\ i < Len(p.headers) =>
              /\ p.headers[i + 1] \in ExtensionHeader
              /\ NextType(p, i) = p.headers[i + 1].type /\ NextType(p, i) \in Extensions
<1>1. p.headers \in Seq(ExtensionHeader) /\ Len(p.headers) \in Nat /\ p.protocol \in Byte
  BY LenProperties DEF PartsOf
<1>2. i < Len(p.headers) => i + 1 \in 1 .. Len(p.headers)
  BY <1>1
<1>3. i < Len(p.headers) => p.headers[i + 1] \in ExtensionHeader
  BY <1>1, <1>2, ElementOfSeq, Zenon
<1>4. \A h \in ExtensionHeader : h.type \in Extensions
  BY DEF ExtensionHeader
<1>5. \A type \in Extensions : type \in Byte
  BY DEF Extensions, Byte
<1>6. ~(Len(p.headers) < Len(p.headers))
  BY <1>1
<1> QED BY <1>1, <1>3, <1>4, <1>5, <1>6, Zenon DEF NextType

\* What follows i of the headers, for each i.
Follows(p, d) ==
  /\ d[0] = Behind(p) /\ d[Len(p.headers)] = TransportBytes(p)
  /\ \A i \in 0 .. Len(p.headers) - 1 :
       d[i] = HeaderBytes(p.headers[i + 1], NextType(p, i + 1), p.fill) \o d[i + 1]

LEMMA FollowsExists ==
  ASSUME NEW p, PartsOf(p)
  PROVE  \E d \in [0 .. Len(p.headers) -> Seq(Byte)] : Follows(p, d)
<1> DEFINE last == Len(p.headers)
           g == CHOOSE g : Backwards(p, g, last)
           d == [i \in 0 .. last |-> g[last - i]]
           W == {n \in Nat : n <= last /\ g[n] \notin Seq(Byte)}
<1>1. last \in Nat /\ p.fill \in Byte
  BY LenProperties DEF PartsOf
<1>2. Backwards(p, g, last)
  <2> HIDE DEF last
  <2> QED BY <1>1, BackwardsExists, Zenon
<1>3. Behind(p) = g[last]
  BY Zenon DEF Behind, Backwards
<1> HIDE DEF g
<1>4. \A n \in 0 .. last :
        g[n] = IF n = 0 THEN TransportBytes(p)
               ELSE HeaderBytes(p.headers[last - n + 1], NextType(p, last - n + 1), p.fill) \o g[n - 1]
  BY <1>2, Zenon DEF Backwards
<1>5. ASSUME NEW i \in 0 .. last, i < last
      PROVE  /\ g[last - i] = HeaderBytes(p.headers[i + 1], NextType(p, i + 1), p.fill) \o g[last - (i + 1)]
             /\ HeaderBytes(p.headers[i + 1], NextType(p, i + 1), p.fill) \in Seq(Byte)
  <2>1. /\ last - i \in 0 .. last /\ last - i # 0 /\ last - (last - i) + 1 = i + 1
        /\ (last - i) - 1 = last - (i + 1) /\ i + 1 \in 0 .. last
    <3> HIDE DEF last
    <3> QED BY <1>1, <1>5
  <2>2. g[last - i] = HeaderBytes(p.headers[i + 1], NextType(p, i + 1), p.fill) \o g[last - (i + 1)]
    BY <1>4, <2>1, Zenon
  <2>3. p.headers[i + 1] \in ExtensionHeader /\ NextType(p, i + 1) \in Byte
    BY <1>5, <2>1, NextTypes, Zenon
  <2> QED BY <1>1, <2>2, <2>3, HeaderIs, Zenon
<1>6. W = {}
  <2> SUFFICES ASSUME W # {} PROVE FALSE
    OBVIOUS
  <2>1. PICK m \in W : \A y \in W : m <= y
    <3>1. W \in SUBSET Nat
      OBVIOUS
    <3> HIDE DEF W
    <3> QED BY <3>1, SmallestNumber
  <2>2. m \in Nat /\ m <= last /\ g[m] \notin Seq(Byte)
    BY <2>1
  <2>3. m # 0
    <3>1. 0 \in 0 .. last
      BY <1>1
    <3>2. TransportBytes(p) \in Seq(Byte)
      BY TransportIs
    <3> QED BY <1>4, <2>2, <3>1, <3>2, Zenon
  <2> DEFINE i == last - m
  <2>4. /\ i \in 0 .. last /\ i < last /\ last - i = m /\ last - (i + 1) = m - 1
        /\ m - 1 \in Nat /\ m - 1 <= last /\ ~(m <= m - 1)
    <3> HIDE DEF last
    <3> QED BY <1>1, <2>2, <2>3 DEF i
  <2>5. g[m - 1] \in Seq(Byte)
    BY <2>1, <2>4
  <2> HIDE DEF i, last
  <2>6. /\ g[m] = HeaderBytes(p.headers[i + 1], NextType(p, i + 1), p.fill) \o g[m - 1]
        /\ HeaderBytes(p.headers[i + 1], NextType(p, i + 1), p.fill) \in Seq(Byte)
    BY <1>5, <2>4, Zenon
  <2> QED BY <2>2, <2>5, <2>6, Placed, Zenon
<1>7. ASSUME NEW i \in 0 .. last PROVE d[i] = g[last - i] /\ d[i] \in Seq(Byte)
  <2>1. last - i \in Nat /\ last - i <= last
    <3> HIDE DEF last
    <3> QED BY <1>1
  <2>2. g[last - i] \in Seq(Byte)
    <3> HIDE DEF last
    <3> QED BY <1>6, <2>1
  <2> QED BY <2>2
<1>8. d \in [0 .. last -> Seq(Byte)]
  BY <1>7
<1>9. d[0] = Behind(p) /\ d[last] = TransportBytes(p)
  <2>1. 0 \in 0 .. last /\ last \in 0 .. last /\ last - 0 = last /\ last - last = 0
    <3> HIDE DEF last
    <3> QED BY <1>1
  <2> HIDE DEF d, last
  <2> QED BY <1>3, <1>4, <1>7, <2>1, Zenon DEF last
<1>10. ASSUME NEW i \in 0 .. last - 1
       PROVE  d[i] = HeaderBytes(p.headers[i + 1], NextType(p, i + 1), p.fill) \o d[i + 1]
  <2>1. i \in 0 .. last /\ i < last /\ i + 1 \in 0 .. last
    <3> HIDE DEF last
    <3> QED BY <1>1
  <2> HIDE DEF d, last
  <2> QED BY <1>5, <1>7, <2>1, Zenon
<1>11. Follows(p, d)
  <2> HIDE DEF d
  <2> QED BY <1>9, <1>10, Zenon DEF Follows
<1> HIDE DEF d
<1> QED BY <1>8, <1>11

\* The header of an IPv6 packet: all of what stands before its extension headers.
Header6(p) ==
  ((<<96, p.fill, p.fill, p.fill>> \o Bytes16(Len(Behind(p)))) \o <<NextType(p, 0), p.fill>>)
    \o Filled(32, p.fill)

LEMMA Header6Is ==
  ASSUME NEW p, PartsOf(p), Len(Behind(p)) \in Nat, Len(Behind(p)) <= MaxWord
  PROVE  LET h == Header6(p)
         IN  /\ h \in Seq(Byte) /\ Len(h) = 40
             /\ U8(h, 0) = 96 /\ U8(h, 6) = NextType(p, 0) /\ U16(h, 4) = Len(Behind(p))
             /\ Bytes6(p) = h \o Behind(p)
<1> DEFINE next == NextType(p, 0)
           a == <<96, p.fill, p.fill, p.fill>>
           b == Bytes16(Len(Behind(p)))
           c == <<next, p.fill>>
           d == Filled(32, p.fill)
           ab == a \o b
           abc == ab \o c
           h == Header6(p)
<1>1. next \in Byte /\ p.fill \in Byte
  <2>1. 0 \in 0 .. Len(p.headers)
    BY LenProperties DEF PartsOf
  <2> QED BY <2>1, NextTypes, Zenon DEF PartsOf
<1>2. Len(Behind(p)) \in Word
  BY Words DEF Word
<1>3. b \in Seq(Byte) /\ Len(b) = 2 /\ 256 * U8(b, 0) + U8(b, 1) = Len(Behind(p))
  BY <1>2, TwoBytes
<1> HIDE DEF b, next
<1>4. a \in Seq(Byte) /\ Len(a) = 4 /\ U8(a, 0) = 96
  <2>1. 96 \in Byte
    BY DEF Byte
  <2> QED BY <1>1, <2>1 DEF U8
<1>5. c \in Seq(Byte) /\ Len(c) = 2 /\ U8(c, 0) = next
  BY <1>1 DEF U8
<1>6. d \in Seq(Byte) /\ Len(d) = 32
  BY <1>1, FilledSeq
<1> HIDE DEF a, c, d
<1>7. /\ ab \in Seq(Byte) /\ Len(ab) = 6
      /\ U8(ab, 0) = 96 /\ U8(ab, 4) = U8(b, 0) /\ U8(ab, 5) = U8(b, 1)
  <2>1. /\ ab \in Seq(Byte) /\ Len(ab) = Len(a) + Len(b)
        /\ \A i \in Nat : i < Len(a) => U8(ab, i) = U8(a, i)
        /\ \A i \in Nat : i < Len(b) => U8(ab, Len(a) + i) = U8(b, i)
    BY <1>3, <1>4, Placed
  <2> HIDE DEF ab
  <2>2. U8(ab, 4 + 0) = U8(b, 0) /\ U8(ab, 4 + 1) = U8(b, 1)
    BY <1>3, <1>4, <2>1
  <2> QED BY <1>3, <1>4, <2>1, <2>2
<1> HIDE DEF ab
<1>8. /\ abc \in Seq(Byte) /\ Len(abc) = 8
      /\ U8(abc, 0) = 96 /\ U8(abc, 4) = U8(b, 0) /\ U8(abc, 5) = U8(b, 1) /\ U8(abc, 6) = next
  <2>1. /\ abc \in Seq(Byte) /\ Len(abc) = Len(ab) + Len(c)
        /\ \A i \in Nat : i < Len(ab) => U8(abc, i) = U8(ab, i)
        /\ \A i \in Nat : i < Len(c) => U8(abc, Len(ab) + i) = U8(c, i)
    BY <1>5, <1>7, Placed
  <2> HIDE DEF abc
  <2>2. U8(abc, 6 + 0) = U8(c, 0)
    BY <1>5, <1>7, <2>1
  <2> QED BY <1>5, <1>7, <2>1, <2>2
<1> HIDE DEF abc
<1>9. h = abc \o d
  BY Zenon DEF Header6, a, b, c, d, ab, abc, next
<1>10. /\ h \in Seq(Byte) /\ Len(h) = Len(abc) + Len(d)
       /\ \A i \in Nat : i < Len(abc) => U8(h, i) = U8(abc, i)
  <2>1. /\ abc \o d \in Seq(Byte) /\ Len(abc \o d) = Len(abc) + Len(d)
        /\ \A i \in Nat : i < Len(abc) => U8(abc \o d, i) = U8(abc, i)
    <3>1. abc \in Seq(Byte) /\ d \in Seq(Byte)
      BY <1>6, <1>8, Zenon
    <3> QED BY <3>1, Placed
  <2> HIDE DEF h
  <2> QED BY <1>9, <2>1, Zenon
<1> HIDE DEF h
<1>11. /\ Len(h) = 40 /\ U8(h, 0) = 96 /\ U8(h, 6) = next
       /\ U8(h, 4) = U8(b, 0) /\ U8(h, 5) = U8(b, 1)
  BY <1>6, <1>8, <1>10
<1>12. U16(h, 4) = Len(Behind(p))
  <2>1. 4 + 1 = 5
    OBVIOUS
  <2> QED BY <1>3, <1>11, <2>1, Zenon DEF U16
<1>13. Bytes6(p) = h \o Behind(p)
  BY Zenon DEF Bytes6, Header6, h
<1> QED BY <1>10, <1>11, <1>12, <1>13 DEF h, next

LEMMA Regrouped ==
  ASSUME NEW s \in Seq(Byte), NEW t \in Seq(Byte), NEW u \in Seq(Byte)
  PROVE  s \o (t \o u) = (s \o t) \o u
BY ConcatAssociative

\* Where what follows i of the headers begins.
Start(p, d, i) == (40 + Len(d[0])) - Len(d[i])

\* What follows i of the headers is the end of the packet, from its place on.
LEMMA EndOfPacket ==
  ASSUME NEW p, PartsOf(p), NEW h \in Seq(Byte), Len(h) = 40,
         NEW d \in [0 .. Len(p.headers) -> Seq(Byte)], Follows(p, d),
         NEW i \in 0 .. Len(p.headers)
  PROVE  \E s \in Seq(Byte) : h \o d[0] = s \o d[i] /\ Len(s) = Start(p, d, i)
<1> DEFINE last == Len(p.headers)
           Ends(n) == \E s \in Seq(Byte) : h \o d[0] = s \o d[n] /\ Len(s) = Start(p, d, n)
           W == {n \in Nat : n <= last /\ ~Ends(n)}
<1>1. last \in Nat /\ p.fill \in Byte
  BY LenProperties DEF PartsOf
<1>2. \A n \in 0 .. last : d[n] \in Seq(Byte) /\ Len(d[n]) \in Nat
  BY LenProperties
<1>3. Ends(0)
  <2>1. Start(p, d, 0) = 40
    <3>1. 0 \in 0 .. last
      BY <1>1
    <3>2. Len(d[0]) \in Nat
      BY <1>2, <3>1, Zenon
    <3> QED BY <3>2 DEF Start
  <2> QED BY <2>1, Zenon
<1>4. ASSUME NEW n \in 0 .. last, n < last, Ends(n) PROVE Ends(n + 1)
  <2> DEFINE bytes == HeaderBytes(p.headers[n + 1], NextType(p, n + 1), p.fill)
  <2>1. n + 1 \in 0 .. last /\ n \in 0 .. last - 1 /\ 0 \in 0 .. last
    <3> HIDE DEF last
    <3> QED BY <1>1, <1>4
  <2>2. d[n] = bytes \o d[n + 1]
    BY <2>1, Zenon DEF Follows
  <2>3. bytes \in Seq(Byte)
    <3>1. p.headers[n + 1] \in ExtensionHeader /\ NextType(p, n + 1) \in Byte
      BY <1>4, <2>1, NextTypes, Zenon
    <3> QED BY <1>1, <3>1, HeaderIs, Zenon
  <2>4. PICK s \in Seq(Byte) : h \o d[0] = s \o d[n] /\ Len(s) = Start(p, d, n)
    BY <1>4, Zenon
  <2> HIDE DEF bytes, last
  <2>5. d[n + 1] \in Seq(Byte) /\ Len(d[n + 1]) \in Nat /\ Len(d[n]) \in Nat /\ Len(d[0]) \in Nat
    BY <1>2, <2>1, Zenon
  <2>6. s \o (bytes \o d[n + 1]) = (s \o bytes) \o d[n + 1]
    BY <2>3, <2>5, Regrouped
  <2>7. s \o bytes \in Seq(Byte) /\ Len(s \o bytes) = Len(s) + Len(bytes)
    BY <2>3, <2>4, Placed, Zenon
  <2>8. Len(d[n]) = Len(bytes) + Len(d[n + 1])
    BY <2>2, <2>3, <2>5, Placed, Zenon
  <2>9. Len(bytes) \in Nat /\ Len(s) \in Nat
    BY <2>3, <2>4, LenProperties
  <2>10. Len(s) + Len(bytes) = Start(p, d, n + 1)
    <3>1. Len(s) = (40 + Len(d[0])) - Len(d[n])
      BY <2>4 DEF Start
    <3> QED BY <2>5, <2>8, <2>9, <3>1 DEF Start
  <2> QED BY <2>2, <2>4, <2>6, <2>7, <2>10, Zenon
<1>5. W = {}
  <2> SUFFICES ASSUME W # {} PROVE FALSE
    OBVIOUS
  <2> HIDE DEF Ends
  <2>1. PICK m \in W : \A y \in W : m <= y
    <3>1. W \in SUBSET Nat
      OBVIOUS
    <3> HIDE DEF W
    <3> QED BY <3>1, SmallestNumber
  <2> HIDE DEF last
  <2>2. m \in Nat /\ m <= last /\ ~Ends(m)
    BY <2>1
  <2>3. m # 0
    BY <1>3, <2>2
  <2>4. m - 1 \in Nat /\ m - 1 \in 0 .. last /\ m - 1 < last /\ (m - 1) + 1 = m /\ ~(m <= m - 1)
        /\ m - 1 <= last
    BY <1>1, <2>2, <2>3
  <2>5. Ends(m - 1)
    BY <2>1, <2>4
  <2>6. Ends((m - 1) + 1)
    BY <1>4, <2>4, <2>5, Zenon
  <2> QED BY <2>2, <2>4, <2>6
<1>6. i \in Nat /\ i <= last
  BY <1>1
<1>7. i \notin W
  BY <1>5, Zenon
<1> HIDE DEF Ends
<1>8. Ends(i)
  BY <1>6, <1>7
<1> QED BY <1>8, Zenon DEF Ends

\* The places of the headers and of what follows them.
HeaderPlaces(p, d) == [i \in 0 .. Len(p.headers) |-> <<Start(p, d, i), NextType(p, i)>>]

\* The extension headers of a packet are a chain, whatever is behind the packet.
LEMMA HeadersChain ==
  ASSUME NEW p, PartsOf(p), p.protocol \notin Extensions,
         NEW h \in Seq(Byte), Len(h) = 40, U8(h, 6) = NextType(p, 0), NEW more \in Seq(Byte),
         NEW d \in [0 .. Len(p.headers) -> Seq(Byte)], Follows(p, d)
  PROVE  /\ HeaderPlaces(p, d) \in [0 .. Len(p.headers) -> Nat \X Byte]
         /\ Chain((h \o d[0]) \o more, 40 + Len(d[0]), HeaderPlaces(p, d), Len(p.headers))
<1> DEFINE places == HeaderPlaces(p, d)
           last == Len(p.headers)
           bytes == (h \o d[0]) \o more
           total == 40 + Len(d[0])
<1>1. last \in Nat /\ p.fill \in Byte /\ 0 \in 0 .. last
  BY LenProperties DEF PartsOf
<1>2. \A i \in 0 .. last : d[i] \in Seq(Byte) /\ Len(d[i]) \in Nat
  BY LenProperties
<1>3. /\ places = [i \in 0 .. last |-> <<Start(p, d, i), NextType(p, i)>>]
      /\ \A i \in 0 .. last : places[i] = <<Start(p, d, i), NextType(p, i)>>
  BY DEF HeaderPlaces
<1> HIDE DEF places
<1>4. ASSUME NEW i \in 0 .. last
      PROVE  /\ Start(p, d, i) \in Nat /\ Start(p, d, i) + Len(d[i]) = total
             /\ \A j \in Nat : j < Len(d[i]) => U8(bytes, Start(p, d, i) + j) = U8(d[i], j)
  <2>1. PICK s \in Seq(Byte) : h \o d[0] = s \o d[i] /\ Len(s) = Start(p, d, i)
    BY EndOfPacket
  <2>2. Len(s) \in Nat /\ d[i] \in Seq(Byte) /\ Len(d[i]) \in Nat /\ Len(d[0]) \in Nat
    BY <1>1, <1>2, LenProperties
  <2>3. Start(p, d, i) + Len(d[i]) = total
    BY <2>2 DEF Start
  <2>4. \A j \in Nat : j < Len(d[i]) => U8((s \o d[i]) \o more, Len(s) + j) = U8(d[i], j)
    BY <2>2, Between
  <2> QED BY <2>1, <2>2, <2>3, <2>4, Zenon
<1>5. places \in [0 .. last -> Nat \X Byte]
  <2>1. \A i \in 0 .. last : Start(p, d, i) \in Nat /\ NextType(p, i) \in Byte
    BY <1>4, NextTypes
  <2> HIDE DEF last
  <2> QED BY <1>3, <2>1
<1>6. places[0] = <<40, U8(bytes, 6)>>
  <2>1. Start(p, d, 0) = 40
    <3>1. Len(d[0]) \in Nat
      BY <1>1, <1>2, Zenon
    <3> QED BY <3>1 DEF Start
  <2>2. U8(bytes, 6) = NextType(p, 0)
    <3> DEFINE front == h \o d[0]
    <3> HIDE DEF front
    <3>1. d[0] \in Seq(Byte) /\ Len(d[0]) \in Nat
      BY <1>1, <1>2, Zenon
    <3>2. front \in Seq(Byte) /\ Len(front) = 40 + Len(d[0]) /\ U8(front, 6) = U8(h, 6)
      <4>1. /\ front \in Seq(Byte) /\ Len(front) = Len(h) + Len(d[0])
            /\ \A i \in Nat : i < Len(h) => U8(front, i) = U8(h, i)
        BY <3>1, Placed, Zenon DEF front
      <4>2. 6 \in Nat /\ 6 < Len(h)
        OBVIOUS
      <4> QED BY <4>1, <4>2, Zenon
    <3>3. 6 < Len(front)
      BY <3>1, <3>2
    <3>4. U8(front \o more, 6) = U8(front, 6)
      BY <3>2, <3>3, SameRead
    <3> QED BY <3>2, <3>4 DEF front
  <2> QED BY <1>1, <1>3, <2>1, <2>2, Zenon
<1>7. places[last][2] \notin Extensions
  <2>1. last \in 0 .. last /\ NextType(p, last) = p.protocol
    BY <1>1, NextTypes
  <2>2. places[last] = <<Start(p, d, last), p.protocol>>
    BY <1>3, <2>1, Zenon
  <2> HIDE DEF last
  <2> QED BY <2>2
<1>8. ASSUME NEW i \in 0 .. last - 1
      PROVE  /\ places[i][2] \in Extensions /\ places[i][1] + 8 <= total
             /\ places[i + 1] = <<places[i][1] + ExtensionLength(places[i][2], U8(bytes, places[i][1] + 1)),
                                  U8(bytes, places[i][1])>>
  <2> DEFINE header == p.headers[i + 1]
             next == NextType(p, i + 1)
             first == HeaderBytes(header, next, p.fill)
             start == Start(p, d, i)
  <2>1. i \in 0 .. last /\ i < last /\ i + 1 \in 0 .. last
    BY <1>1
  <2>2. /\ header \in ExtensionHeader /\ NextType(p, i) = header.type /\ NextType(p, i) \in Extensions
        /\ next \in Byte
    BY <2>1, NextTypes
  <2>3. d[i] = first \o d[i + 1]
    BY Zenon DEF Follows
  <2> HIDE DEF header, next, last
  <2>4. /\ first \in Seq(Byte) /\ Len(first) = HeaderSize(header)
        /\ HeaderSize(header) \in Nat /\ HeaderSize(header) >= 8
        /\ HeaderSize(header) = ExtensionLength(header.type, header.code)
        /\ U8(first, 0) = next /\ U8(first, 1) = header.code
    BY <1>1, <2>2, HeaderIs, Zenon
  <2> HIDE DEF first
  <2>5. d[i + 1] \in Seq(Byte) /\ Len(d[i + 1]) \in Nat
    BY <1>2, <2>1, Zenon
  <2>6. /\ Len(d[i]) = Len(first) + Len(d[i + 1])
        /\ \A j \in Nat : j < Len(first) => U8(d[i], j) = U8(first, j)
    <3> DEFINE behind == d[i + 1]
    <3> HIDE DEF behind
    <3>1. first \in Seq(Byte) /\ behind \in Seq(Byte)
      BY <2>4, <2>5, Zenon DEF behind
    <3>2. /\ Len(first \o behind) = Len(first) + Len(behind)
          /\ \A j \in Nat : j < Len(first) => U8(first \o behind, j) = U8(first, j)
      BY <3>1, Placed
    <3> QED BY <2>3, <3>2, Zenon DEF behind
  <2>7. 0 < Len(first) /\ 1 < Len(first) /\ 0 < Len(d[i]) /\ 1 < Len(d[i]) /\ Len(d[i]) >= 8
    BY <2>4, <2>5, <2>6
  <2>8. U8(d[i], 0) = next /\ U8(d[i], 1) = header.code
    BY <2>4, <2>6, <2>7
  <2>9. /\ start \in Nat /\ start + Len(d[i]) = total
        /\ \A j \in Nat : j < Len(d[i]) => U8(bytes, start + j) = U8(d[i], j)
    BY <1>4, <2>1, Zenon
  <2> HIDE DEF start, bytes
  <2>10. U8(bytes, start) = next /\ U8(bytes, start + 1) = header.code
    <3>1. U8(bytes, start + 0) = U8(d[i], 0) /\ U8(bytes, start + 1) = U8(d[i], 1)
      BY <2>7, <2>9
    <3>2. start + 0 = start
      BY <2>9
    <3> QED BY <2>8, <3>1, <3>2, Zenon
  <2>11. Start(p, d, i + 1) = start + ExtensionLength(header.type, header.code)
    <3>1. Start(p, d, i + 1) + Len(d[i + 1]) = total /\ Start(p, d, i + 1) \in Nat
      BY <1>4, <2>1, Zenon
    <3> HIDE DEF total
    <3>2. start + (Len(first) + Len(d[i + 1])) = Start(p, d, i + 1) + Len(d[i + 1])
      BY <2>6, <2>9, <3>1, Zenon
    <3> DEFINE a == Len(first)
               b == Len(d[i + 1])
               c == Start(p, d, i + 1)
    <3>3. a \in Nat /\ b \in Nat /\ c \in Nat /\ start \in Nat
      BY <2>4, <2>5, <2>9, <3>1, Zenon
    <3> HIDE DEF a, b, c
    <3>4. start + (a + b) = c + b
      BY <3>2, Zenon DEF a, b, c
    <3>5. c = start + a
      BY <3>3, <3>4
    <3> QED BY <2>4, <3>5, Zenon DEF a, c
  <2>12. places[i] = <<start, header.type>> /\ places[i + 1] = <<Start(p, d, i + 1), next>>
    BY <1>3, <2>1, <2>2, Zenon DEF start, next
  <2>13. places[i][1] = start /\ places[i][2] = header.type
    BY <2>12
  <2>14. start + 8 <= total
    <3> HIDE DEF total
    <3>1. Len(d[i]) \in Nat
      BY <1>2, <2>1, Zenon
    <3>2. start + Len(d[i]) = total /\ start \in Nat
      BY <2>9, Zenon
    <3> DEFINE n == Len(d[i])
    <3>3. n >= 8
      BY <2>7, Zenon
    <3> HIDE DEF n
    <3> QED BY <3>1, <3>2, <3>3 DEF n
  <2>15. places[i + 1] = <<places[i][1] + ExtensionLength(places[i][2], U8(bytes, places[i][1] + 1)),
                           U8(bytes, places[i][1])>>
    BY <2>10, <2>11, <2>12, <2>13, Zenon
  <2> QED BY <2>2, <2>13, <2>14, <2>15, Zenon DEF bytes
<1>9. Chain(bytes, total, places, last)
  <2> HIDE DEF bytes, total, last
  <2> QED BY <1>6, <1>7, <1>8, Zenon DEF Chain
<1> QED BY <1>5, <1>9 DEF places

\* An IPv6 packet is read as what it was made of (parse_ipv6, ipv6_transport_offset).
LEMMA IPv6Read ==
  ASSUME NEW p \in Packet, p.ipv6
  PROVE  ReadRight(p)
<1> DEFINE h == Header6(p)
           last == Len(p.headers)
           t == TransportBytes(p)
<1>1. /\ PartsOf(p) /\ Len(Behind(p)) <= MaxWord /\ p.protocol \notin Extensions
      /\ p.padding \in Seq(Byte) /\ p.headers \in Seq(ExtensionHeader) /\ p.ipv6 = TRUE
  BY PacketParts DEF PartsOf
<1>2. PICK d \in [0 .. last -> Seq(Byte)] : Follows(p, d)
  BY <1>1, FollowsExists
<1>3. last \in Nat /\ 0 \in 0 .. last /\ last \in 0 .. last
  BY <1>1, LenProperties
<1>4. d[0] = Behind(p) /\ d[last] = t
  BY <1>2, Zenon DEF Follows
<1>5. d[0] \in Seq(Byte) /\ t \in Seq(Byte) /\ Len(d[0]) \in Nat /\ Len(t) \in Nat
  <2>1. d[0] \in Seq(Byte) /\ d[last] \in Seq(Byte)
    BY <1>3
  <2> QED BY <1>4, <2>1, LenProperties
<1>6. /\ h \in Seq(Byte) /\ Len(h) = 40
      /\ U8(h, 0) = 96 /\ U8(h, 6) = NextType(p, 0) /\ U16(h, 4) = Len(d[0])
      /\ BytesOf(p) = h \o d[0]
  <2>1. /\ h \in Seq(Byte) /\ Len(h) = 40
        /\ U8(h, 0) = 96 /\ U8(h, 6) = NextType(p, 0) /\ U16(h, 4) = Len(Behind(p))
        /\ Bytes6(p) = h \o Behind(p)
    BY <1>1, <1>4, <1>5, Header6Is
  <2> HIDE DEF h
  <2> QED BY <1>1, <1>4, <2>1, Zenon DEF BytesOf
<1> DEFINE bytes == h \o d[0]
           captured == bytes \o p.padding
           total == 40 + Len(d[0])
           places == HeaderPlaces(p, d)
<1>7. /\ places \in [0 .. last -> Nat \X Byte]
      /\ Chain(captured, total, places, last)
  <2> HIDE DEF h, places
  <2>1. h \in Seq(Byte) /\ Len(h) = 40 /\ U8(h, 6) = NextType(p, 0)
    BY <1>6, Zenon
  <2> QED BY <1>1, <1>2, <2>1, HeadersChain, Zenon DEF places
<1>8. /\ places[last][2] = p.protocol
      /\ Transport(captured, p.protocol, places[last][1], total) = Told(p)
  <2>1. NextType(p, last) = p.protocol
    BY <1>1, <1>3, NextTypes
  <2>2. places[last] = <<Start(p, d, last), NextType(p, last)>>
    BY <1>3 DEF HeaderPlaces
  <2>3. places[last][2] = p.protocol /\ places[last][1] = Start(p, d, last)
    <3> HIDE DEF places, last
    <3> QED BY <2>1, <2>2
  <2> HIDE DEF h, places
  <2>4. PICK s \in Seq(Byte) : h \o d[0] = s \o d[last] /\ Len(s) = Start(p, d, last)
    <3>1. h \in Seq(Byte) /\ Len(h) = 40
      BY <1>6, Zenon
    <3> QED BY <1>1, <1>2, <1>3, <3>1, EndOfPacket, Zenon
  <2>5. Transport((s \o t) \o p.padding, p.protocol, Len(s), Len(s) + Len(t)) = Told(p)
    BY <1>1, TransportRead
  <2>6. Len(s) + Len(t) = total
    <3>1. Len(s) = (40 + Len(d[0])) - Len(t)
      BY <1>4, <2>4, Zenon DEF Start
    <3> DEFINE a == Len(s)
               b == Len(t)
               c == Len(d[0])
    <3>2. a = (40 + c) - b /\ b \in Nat /\ c \in Nat
      BY <1>5, <3>1, Zenon
    <3> HIDE DEF a, b, c
    <3>3. a + b = 40 + c
      BY <3>2
    <3> QED BY <3>3, Zenon DEF a, b, c
  <2> HIDE DEF total, t, last
  <2> QED BY <1>4, <2>3, <2>4, <2>5, <2>6, Zenon
<1> HIDE DEF h, places, t, last
<1>9. /\ bytes \in Seq(Byte) /\ Len(bytes) = total
      /\ \A i \in Nat : i < 40 => U8(bytes, i) = U8(h, i)
  <2>1. /\ bytes \in Seq(Byte) /\ Len(bytes) = Len(h) + Len(d[0])
        /\ \A i \in Nat : i < Len(h) => U8(bytes, i) = U8(h, i)
    BY <1>5, <1>6, Placed
  <2> HIDE DEF bytes
  <2> QED BY <1>6, <2>1, Zenon
<1> HIDE DEF bytes
<1>10. /\ captured \in Seq(Byte) /\ Len(captured) = Len(bytes) + Len(p.padding)
       /\ \A i \in Nat : i < Len(bytes) => U8(captured, i) = U8(bytes, i)
  BY <1>1, <1>9, Placed
<1> HIDE DEF captured
<1>11. total \in Nat /\ 40 <= total /\ Len(p.padding) \in Nat
  BY <1>1, <1>5, LenProperties
<1> HIDE DEF total
<1>12. /\ U8(bytes, 0) = 96 /\ U8(bytes, 4) = U8(h, 4) /\ U8(bytes, 5) = U8(h, 5)
  BY <1>6, <1>9
<1>13. U8(captured, 0) = 96 /\ U16(captured, 4) = Len(d[0]) /\ U16(bytes, 4) = Len(d[0])
  <2>1. 0 < Len(bytes) /\ 4 < Len(bytes) /\ 5 < Len(bytes)
    BY <1>9, <1>11
  <2>2. /\ U8(captured, 0) = 96 /\ U8(captured, 4) = U8(h, 4) /\ U8(captured, 5) = U8(h, 5)
    BY <1>10, <1>12, <2>1
  <2>3. 4 + 1 = 5
    OBVIOUS
  <2> QED BY <1>6, <1>12, <2>2, <2>3, Zenon DEF U16
<1>14. HighNibble(96) = 6 /\ 6 # 4
  BY DEF HighNibble
<1>15. Parse(captured, TRUE) = Told(p)
  <2>1. 40 + U16(captured, 4) = total
    BY <1>13, Zenon DEF total
  <2>2. Len(captured) >= 40 /\ total <= Len(captured)
    BY <1>9, <1>10, <1>11
  <2>3. /\ HighNibble(U8(captured, 0)) = 6 /\ 40 + U16(captured, 4) <= Len(captured)
        /\ Chain(captured, 40 + U16(captured, 4), places, last)
    BY <1>7, <1>13, <1>14, <2>1, <2>2, Zenon
  <2>4. Parse(captured, TRUE)
          = Transport(captured, places[last][2], places[last][1], 40 + U16(captured, 4))
    BY <1>3, <1>7, <1>10, <2>2, <2>3, ChainParsed
  <2> QED BY <1>8, <2>1, <2>4, Zenon
<1>16. Parse(captured, FALSE) = Unparsed
  <2>1. HighNibble(U8(captured, 0)) # 4
    BY <1>13, <1>14, Zenon
  <2> QED BY <2>1, Zenon DEF Parse, IPv4
<1>17. ASSUME NEW n \in 0 .. Len(bytes) - 1
       PROVE  Parse(SubSeq(bytes, 1, n), TRUE) = Unparsed
  <2> DEFINE cut == SubSeq(bytes, 1, n)
  <2>1. n \in 0 .. Len(bytes) /\ n \in Nat /\ n < total
    BY <1>9, <1>11
  <2>2. Len(cut) = n /\ \A i \in Nat : i + 1 < n => U16(cut, i) = U16(bytes, i)
    BY <1>9, <2>1, CutShort
  <2> HIDE DEF cut
  <2>3. CASE n < 40
    BY <2>2, <2>3, Zenon DEF Parse, IPv6, cut
  <2>4. CASE ~(n < 40)
    <3>1. 4 + 1 < n
      BY <2>1, <2>4
    <3>2. 40 + U16(cut, 4) = total
      <4>1. U16(cut, 4) = U16(bytes, 4)
        BY <2>2, <3>1
      <4> QED BY <1>13, <4>1, Zenon DEF total
    <3>3. total > n
      BY <1>11, <2>1
    <3> QED BY <2>2, <3>2, <3>3, Zenon DEF Parse, IPv6, cut
  <2> QED BY <2>3, <2>4
<1>18. Told(p) # Unparsed
         => KeyOf([bytes |-> captured, ipv6 |-> p.ipv6, outbound |-> p.outbound]) = TrueKey(p)
  BY <1>1, <1>15, KeyRead
<1>19. (~p.ipv6) = FALSE
  BY <1>1
<1>20. BytesOf(p) = bytes
  BY <1>6, Zenon DEF bytes
<1> QED BY <1>1, <1>15, <1>16, <1>17, <1>18, <1>19, <1>20, Zenon DEF ReadRight, captured

\* Whatever a packet is made of, of either version and with any options or extension headers, it
\* is read as just that and looked up by its local port, whatever is behind it in the buffer; and
\* nothing is read from one that is cut short anywhere or taken for the other version
\* (IpPacket::parse, local_port).
THEOREM PacketRead ==
  ASSUME NEW p \in Packet
  PROVE  ReadRight(p)
BY IPv4Read, IPv6Read

\* Whatever headers lie between them, the parser finds the ports and the payload of each packet
\* that there may be, whenever the receive thread is ready for one (recv_loop, IpPacket::parse).
THEOREM PacketsReadRight == Spec => []ParsedRight
<1>1. \A p \in Packets : ReadRight(p)
  BY PacketRead, WireAssumption
<1>2. Misparsed = {}
  BY <1>1, Zenon DEF Misparsed
<1>3. ParsedRight
  BY <1>2 DEF ParsedRight
<1> QED BY <1>3, PTL
==============================================================================
