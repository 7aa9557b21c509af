--------------------------- MODULE PortChoices_proofs ---------------------------
(***************************************************************************)
(* ControlPlane implements PortChoices, for any keys, ports and budgets.   *)
(*                                                                         *)
(* What ControlPlane_proofs knows of a calm refresh and a calm health      *)
(* check is not enough to see which step of the registry each call is:     *)
(* ChoicesInv adds what a refresh has read and not yet written, what a     *)
(* health check has read and is going to write back, and that an id older  *)
(* than the nodes in the tables is all anybody can still hold.             *)
(***************************************************************************)
EXTENDS ControlPlane_proofs

IdleIsNotCalm == r.pc \in {"idle", "down"} => ~ r.calm

\* A request's calls are those of its operation.
AskedFor ==
    /\ a.pc = "selector" => a.op = "switch"
    /\ a.pc \in {"read", "write"} => a.op \in {"switch", "unlock"}
    /\ a.pc = "commit" => a.op \in {"disable", "enable"}

\* No id is known, to the tables or to a caller, that was not given out.
OldIds ==
    /\ \A p \in Ports : row[p].active < nextId
    /\ \A n \in DOMAIN status : n < nextId
    /\ \A n \in DOMAIN h.seen : n < nextId
    /\ h.next < nextId /\ a.node < nextId /\ a.active < nextId

\* As long as it is calm, what a refresh has read is what is stored.
ReadAsStored ==
    r.calm /\ r.pc = "read" => \A p \in Ports :
        /\ r.want[p].key = KeyOf(row[p].active) /\ r.want[p].mode = row[p].mode
        /\ p \notin r.todo => r.want[p].off = KeysOf(DisabledIn(p))

\* A row that is not carried over yet names no node, or is not locked.
RowsUntouched ==
    CarriesOver => \A p \in Ports \ RowsDone :
        KeyOf(row[p].active) = NoKey \/ row[p].mode = "auto"

\* So is what a health check has read and will write back.
SeenAsStored ==
    h.calm =>
        /\ h.pc \in {"switch", "write"} => h.row.mode = row[h.port].mode
        /\ h.pc = "probe" =>
              \A n \in h.todo \cap DOMAIN nodes : h.seen[n].disabled = status[n].disabled

ChoicesInv ==
    IdleIsNotCalm /\ AskedFor /\ OldIds /\ ReadAsStored /\ RowsUntouched /\ SeenAsStored

-----------------------------------------------------------------------------
(* Who changes what                                                         *)

LEMMA InvTyped ==
    ASSUME IInv
    PROVE  /\ Typed /\ TypeOK /\ RowsOfNodes /\ r \in Refreshes /\ HealthTyped /\ a \in Admins
           /\ IsTable(nodes, Keys) /\ DOMAIN portNode = Ports /\ row \in [Ports -> Row]
           /\ nextId \in Nat /\ NoNode < nextId /\ DefaultMirrored
BY DEF IInv, Typed, CallersTyped, RefreshTyped, AdminTyped, TypeOK, Ids, NoNode

\* A refresh writes status, row and portNode in three of its calls.
LEMMA RefreshKeeps ==
    ASSUME RefreshStep,
           \A list \in Lists : ~ RefreshReplaceNodes(list)
    PROVE  /\ UNCHANGED <<nodes, nextId>>
           /\ UNCHANGED row \/ \E p \in Ports : RefreshPortRow(p)
           /\ UNCHANGED <<status, portNode>> \/ RefreshDisables
           /\ UNCHANGED lanes \/ RefreshLanes \/ RefreshLanesWrite
BY DEF RefreshStep, RefreshBegin, RefreshReadPort, RefreshFetchFails, RefreshPortRow,
       RefreshDisables, RefreshLanes, RefreshFails, ApplyCheck, ApplyStop, ApplyStart,
       ApplyStartFails, RefreshLanesRead, RefreshLanesWrite, RefreshReturn, db

LEMMA HealthKeeps ==
    ASSUME HealthStep
    PROVE  /\ UNCHANGED <<nodes, nextId>>
           /\ UNCHANGED row \/ HealthWriteRow
           /\ UNCHANGED <<status, portNode>> \/ \E up \in BOOLEAN : HealthProbe(up)
BY DEF HealthStep, HealthBegin, HealthProbe, HealthReadPort, HealthLanesRead, HealthSwitch,
       HealthWriteRow, HealthWriteFails, HealthLanesWrite, HealthLanesFail, HealthReturn, db

LEMMA AdminKeeps ==
    ASSUME AdminStep
    PROVE  /\ UNCHANGED <<nodes, nextId>>
           /\ UNCHANGED row \/ AdminWriteRow
           /\ UNCHANGED <<status, portNode>> \/ DisableCommit
BY DEF AdminStep, SwitchCheck, DisableCheck, UnlockCheck, Request, SwitchSelector,
       AdminReadRow, AdminWriteRow, DisableCommit, AdminFails, db

-----------------------------------------------------------------------------
(* Ids                                                                      *)

LEMMA RefreshKeepsOldIds ==
    ASSUME IInv, OldIds, RefreshStep, a' = a, h' = Noticed(h)
    PROVE  OldIds'
<1>1. /\ Typed /\ TypeOK /\ RowsOfNodes /\ HealthTyped /\ IsTable(nodes, Keys)
      /\ row \in [Ports -> Row] /\ nextId \in Nat /\ a \in Admins
  BY InvTyped
<1>2. h'.seen = h.seen /\ h'.next = h.next
  BY <1>1, NoticedHealth
<1>3. CASE \E list \in Lists : RefreshReplaceNodes(list)
  <2>1. PICK list \in Lists : RefreshReplaceNodes(list)
    BY <1>3
  <2>2. /\ nextId' \in Nat /\ Least(NewIds(list)) = nextId /\ nextId < nextId'
        /\ \A n \in NewIds(list) : n < nextId'
    BY <1>1, <2>1, ReplacedNodes DEF Ids
  <2>3. row' = [row EXCEPT ![Default] = [active |-> Least(NewIds(list)), mode |-> "auto"]]
    BY <2>1 DEF RefreshReplaceNodes
  <2>4. ASSUME NEW p \in Ports PROVE row'[p].active < nextId'
    <3>1. row[p].active \in Nat /\ row[p].active < nextId
      BY <1>1 DEF OldIds, Row
    <3>2. row'[p].active \in {row[p].active, nextId}
      BY <1>1, <2>2, <2>3
    <3> QED
      BY <1>1, <2>2, <3>1, <3>2
  <2>5. ASSUME NEW n \in Nat, n < nextId PROVE n < nextId'
    BY <1>1, <2>2, <2>5
  <2>6. DOMAIN status' \subseteq DOMAIN status \cup NewIds(list)
    BY <2>1 DEF RefreshReplaceNodes
  <2>7. DOMAIN status \subseteq Nat /\ DOMAIN h.seen \subseteq Nat /\ h.next \in Nat
        /\ a.node \in Nat /\ a.active \in Nat
    BY <1>1 DEF TypeOK, HealthTyped, IsTable, Ids, Admins
  <2> HIDE DEF OldIds
  <2>8. \A n \in DOMAIN status' : n < nextId'
    BY <2>2, <2>5, <2>6, <2>7 DEF OldIds
  <2> QED
    BY <1>2, <2>4, <2>5, <2>7, <2>8 DEF OldIds
<1>4. CASE \A list \in Lists : ~ RefreshReplaceNodes(list)
  <2>1. /\ nextId' = nextId
        /\ UNCHANGED row \/ \E p \in Ports : RefreshPortRow(p)
        /\ UNCHANGED <<status, portNode>> \/ RefreshDisables
    BY <1>4, RefreshKeeps
  <2>2. DOMAIN status' = DOMAIN status
    BY <2>1 DEF RefreshDisables
  <2>3. ASSUME NEW p \in Ports, RefreshPortRow(p)
        PROVE  \A q \in Ports : row'[q].active < nextId
    <3> DEFINE kept == IdOf(r.want[p].key)
               put == IF kept # NoNode THEN [active |-> kept, mode |-> r.want[p].mode]
                      ELSE [active |-> Least(DOMAIN nodes), mode |-> "auto"]
    <3>1. row' = [row EXCEPT ![p] = put]
      BY <2>3 DEF RefreshPortRow, PutRow
    <3>2. put.active \in DOMAIN nodes
      BY <1>1, IdOfIs, FirstNodeIs DEF RowsOfNodes
    <3>3. put.active < nextId
      BY <1>1, <3>2 DEF RowsOfNodes
    <3> HIDE DEF put
    <3> QED
      BY <1>1, <3>1, <3>3 DEF OldIds
  <2>4. \A q \in Ports : row'[q].active < nextId
    BY <2>1, <2>3 DEF OldIds
  <2> QED
    BY <1>2, <2>1, <2>2, <2>4 DEF OldIds
<1> QED
  BY <1>3, <1>4

LEMMA HealthKeepsOldIds ==
    ASSUME IInv, OldIds, HealthStep, a' = a
    PROVE  OldIds'
<1>1. /\ Typed /\ TypeOK /\ RowsOfNodes /\ HealthTyped /\ row \in [Ports -> Row]
      /\ nextId \in Nat /\ NoNode < nextId
  BY InvTyped
<1>2. /\ nextId' = nextId
      /\ UNCHANGED row \/ HealthWriteRow
      /\ UNCHANGED <<status, portNode>> \/ \E up \in BOOLEAN : HealthProbe(up)
  BY HealthKeeps
<1>3. \A p \in Ports : row'[p].active < nextId
  <2>1. CASE HealthWriteRow
    <3>1. \A p \in Ports : row'[p].active \in {row[p].active, h.next}
      BY <1>1, <2>1 DEF HealthWriteRow, PutRow
    <3> QED
      BY <3>1 DEF OldIds
  <2> QED
    BY <1>2, <2>1 DEF OldIds
<1>4. \A n \in DOMAIN status' : n < nextId
  <2>1. ASSUME NEW up \in BOOLEAN, HealthProbe(up) PROVE \A n \in DOMAIN status' : n < nextId
    <3> DEFINE m == Least(h.todo)
    <3>1. /\ m \in h.todo /\ h.todo \subseteq DOMAIN h.seen
          /\ \/ status' = status
             \/ \E st : status' = Upsert(status, m, st)
      BY <1>1, <2>1, ProbeIs DEF HealthProbe, HealthTyped
    <3>2. DOMAIN status' \subseteq DOMAIN status \cup DOMAIN h.seen
      BY <3>1 DEF Upsert
    <3> QED
      BY <3>2 DEF OldIds
  <2> QED
    BY <1>2, <2>1 DEF OldIds
<1>5. (\A n \in DOMAIN h'.seen : n < nextId) /\ h'.next < nextId
  <2>1. CASE HealthBegin
    <3>1. h'.seen = View(Default) /\ h'.next = NoNode
      BY <2>1 DEF HealthBegin, IdleHealth
    <3> QED
      BY <1>1, <3>1, ViewIs, PortsAssumption DEF OldIds
  <2>2. CASE h' = IdleHealth
    BY <1>1, <2>2 DEF IdleHealth
  <2>3. ASSUME NEW p \in Ports, HealthReadPort(p), h' # PortDone(p)
        PROVE  h'.seen = h.seen /\ h'.next < nextId
    <3>1. PICK n \in Eligible(View(p)) :
            h' = [h EXCEPT !.pc = "switch", !.port = p, !.next = n, !.row = row[p]]
      BY <2>3 DEF HealthReadPort
    <3>2. n < nextId
      BY <1>1, ViewIs DEF OldIds
    <3> QED
      BY <1>1, <3>1, <3>2 DEF HealthTyped
  <2>4. CASE h'.seen = h.seen /\ h'.next = h.next
    BY <2>4 DEF OldIds
  <2>5. \A p \in Ports \cup {h.port} : h' = PortDone(p) => h'.seen = h.seen /\ h'.next = h.next
    BY <1>1 DEF PortDone, HealthTyped
  <2>6. HealthProbe(TRUE) \/ HealthProbe(FALSE) \/ HealthSwitch \/ HealthWriteRow
          \/ HealthWriteFails \/ HealthLanesWrite \/ (\E p \in Ports : HealthLanesRead(p))
        => h'.seen = h.seen /\ h'.next = h.next
    BY <1>1, <2>5 DEF HealthProbe, HealthSwitch, HealthWriteRow, HealthWriteFails,
       HealthLanesWrite, HealthLanesRead, PortDone, HealthTyped
  <2>7. \A up \in BOOLEAN : HealthProbe(up) => HealthProbe(TRUE) \/ HealthProbe(FALSE)
    OBVIOUS
  <2> QED
    BY <2>1, <2>2, <2>3, <2>4, <2>5, <2>6, <2>7
       DEF HealthStep, HealthLanesFail, HealthReturn, OldIds
<1> QED
  BY <1>2, <1>3, <1>4, <1>5 DEF OldIds

LEMMA AdminKeepsOldIds ==
    ASSUME IInv, OldIds, AdminStep, h' = Noticed(h)
    PROVE  OldIds'
<1>1. /\ Typed /\ TypeOK /\ RowsOfNodes /\ HealthTyped /\ row \in [Ports -> Row]
      /\ nextId \in Nat /\ NoNode < nextId /\ a \in Admins
  BY InvTyped
<1>2. /\ nextId' = nextId
      /\ UNCHANGED row \/ AdminWriteRow
      /\ UNCHANGED <<status, portNode>> \/ DisableCommit
      /\ h'.seen = h.seen /\ h'.next = h.next
  BY <1>1, AdminKeeps, NoticedHealth
<1>3. \A p \in Ports : row'[p].active < nextId
  <2>1. CASE AdminWriteRow
    <3>1. \A p \in Ports : row'[p].active \in {row[p].active, a.node, a.active}
      BY <1>1, <2>1 DEF AdminWriteRow, PutRow
    <3> QED
      BY <3>1 DEF OldIds
  <2> QED
    BY <1>2, <2>1 DEF OldIds
<1>4. DOMAIN status' = DOMAIN status
  BY <1>2 DEF DisableCommit
<1>5. a'.node < nextId /\ a'.active < nextId
  <2>1. ASSUME NEW pc, NEW op, NEW p, NEW n, n < nextId, Request(pc, op, p, n)
        PROVE  a'.node < nextId /\ a'.active < nextId
    BY <1>1, <2>1 DEF Request, IdleAdmin
  <2>2. \A n \in DOMAIN nodes : n < nextId
    BY <1>1 DEF RowsOfNodes
  <2>3. CASE \/ \E p \in Ports, n \in DOMAIN nodes :
                  \/ SwitchCheck(p, n)
                  \/ \E op \in {"disable", "enable"} : DisableCheck(p, n, op)
             \/ \E p \in Ports : UnlockCheck(p)
    BY <1>1, <2>1, <2>2, <2>3 DEF SwitchCheck, DisableCheck, UnlockCheck
  <2>4. CASE a' = IdleAdmin
    BY <1>1, <2>4 DEF IdleAdmin
  <2>5. CASE SwitchSelector /\ a' # IdleAdmin
    BY <1>1, <2>5 DEF SwitchSelector, OldIds, Admins
  <2>6. CASE AdminReadRow
    BY <1>1, <2>6 DEF AdminReadRow, OldIds, Admins
  <2> QED
    BY <2>3, <2>4, <2>5, <2>6 DEF AdminStep, AdminWriteRow, DisableCommit, AdminFails
<1> QED
  BY <1>2, <1>3, <1>4, <1>5 DEF OldIds
-----------------------------------------------------------------------------
(* What is kept of a read                                                   *)

LEMMA NoticedReads ==
    ASSUME IInv, IdleIsNotCalm, ReadAsStored, RowsUntouched, r' = Noticed(r)
    PROVE  IdleIsNotCalm' /\ ReadAsStored' /\ RowsUntouched'
<1>1. /\ r'.pc = r.pc /\ r'.todo = r.todo /\ r'.port = r.port /\ r'.want = r.want
      /\ (r'.calm => r.calm /\ UNCHANGED <<db, box>>)
  BY NoticedRefresh DEF IInv, CallersTyped
<1>2. IdleIsNotCalm'
  BY <1>1 DEF IdleIsNotCalm
<1>3. ASSUME r'.calm
      PROVE  /\ r.calm /\ UNCHANGED <<nodes, row>>
             /\ \A p : KeyOf(row[p].active)' = KeyOf(row[p].active)
             /\ \A p : KeysOf(DisabledIn(p))' = KeysOf(DisabledIn(p))
  <2>1. r.calm /\ UNCHANGED <<nodes, status, portNode, row>>
    BY <1>1, <1>3 DEF db
  <2> QED
    BY <2>1 DEF KeyOf, KeysOf, DisabledIn, View
<1>4. ReadAsStored'
  BY <1>1, <1>3 DEF ReadAsStored
<1>5. RowsUntouched'
  <2>1. RowsDone' = RowsDone
    BY <1>1 DEF RowsDone, Carried
  <2> QED
    BY <1>1, <1>3, <2>1 DEF RowsUntouched, CarriesOver
<1> QED
  BY <1>2, <1>4, <1>5

LEMMA NoticedSeen ==
    ASSUME IInv, SeenAsStored, h' = Noticed(h)
    PROVE  SeenAsStored'
<1>1. /\ h'.pc = h.pc /\ h'.todo = h.todo /\ h'.port = h.port /\ h'.seen = h.seen
      /\ h'.row = h.row /\ (h'.calm => h.calm /\ UNCHANGED <<db, box>>)
  BY NoticedHealth DEF IInv, CallersTyped
<1> QED
  BY <1>1 DEF SeenAsStored, db

\* Where each call of a refresh that goes on takes it.
LEMMA RefreshMoves ==
    ASSUME IInv, RefreshStep, r' \notin {GivenUp, IdleRefresh}
    PROVE  \/ RefreshBegin /\ r'.pc = "read"
           \/ \E p \in Ports : RefreshReadPort(p) /\ r'.pc = "read"
           \/ \E list \in Lists :
                 RefreshReplaceNodes(list) /\ r'.pc = "row"
           \/ \E p \in Ports : RefreshPortRow(p) /\ r'.pc = "disable"
           \/ RefreshDisables /\ r'.pc = "lanes"
           \/ RefreshLanes /\ r'.pc \in {"row", "build"}
           \/ /\ \/ ApplyCheck \/ ApplyStop \/ ApplyStart \/ RefreshLanesWrite
                 \/ \E p \in Ports : RefreshLanesRead(p)
              /\ r'.pc \in {"stop", "start", "lanesRead", "lanesWrite", "done"}
<1>1. r \in Refreshes /\ Begun("api", row).pc = "read"
  BY InvTyped, BegunTyped
<1>2. RefreshBegin => r'.pc = "read"
  BY <1>1 DEF RefreshBegin
<1>3. ASSUME NEW p \in Ports, RefreshReadPort(p) PROVE r'.pc = "read"
  BY <1>1, <1>3 DEF RefreshReadPort, Refreshes
<1>4. ASSUME NEW list, RefreshReplaceNodes(list) PROVE r'.pc = "row"
  BY <1>1, <1>4 DEF RefreshReplaceNodes, Refreshes
<1>5. ASSUME NEW p \in Ports, RefreshPortRow(p) PROVE r'.pc = "disable"
  BY <1>1, <1>5 DEF RefreshPortRow, Refreshes
<1>6. RefreshDisables => r'.pc = "lanes"
  BY <1>1 DEF RefreshDisables, Refreshes
<1>7. RefreshLanes => r'.pc \in {"row", "build"}
  BY <1>1 DEF RefreshLanes, Refreshes
<1>8. ApplyCheck \/ ApplyStop \/ ApplyStart \/ RefreshLanesWrite
        \/ (\E p \in Ports : RefreshLanesRead(p))
      => r'.pc \in {"stop", "start", "lanesRead", "lanesWrite", "done"}
  BY <1>1 DEF ApplyCheck, ApplyStop, ApplyStart, RefreshLanesWrite, RefreshLanesRead, Refreshes
<1>9. ~ (RefreshFetchFails \/ RefreshFails \/ ApplyStartFails \/ RefreshReturn)
  BY DEF RefreshFetchFails, RefreshFails, ApplyStartFails, RefreshReturn
<1> QED
  BY <1>2, <1>3, <1>4, <1>5, <1>6, <1>7, <1>8, <1>9 DEF RefreshStep

LEMMA RefreshKeepsReads ==
    ASSUME IInv, OldIds, ReadAsStored, RowsUntouched, RefreshStep
    PROVE  IdleIsNotCalm' /\ ReadAsStored' /\ RowsUntouched'
<1>1. /\ Typed /\ TypeOK /\ RowsOfNodes /\ r \in Refreshes /\ row \in [Ports -> Row]
      /\ IsTable(nodes, Keys) /\ nextId \in Nat
  BY InvTyped
<1>2. GivenUp.calm = FALSE /\ IdleRefresh.calm = FALSE
  BY IdleTyped
<1>3. IdleIsNotCalm'
  <2>1. r'.pc \in {"idle", "down"} => r' \in {GivenUp, IdleRefresh}
    BY RefreshMoves
  <2> QED
    BY <1>2, <2>1 DEF IdleIsNotCalm
<1>4. ReadAsStored'
  <2> SUFFICES ASSUME r'.calm, r'.pc = "read", NEW p \in Ports
               PROVE  /\ r'.want[p].key = KeyOf(row[p].active)' /\ r'.want[p].mode = row'[p].mode
                      /\ p \notin r'.todo => r'.want[p].off = KeysOf(DisabledIn(p))'
    BY DEF ReadAsStored
  <2>1. RefreshBegin \/ \E q \in Ports : RefreshReadPort(q)
    BY <1>2, RefreshMoves
  <2>2. /\ row' = row /\ KeyOf(row[p].active)' = KeyOf(row[p].active)
        /\ KeysOf(DisabledIn(p))' = KeysOf(DisabledIn(p))
    <3>1. UNCHANGED <<nodes, status, portNode, row>>
      BY <2>1 DEF RefreshBegin, RefreshReadPort, db
    <3> QED
      BY <3>1 DEF KeyOf, KeysOf, DisabledIn, View
  <2>3. CASE RefreshBegin
    <3>1. /\ r'.want = [q \in Ports |-> [key |-> KeyOf(row[q].active), mode |-> row[q].mode,
                                         off |-> {}, laned |-> FALSE,
                                         lanes |-> [l \in Lanes |-> NoKey]]]
          /\ r'.todo = Ports
      BY <2>3 DEF RefreshBegin, Begun, IdleRefresh
    <3> QED
      BY <2>2, <3>1
  <2>4. ASSUME NEW q \in Ports, RefreshReadPort(q)
        PROVE  /\ r'.want[p].key = KeyOf(row[p].active) /\ r'.want[p].mode = row[p].mode
               /\ p \notin r'.todo => r'.want[p].off = KeysOf(DisabledIn(p))
    <3> DEFINE off == KeysOf(DisabledIn(q))
               known == q \in laned
               keys == [l \in Lanes |-> KeyOf(lanes[q][l])]
    <3>1. /\ r.pc = "read" /\ r.calm /\ r'.todo = r.todo \ {q}
          /\ r'.want = [r.want EXCEPT ![q].off = off, ![q].laned = known, ![q].lanes = keys]
      BY <1>1, <2>4 DEF RefreshReadPort, Refreshes
    <3> HIDE DEF off, known, keys
    <3>2. r.want \in [Ports -> Wants]
      BY <1>1 DEF Refreshes
    <3>3. /\ r'.want[p].key = r.want[p].key /\ r'.want[p].mode = r.want[p].mode
          /\ r'.want[p].off = IF p = q THEN off ELSE r.want[p].off
      BY <3>1, <3>2 DEF Wants
    <3>4. /\ r.want[p].key = KeyOf(row[p].active) /\ r.want[p].mode = row[p].mode
          /\ p \notin r.todo => r.want[p].off = KeysOf(DisabledIn(p))
      BY <3>1 DEF ReadAsStored
    <3> QED
      BY <3>1, <3>3, <3>4 DEF off
  <2> QED
    BY <2>1, <2>2, <2>3, <2>4
<1>5. RowsUntouched'
  <2> SUFFICES ASSUME CarriesOver', NEW p \in Ports \ RowsDone'
               PROVE  KeyOf(row[p].active)' = NoKey \/ row'[p].mode = "auto"
    BY DEF RowsUntouched
  <2>1. r'.calm /\ r'.pc \in {"row", "disable", "lanes"}
    BY DEF CarriesOver
  <2>2. \/ \E list \in Lists : RefreshReplaceNodes(list)
        \/ \E q \in Ports : RefreshPortRow(q)
        \/ RefreshDisables \/ RefreshLanes
    BY <1>2, <2>1, RefreshMoves
  <2>3. ASSUME NEW list \in Lists, RefreshReplaceNodes(list)
        PROVE  KeyOf(row[p].active)' = NoKey \/ row'[p].mode = "auto"
    <3>1. row' = [row EXCEPT ![Default] = [active |-> Least(NewIds(list)), mode |-> "auto"]]
      BY <2>3 DEF RefreshReplaceNodes
    <3>2. CASE p = Default
      BY <1>1, <3>1, <3>2
    <3>3. CASE p # Default
      <4>1. row'[p].active = row[p].active /\ row[p].active \in Nat /\ row[p].active < nextId
        BY <1>1, <3>1, <3>3 DEF OldIds, Row
      <4>2. \A n \in DOMAIN nodes' : nextId <= n
        BY <1>1, <2>3, ReplacedNodes
      <4>3. row'[p].active \notin DOMAIN nodes'
        BY <1>1, <4>1, <4>2
      <4> QED
        BY <4>3 DEF KeyOf
    <3> QED
      BY <3>2, <3>3
  <2>4. ASSUME r.calm, r.pc \in {"row", "disable", "lanes"}, p \notin RowsDone,
               nodes' = nodes, row'[p] = row[p]
        PROVE  KeyOf(row[p].active)' = NoKey \/ row'[p].mode = "auto"
    BY <2>4 DEF RowsUntouched, CarriesOver, KeyOf
  <2>5. ASSUME NEW q \in Ports, RefreshPortRow(q)
        PROVE  KeyOf(row[p].active)' = NoKey \/ row'[p].mode = "auto"
    <3>1. /\ r.pc = "row" /\ nodes' = nodes
          /\ r'.pc = "disable" /\ r'.port = q /\ r'.todo = r.todo /\ r'.calm = r.calm
      BY <1>1, <2>5 DEF RefreshPortRow, Refreshes
    <3>2. p # q /\ p \notin RowsDone
      BY <3>1 DEF RowsDone, Carried
    <3>3. row'[p] = row[p]
      BY <1>1, <2>5, <3>2 DEF RefreshPortRow, PutRow
    <3> QED
      BY <2>1, <2>4, <3>1, <3>2, <3>3
  <2>6. CASE RefreshDisables
    <3>1. r.pc = "disable" /\ nodes' = nodes /\ row' = row /\ r' = [r EXCEPT !.pc = "lanes"]
      BY <1>2, <2>1, <2>6 DEF RefreshDisables
    <3>2. r'.pc = "lanes" /\ r'.port = r.port /\ r'.todo = r.todo /\ r'.calm = r.calm
      BY <1>1, <3>1 DEF Refreshes
    <3>3. p \notin RowsDone
      BY <3>1, <3>2 DEF RowsDone, Carried
    <3> QED
      BY <2>1, <2>4, <3>1, <3>2, <3>3
  <2>7. CASE RefreshLanes
    <3>1. /\ r.pc = "lanes" /\ nodes' = nodes /\ row' = row
          /\ r' = [r EXCEPT !.pc = IF r.todo = {r.port} THEN "build" ELSE "row",
                            !.todo = @ \ {r.port}]
      BY <1>2, <2>1, <2>7 DEF RefreshLanes
    <3>2. r'.pc = "row" /\ r'.todo = r.todo \ {r.port} /\ r'.calm = r.calm
      BY <1>1, <2>1, <3>1 DEF Refreshes
    <3>3. p \notin RowsDone
      BY <3>1, <3>2 DEF RowsDone, Carried
    <3> QED
      BY <2>1, <2>4, <3>1, <3>2, <3>3
  <2> QED
    BY <2>2, <2>3, <2>5, <2>6, <2>7
<1> QED
  BY <1>3, <1>4, <1>5

LEMMA HealthKeepsSeen ==
    ASSUME IInv, SeenAsStored, HealthStep
    PROVE  SeenAsStored'
<1>1. /\ Typed /\ TypeOK /\ RowsOfNodes /\ HealthTyped /\ row \in [Ports -> Row]
      /\ DefaultMirrored
  BY InvTyped
<1> SUFFICES ASSUME h'.calm
             PROVE  /\ h'.pc \in {"switch", "write"} => h'.row.mode = row'[h'.port].mode
                    /\ h'.pc = "probe" => \A n \in h'.todo \cap DOMAIN nodes' :
                          h'.seen[n].disabled = status'[n].disabled
  BY DEF SeenAsStored
<1>2. CASE HealthBegin
  <2>1. /\ h'.pc = "probe" /\ h'.todo = DOMAIN status /\ h'.seen = View(Default)
        /\ nodes' = nodes /\ status' = status
    BY <1>2 DEF HealthBegin, IdleHealth, db
  <2>2. \A n \in DOMAIN nodes : View(Default)[n].disabled = status[n].disabled
    BY <1>1, ViewIs, PortsAssumption DEF RowsOfNodes, DefaultMirrored
  <2> QED
    BY <2>1, <2>2
<1>3. ASSUME NEW up \in BOOLEAN, HealthProbe(up)
      PROVE  /\ h'.pc \notin {"switch", "write"}
             /\ h'.pc = "probe" => \A n \in h'.todo \cap DOMAIN nodes' :
                   h'.seen[n].disabled = status'[n].disabled
  <2> DEFINE m == Least(h.todo)
  <2>1. /\ h'.todo = IF h.todo = {m} THEN Ports ELSE h.todo \ {m}
        /\ h'.pc = IF h.todo = {m} THEN "ports" ELSE "probe"
        /\ h'.seen = h.seen /\ (h'.calm => h.calm)
        /\ UNCHANGED status \/ \E st : status' = Upsert(status, m, st)
    BY <1>1, <1>3, ProbeIs
  <2>2. h.pc = "probe" /\ nodes' = nodes
    BY <1>3 DEF HealthProbe
  <2> HIDE DEF m
  <2>3. ASSUME NEW n \in DOMAIN nodes \ {m} PROVE status'[n] = status[n]
    <3>1. n \in DOMAIN status
      BY <1>1 DEF RowsOfNodes
    <3> QED
      BY <2>1, <3>1 DEF Upsert
  <2>4. \A n \in h.todo \cap DOMAIN nodes : h.seen[n].disabled = status[n].disabled
    BY <2>1, <2>2 DEF SeenAsStored
  <2> QED
    BY <2>1, <2>2, <2>3, <2>4
<1>4. ASSUME NEW p \in Ports, HealthReadPort(p)
      PROVE  /\ h'.pc \in {"switch", "write"} => h'.row.mode = row'[h'.port].mode
             /\ h'.pc # "probe"
  <2>1. h.pc = "ports" /\ row' = row
    BY <1>4 DEF HealthReadPort, db
  <2>2. CASE h' = PortDone(p)
    BY <1>1, <2>1, <2>2, PortDoneIs
  <2>3. CASE h' # PortDone(p)
    <3>1. PICK n \in Eligible(View(p)) :
            h' = [h EXCEPT !.pc = "switch", !.port = p, !.next = n, !.row = row[p]]
      BY <1>4, <2>3 DEF HealthReadPort
    <3> QED
      BY <1>1, <2>1, <3>1 DEF HealthTyped
  <2> QED
    BY <2>2, <2>3
<1>5. CASE HealthSwitch
  <2>1. h.pc = "switch" /\ row' = row
    BY <1>5 DEF HealthSwitch, db
  <2>2. CASE h' = PortDone(h.port)
    BY <1>1, <2>1, <2>2, PortDoneIs
  <2>3. CASE h' = [h EXCEPT !.pc = "write"]
    <3>1. h'.pc = "write" /\ h'.port = h.port /\ h'.row = h.row /\ h'.calm = h.calm
      BY <1>1, <2>3 DEF HealthTyped
    <3> QED
      BY <2>1, <3>1 DEF SeenAsStored
  <2> QED
    BY <1>5, <2>2, <2>3 DEF HealthSwitch
<1>6. CASE HealthWriteRow \/ HealthWriteFails
  BY <1>1, <1>6, PortDoneIs DEF HealthWriteRow, HealthWriteFails
<1>7. CASE \/ \E p \in Ports : HealthLanesRead(p)
           \/ HealthLanesWrite \/ HealthLanesFail \/ HealthReturn
  BY <1>1, <1>7, IdleHealthTyped
     DEF HealthLanesRead, HealthLanesWrite, HealthLanesFail, HealthReturn, HealthTyped
<1> QED
  BY <1>2, <1>3, <1>4, <1>5, <1>6, <1>7 DEF HealthStep

LEMMA AdminKeepsAsked ==
    ASSUME IInv, AskedFor, AdminStep
    PROVE  AskedFor'
<1>1. a \in Admins
  BY InvTyped
<1>2. ASSUME NEW pc, NEW op, NEW p, NEW n, Request(pc, op, p, n)
      PROVE  a'.pc = pc /\ a'.op = op
  BY <1>2 DEF Request, IdleAdmin
<1>3. CASE \/ \E p \in Ports, n \in DOMAIN nodes :
                \/ SwitchCheck(p, n)
                \/ \E op \in {"disable", "enable"} : DisableCheck(p, n, op)
           \/ \E p \in Ports : UnlockCheck(p)
  BY <1>2, <1>3 DEF SwitchCheck, DisableCheck, UnlockCheck, AskedFor
<1>4. CASE a' = IdleAdmin
  BY <1>4, IdleTyped DEF AskedFor
<1>5. CASE SwitchSelector /\ a' # IdleAdmin
  BY <1>1, <1>5 DEF SwitchSelector, AskedFor, Admins
<1>6. CASE AdminReadRow
  BY <1>1, <1>6 DEF AdminReadRow, AskedFor, Admins
<1> QED
  BY <1>3, <1>4, <1>5, <1>6 DEF AdminStep, AdminWriteRow, DisableCommit, AdminFails

LEMMA ChoicesInit == Init => ChoicesInv
<1> SUFFICES ASSUME Init PROVE ChoicesInv
  OBVIOUS
<1>1. IInv /\ nextId \in Nat /\ NoNode < nextId /\ RowsOfNodes
  BY InitInv, InvTyped
<1>2. r.pc = "idle" /\ r.calm = FALSE /\ h = IdleHealth /\ h.calm = FALSE /\ a = IdleAdmin
  BY IdleTyped DEF Init
<1>3. AskedFor
  BY <1>2, IdleTyped DEF AskedFor
<1>4. h.seen = <<>> /\ h.next = NoNode /\ a.node = NoNode /\ a.active = NoNode
  BY <1>2 DEF IdleHealth, IdleAdmin
<1>5. Cardinality(Keys) \in Nat \ {0}
  BY KeysAssumption, FS_CardinalityType, FS_EmptySet
<1>6. /\ nextId = Cardinality(Keys) + 1 /\ DOMAIN status = 1..Cardinality(Keys)
      /\ row = [p \in Ports |-> [active |-> 1, mode |-> "auto"]]
  BY DEF Init
<1>7. OldIds
  BY <1>1, <1>4, <1>5, <1>6 DEF OldIds
<1> QED
  BY <1>2, <1>3, <1>7 DEF ChoicesInv, IdleIsNotCalm, ReadAsStored, RowsUntouched, CarriesOver,
     SeenAsStored

LEMMA ChoicesStep == IInv /\ ChoicesInv /\ [Next]_vars => ChoicesInv'
<1> SUFFICES ASSUME IInv, ChoicesInv, [Next]_vars PROVE ChoicesInv'
  OBVIOUS
<1>1. /\ IdleIsNotCalm /\ AskedFor /\ OldIds /\ ReadAsStored /\ RowsUntouched /\ SeenAsStored
      /\ Typed /\ HealthTyped
  BY InvTyped DEF ChoicesInv
<1>2. CASE RefreshStep /\ a' = a /\ h' = Noticed(h)
  <2>1. AskedFor'
    BY <1>1, <1>2 DEF AskedFor
  <2> QED
    BY <1>1, <1>2, <2>1, RefreshKeepsOldIds, RefreshKeepsReads, NoticedSeen DEF ChoicesInv
<1>3. CASE HealthStep /\ a' = a /\ r' = Noticed(r)
  <2>1. AskedFor'
    BY <1>1, <1>3 DEF AskedFor
  <2> QED
    BY <1>1, <1>3, <2>1, HealthKeepsOldIds, NoticedReads, HealthKeepsSeen DEF ChoicesInv
<1>4. CASE AdminStep /\ r' = Noticed(r) /\ h' = Noticed(h)
  BY <1>1, <1>4, AdminKeepsOldIds, AdminKeepsAsked, NoticedReads, NoticedSeen DEF ChoicesInv
<1>5. CASE SingBoxExits /\ a' = a /\ r' = Noticed(r) /\ h' = Noticed(h)
  <2>1. AskedFor'
    BY <1>1, <1>5 DEF AskedFor
  <2>2. OldIds'
    BY <1>1, <1>5, NoticedHealth DEF SingBoxExits, OldIds, db
  <2> QED
    BY <1>1, <1>5, <2>1, <2>2, NoticedReads, NoticedSeen DEF ChoicesInv
<1>6. CASE Restart
  <2>1. PICK fresh \in SUBSET (Ports \ {Default}) :
          /\ row' = Relisted(row, fresh, row[Default])
          /\ r' \in {Begun("boot", Relisted(row, fresh, row[Default])),
                    [IdleRefresh EXCEPT !.pc = "build", !.kind = "stored"]}
    BY <1>6 DEF Restart
  <2> DEFINE rows == Relisted(row, fresh, row[Default])
  <2>2. UNCHANGED <<nodes, nextId, status>> /\ h' = IdleHealth /\ a' = IdleAdmin
    BY <1>6 DEF Restart
  <2>3. h'.calm = FALSE /\ h'.seen = <<>> /\ h'.next = NoNode
    BY <2>2 DEF IdleHealth
  <2>4. a'.pc = "idle" /\ a'.op = "none" /\ a'.node = NoNode /\ a'.active = NoNode
    BY <2>2 DEF IdleAdmin
  <2>5. /\ r'.pc \in {"read", "build"}
        /\ r'.pc = "read" => r' = Begun("boot", rows)
    BY <2>1 DEF Begun, IdleRefresh
  <2>6. OldIds'
    <3>1. \A p \in Ports : row'[p] = row[IF p \in fresh THEN Default ELSE p]
      BY <2>1, PortsAssumption DEF Relisted
    <3>2. \A p \in Ports : row'[p].active < nextId
      BY <1>1, <3>1, PortsAssumption DEF OldIds
    <3> QED
      BY <1>1, <2>2, <2>3, <2>4, <3>2, InvTyped DEF OldIds
  <2>7. ReadAsStored'
    <3> SUFFICES ASSUME r' = Begun("boot", rows), NEW p \in Ports
                 PROVE  /\ r'.want[p].key = KeyOf(row[p].active)' /\ r'.want[p].mode = row'[p].mode
                        /\ p \in r'.todo
      BY <2>5 DEF ReadAsStored
    <3>1. /\ r'.want = [q \in Ports |-> [key |-> KeyOf(rows[q].active), mode |-> rows[q].mode,
                                         off |-> {}, laned |-> FALSE,
                                         lanes |-> [l \in Lanes |-> NoKey]]]
          /\ r'.todo = Ports
      BY DEF Begun, IdleRefresh
    <3> HIDE DEF rows
    <3>2. row' = rows
      BY <2>1 DEF rows
    <3> QED
      BY <2>2, <3>1, <3>2 DEF KeyOf
  <2> QED
    BY <2>3, <2>4, <2>5, <2>6, <2>7 DEF ChoicesInv, IdleIsNotCalm, AskedFor, RowsUntouched,
       CarriesOver, SeenAsStored
<1>7. CASE UNCHANGED vars
  <2>1. UNCHANGED <<nodes, nextId, status, portNode, row, r, h, a>>
    BY <1>7 DEF vars, db
  <2>2. \A id : KeyOf(id)' = KeyOf(id)
    BY <2>1 DEF KeyOf
  <2>3. \A p : KeysOf(DisabledIn(p))' = KeysOf(DisabledIn(p))
    BY <2>1 DEF KeysOf, DisabledIn, View
  <2>4. RowsDone' = RowsDone /\ (CarriesOver' <=> CarriesOver)
    BY <2>1 DEF RowsDone, Carried, CarriesOver
  <2>5. OldIds' /\ IdleIsNotCalm' /\ AskedFor' /\ SeenAsStored'
    BY <1>1, <2>1 DEF OldIds, IdleIsNotCalm, AskedFor, SeenAsStored
  <2>6. ReadAsStored'
    BY <1>1, <2>1, <2>2, <2>3 DEF ReadAsStored
  <2>7. RowsUntouched'
    BY <1>1, <2>1, <2>2, <2>4 DEF RowsUntouched
  <2> QED
    BY <2>5, <2>6, <2>7 DEF ChoicesInv
<1> QED
  BY <1>2, <1>3, <1>4, <1>5, <1>6, <1>7 DEF Next

LEMMA ChoicesInvariance == Spec => [](IInv /\ ChoicesInv)
<1>1. Init => IInv /\ ChoicesInv
  BY InitInv, ChoicesInit
<1>2. IInv /\ ChoicesInv /\ [Next]_vars => (IInv /\ ChoicesInv)'
  BY StepInv, ChoicesStep
<1> QED
  BY <1>1, <1>2, PTL DEF Spec

-----------------------------------------------------------------------------
(* What is stored                                                           *)

AsStored == [p \in Ports |-> Stored(p)]

\* A port's choices, in terms of its row and its disabled nodes.
StoredAre ==
    \A p \in Ports :
        /\ Stored(p) \in Registry!Choice
        /\ Stored(p) = [key |-> KeyOf(row[p].active), mode |-> row[p].mode, off |-> Stored(p).off]
        /\ Stored(p).off \subseteq Range(nodes)
        /\ \A n \in DOMAIN nodes : nodes[n] \in Stored(p).off <=> n \in DisabledIn(p)

LEMMA StoredOnce == IInv => StoredAre
<1> SUFFICES ASSUME IInv, NEW p \in Ports
             PROVE  /\ Stored(p) \in Registry!Choice
                    /\ Stored(p) = [key |-> KeyOf(row[p].active), mode |-> row[p].mode,
                                    off |-> Stored(p).off]
                    /\ Stored(p).off \subseteq Range(nodes)
                    /\ \A n \in DOMAIN nodes : nodes[n] \in Stored(p).off <=> n \in DisabledIn(p)
  BY DEF StoredAre
<1>1. TypeOK /\ RowsOfNodes /\ IsTable(nodes, Keys) /\ row[p] \in Row
  BY InvTyped
<1>2. DisabledIn(p) \subseteq DOMAIN nodes
  BY DEF DisabledIn
<1>3. /\ Stored(p) = [key |-> KeyOf(row[p].active), mode |-> row[p].mode, off |-> Stored(p).off]
      /\ Stored(p).off = {nodes[n] : n \in DisabledIn(p)}
  BY <1>2 DEF Stored, KeysOf
<1>4. Stored(p).off \subseteq Range(nodes) /\ Range(nodes) \subseteq Keys
  BY <1>1, <1>2, <1>3 DEF Range, IsTable
<1>5. \A n \in DOMAIN nodes : nodes[n] \in Stored(p).off <=> n \in DisabledIn(p)
  BY <1>1, <1>2, <1>3 DEF RowsOfNodes
<1>6. Stored(p) \in Registry!Choice
  BY <1>1, <1>3, <1>4, KeyOfIs DEF Registry!Choice, Row
<1> QED
  BY <1>3, <1>4, <1>5, <1>6

LEMMA StoredThen == IInv' => StoredAre'
BY StoredOnce, PTL

\* Whoever leaves the statuses and the ports' rows alone leaves what is disabled, and
\* whom the ports follow.
LEMMA FlagsStay ==
    ASSUME UNCHANGED <<nodes, status, portNode>>
    PROVE  Following' = Following /\ \A p \in Ports : DisabledIn(p)' = DisabledIn(p)
BY DEF Following, Follows, KeysOf, DisabledIn, View

\* Where a port has a row for every node, those rows are what it has disabled.
LEMMA RowsTell ==
    ASSUME IInv, NEW p \in Ports, DOMAIN nodes \subseteq DOMAIN portNode[p]
    PROVE  \A n \in DOMAIN nodes : nodes[n] \in Stored(p).off <=> portNode[p][n]
<1>1. Typed /\ StoredAre
  BY InvTyped, StoredOnce
<1> QED
  BY <1>1, FlagIs DEF StoredAre

LEMMA RowsTellThen ==
    ASSUME IInv', NEW p \in Ports, DOMAIN nodes' \subseteq DOMAIN portNode'[p]
    PROVE  \A n \in DOMAIN nodes' : nodes'[n] \in Stored(p)'.off <=> portNode'[p][n]
<1>1. Typed' /\ StoredAre'
  BY StoredThen DEF IInv, Typed
<1> QED
  BY <1>1, NextFlagIs DEF StoredAre

\* What a port has disabled follows its nodes' flags.
LEMMA OffMoves ==
    ASSUME IInv, IInv', nodes' = nodes, NEW p \in Ports
    PROVE  /\ DisabledIn(p) \subseteq DisabledIn(p)' => Stored(p).off \subseteq Stored(p)'.off
           /\ DisabledIn(p)' \subseteq DisabledIn(p) => Stored(p)'.off \subseteq Stored(p).off
BY DEF Stored, KeysOf

\* A port whose row and whose disabled nodes stay keeps its choices.
LEMMA StoredSame ==
    ASSUME nodes' = nodes, NEW p \in Ports, row'[p] = row[p], DisabledIn(p)' = DisabledIn(p)
    PROVE  Stored(p)' = Stored(p)
BY DEF Stored, KeysOf, KeyOf

\* One port's choices change.
LEMMA OneStored ==
    ASSUME NEW p \in Ports, \A q \in Ports \ {p} : Stored(q)' = Stored(q)
    PROVE  AsStored' = [AsStored EXCEPT ![p] = Stored(p)']
BY DEF AsStored

LEMMA AllStored ==
    ASSUME \A q \in Ports : Stored(q)' = Stored(q)
    PROVE  AsStored' = AsStored
BY DEF AsStored

\* One of a port's choices changes.
LEMMA Amended ==
    ASSUME NEW c \in Registry!Choice, NEW x
    PROVE  /\ [c EXCEPT !.key = x] = [key |-> x, mode |-> c.mode, off |-> c.off]
           /\ [c EXCEPT !.off = x] = [key |-> c.key, mode |-> c.mode, off |-> x]
BY DEF Registry!Choice

\* What others find stored is what is chosen, or what a refresh has made of it so far.
LEMMA FoundOnce == IInv /\ ChoicesInv => AsStored \in Registry!Found
<1> SUFFICES ASSUME IInv, ChoicesInv PROVE AsStored \in Registry!Found
  OBVIOUS
<1>1. StoredAre /\ r \in Refreshes /\ IsTable(nodes, Keys) /\ DOMAIN nodes # {}
  BY InvTyped, StoredOnce DEF RowsOfNodes
<1>2. CASE ~ CarriesOver
  <2>1. Chosen = AsStored
    BY <1>2 DEF Chosen, AsStored
  <2>2. RefreshPhase # "carrying"
    BY <1>2 DEF RefreshPhase
  <2> QED
    BY <2>1, <2>2 DEF Registry!Found
<1>3. CASE CarriesOver
  <2>1. RefreshPhase = "carrying" /\ r.pc \in {"row", "disable", "lanes"} /\ r.calm
    BY <1>3 DEF RefreshPhase, CarriesOver
  <2>2. CarriedOver /\ RowsUntouched
    BY <2>1 DEF IInv, CalmRefresh, Carrying, ChoicesInv
  <2>3. ASSUME NEW p \in Ports PROVE Stored(p) \in Registry!Forgotten(Chosen[p])
    <3>1. Stored(p) \in Registry!Choice
      BY <1>1 DEF StoredAre
    <3>2. CASE p \notin r.todo
      <4>1. Chosen[p] = Stored(p)
        BY <3>2 DEF Chosen
      <4> QED
        BY <3>1, <4>1 DEF Registry!Forgotten
    <3>3. CASE p \in r.todo
      <4> DEFINE want == r.want[p]
                 now == Range(nodes)
      <4>1. /\ Chosen[p] = Awaited(p)
            /\ Awaited(p).off = want.off \cap now
            /\ want.key \in now => Awaited(p).key = want.key /\ Awaited(p).mode = want.mode
        BY <1>3, <3>3 DEF Chosen, Awaited
      <4>2. Stored(p).key = KeyOf(row[p].active) /\ Stored(p).mode = row[p].mode
        BY DEF Stored
      <4>3. Stored(p).off \subseteq want.off \cap now
        <5>1. OffKept(p) \/ OffFresh(p)
          BY <2>2 DEF CarriedOver
        <5>2. /\ Stored(p).off \subseteq now
              /\ \A n \in DOMAIN nodes : nodes[n] \in Stored(p).off <=> portNode[p][n]
          BY <1>1, <2>1, RowsTell DEF StoredAre, IInv, RowsRenewed, Renewed
        <5>3. ASSUME NEW key \in Stored(p).off PROVE key \in want.off
          <6>1. PICK n \in DOMAIN nodes : nodes[n] = key
            BY <5>2 DEF Range
          <6> QED
            BY <5>1, <5>2, <6>1 DEF OffKept, OffFresh
        <5> QED
          BY <5>2, <5>3
      <4>4. \/ Stored(p).key = NoKey \/ Stored(p).mode = "auto"
            \/ Stored(p).key = Awaited(p).key /\ Stored(p).mode = Awaited(p).mode
        <5>1. CASE p \in RowsDone
          <6>1. RowKept(p)
            BY <2>2, <5>1 DEF CarriedOver
          <6> QED
            BY <4>1, <4>2, <6>1 DEF RowKept
        <5>2. CASE p \notin RowsDone
          BY <1>3, <2>2, <4>2, <5>2 DEF RowsUntouched
        <5> QED
          BY <5>1, <5>2
      <4> QED
        BY <3>1, <4>1, <4>3, <4>4 DEF Registry!Forgotten
    <3> QED
      BY <3>2, <3>3
  <2>4. AsStored \in [Ports -> Registry!Choice]
    BY <1>1 DEF AsStored, StoredAre
  <2>5. \A p \in Ports : AsStored[p] \in Registry!Forgotten(Chosen[p])
    BY <2>3 DEF AsStored
  <2> QED
    BY <2>1, <2>4, <2>5 DEF Registry!Found
<1> QED
  BY <1>2, <1>3

-----------------------------------------------------------------------------
(* What others notice                                                       *)

\* A refresh that others interfere with is disturbed, and what is chosen is what
\* is stored.
LEMMA NoticedPhase ==
    ASSUME IInv, r' = Noticed(r)
    PROVE  /\ RefreshPhase' \in {RefreshPhase, Registry!Disturbed(RefreshPhase)}
           /\ ~ UNCHANGED <<db, box>> => /\ RefreshPhase' = Registry!Disturbed(RefreshPhase)
                                         /\ Chosen' = AsStored'
           /\ UNCHANGED <<db, box>> => RefreshPhase' = RefreshPhase /\ Chosen' = Chosen
<1>1. /\ r \in Refreshes /\ r' \in Refreshes /\ r'.pc = r.pc /\ r'.todo = r.todo
      /\ r'.want = r.want
      /\ (r'.calm => r.calm /\ UNCHANGED <<db, box>>)
  BY NoticedRefresh DEF IInv, CallersTyped, RefreshTyped
<1>2. r.calm \in BOOLEAN /\ r'.calm \in BOOLEAN
  BY <1>1 DEF Refreshes
<1>3. r'.calm = r.calm => RefreshPhase' = RefreshPhase
  BY <1>1 DEF RefreshPhase, CarriesOver
<1>4. ~ r'.calm => /\ RefreshPhase' = Registry!Disturbed(RefreshPhase)
                   /\ Chosen' = AsStored'
  <2>1. ~ r'.calm => RefreshPhase' = Registry!Disturbed(RefreshPhase)
    BY <1>1 DEF RefreshPhase, CarriesOver, Registry!Disturbed
  <2>2. ~ r'.calm => Chosen' = AsStored'
    BY DEF Chosen, AsStored, CarriesOver
  <2> QED
    BY <2>1, <2>2
<1>5. UNCHANGED <<db, box>> => r'.calm = r.calm /\ Chosen' = Chosen
  <2> SUFFICES ASSUME UNCHANGED <<db, box>> PROVE r'.calm = r.calm /\ Chosen' = Chosen
    OBVIOUS
  <2>1. r'.calm = r.calm
    BY <1>1 DEF Noticed, Refreshes
  <2>2. UNCHANGED <<nodes, status, portNode, row>>
    BY DEF db
  <2>3. CarriesOver' <=> CarriesOver
    BY <1>1, <2>1 DEF CarriesOver
  <2>4. \A p \in Ports : Stored(p)' = Stored(p) /\ Awaited(p)' = Awaited(p)
    BY <1>1, <2>2 DEF Stored, Awaited, KeyOf, KeysOf, DisabledIn, View, Range
  <2> QED
    BY <1>1, <2>1, <2>3, <2>4 DEF Chosen
<1> QED
  BY <1>1, <1>2, <1>3, <1>4, <1>5

LEMMA NoticedCheck ==
    ASSUME IInv, h' = Noticed(h)
    PROVE  /\ CheckPhase' \in {CheckPhase, Registry!Disturbed(CheckPhase)}
           /\ ~ UNCHANGED <<db, box>> => CheckPhase' = Registry!Disturbed(CheckPhase)
           /\ UNCHANGED <<db, box>> => CheckPhase' = CheckPhase
<1>1. /\ HealthTyped /\ HealthTyped' /\ h'.pc = h.pc
      /\ (h'.calm => h.calm /\ UNCHANGED <<db, box>>)
  BY NoticedHealth DEF IInv, CallersTyped
<1>2. h.calm \in BOOLEAN /\ h'.calm \in BOOLEAN
  BY <1>1 DEF HealthTyped
<1>3. h'.calm = h.calm => CheckPhase' = CheckPhase
  BY <1>1 DEF CheckPhase
<1>4. ~ h'.calm => CheckPhase' = Registry!Disturbed(CheckPhase)
  BY <1>1 DEF CheckPhase, Registry!Disturbed
<1>5. UNCHANGED <<db, box>> => h'.calm = h.calm
  BY <1>1 DEF Noticed, HealthTyped
<1> QED
  BY <1>1, <1>2, <1>3, <1>4, <1>5

\* A step of another activity that leaves what is stored alone.
LEMMA OthersPass ==
    ASSUME IInv, ChoicesInv, nodes' = nodes, AsStored' = AsStored, Following' = Following,
           r' = Noticed(r), CheckPhase' \in Registry!Overlapped(CheckPhase) \cup {"idle"},
           Requested' \in {Requested, Registry!NoRequest}
    PROVE  Registry!Next
<1>1. Range(nodes)' = Range(nodes)
  BY DEF Range
<1>2. CASE Chosen' = Chosen /\ RefreshPhase' \in Registry!Overlapped(RefreshPhase)
  <2>1. Registry!Pass
    BY <1>1, <1>2 DEF Registry!Pass
  <2> QED
    BY <2>1 DEF Registry!Next
<1>3. CASE ~ UNCHANGED <<db, box>> /\ RefreshPhase = "carrying"
  <2>1. RefreshPhase' = "disturbed" /\ Chosen' = AsStored
    BY <1>3, NoticedPhase DEF Registry!Disturbed
  <2>2. AsStored \in Registry!Found
    BY FoundOnce
  <2>3. Registry!Lapse
    BY <1>1, <1>3, <2>1, <2>2 DEF Registry!Lapse
  <2> QED
    BY <2>3 DEF Registry!Next
<1>4. CASE ~ UNCHANGED <<db, box>> /\ RefreshPhase # "carrying"
  <2>1. ~ CarriesOver
    BY <1>4 DEF RefreshPhase, CarriesOver
  <2>2. Chosen = AsStored
    BY <2>1 DEF Chosen, AsStored
  <2> QED
    BY <1>2, <1>4, <2>2, NoticedPhase DEF Registry!Overlapped
<1>5. CASE UNCHANGED <<db, box>>
  BY <1>2, <1>5, NoticedPhase DEF Registry!Overlapped
<1> QED
  BY <1>3, <1>4, <1>5

LEMMA RequestedIs ==
    /\ a = IdleAdmin => Requested = Registry!NoRequest
    /\ a'  = IdleAdmin => Requested' = Registry!NoRequest
    /\ nodes' = nodes /\ a' = a => Requested' = Requested
BY DEF Requested, Registry!NoRequest, IdleAdmin, KeyOf

\* A call of a refresh that changes none of the choices.
LEMMA RefreshPasses ==
    ASSUME IInv, nodes' = nodes, a' = a, h' = Noticed(h), Chosen' = Chosen,
           Following' = Following, RefreshPhase' \in Registry!Overlapped(RefreshPhase) \cup {"idle"}
    PROVE  Registry!Next
<1>1. Range(nodes)' = Range(nodes) /\ Requested' = Requested
  BY RequestedIs DEF Range
<1>2. CheckPhase' \in Registry!Overlapped(CheckPhase)
  BY NoticedCheck DEF Registry!Overlapped
<1>3. Registry!Pass
  BY <1>1, <1>2 DEF Registry!Pass
<1> QED
  BY <1>3 DEF Registry!Next

-----------------------------------------------------------------------------
(* The refresh                                                              *)

\* The transaction: a calm refresh is done with it, as far as others can tell.
LEMMA ReplaceIsStep ==
    ASSUME IInv, IInv', ChoicesInv, NEW list \in Lists,
           RefreshReplaceNodes(list), a' = a, h' = Noticed(h)
    PROVE  Registry!Next
<1> DEFINE keys == Range(nodes')
           first == nodes'[Least(DOMAIN nodes')]
<1>1. /\ Typed /\ r \in Refreshes /\ IsTable(nodes, Keys) /\ row \in [Ports -> Row]
      /\ nextId \in Nat /\ a \in Admins
  BY InvTyped
<1>2. /\ Least(DOMAIN nodes') = nextId /\ nextId \in DOMAIN nodes' /\ nextId' # nextId
      /\ \A n \in DOMAIN nodes' : nextId <= n /\ nodes'[n] \in Keys
  <2>1. /\ Least(DOMAIN nodes') = nextId /\ nextId \in DOMAIN nodes'
        /\ \A n \in DOMAIN nodes' : nextId <= n /\ n < nextId' /\ nodes'[n] \in Keys
        /\ nextId' \in Nat
    BY <1>1, ReplacedNodes DEF Ids
  <2>2. nextId' # nextId
    BY <1>1, <2>1
  <2> QED
    BY <2>1, <2>2
<1>3. keys \in (SUBSET Keys) \ {{}} /\ first \in keys
  <2>1. keys \subseteq Keys /\ first \in keys
    BY <1>2 DEF Range
  <2> QED
    BY <2>1
<1>4. ASSUME NEW id \in Nat, id < nextId PROVE KeyOf(id)' = NoKey
  <2>1. id \notin DOMAIN nodes'
    BY <1>1, <1>2, <1>4
  <2> QED
    BY <2>1 DEF KeyOf
<1>5. /\ r.pc = "read" /\ r.todo = {} /\ r'.pc = "row" /\ r'.todo = Ports /\ r'.want = r.want
      /\ r'.calm = r.calm
      /\ row' = [row EXCEPT ![Default] = [active |-> nextId, mode |-> "auto"]]
  BY <1>1, ReplacedNodes DEF RefreshReplaceNodes, Refreshes
<1>6. Chosen = AsStored
  BY <1>5 DEF Chosen, AsStored, CarriesOver
<1>7. Registry!Replace(keys)
  <2>1. Requested' = [Requested EXCEPT !.key = NoKey]
    <3>1. KeyOf(a.node)' = NoKey /\ KeyOf(a.active)' = NoKey
      BY <1>1, <1>4 DEF ChoicesInv, OldIds, Admins
    <3> QED
      BY <3>1 DEF Requested
  <2>2. CheckPhase' = Registry!Disturbed(CheckPhase)
    BY <1>2, NoticedCheck DEF db
  <2>3. Following' = [p \in Ports |-> {}]
    <3>1. \A p \in Ports : Follows(p)' = {}
      BY <1>1, ReplacedNodes DEF Follows
    <3>2. \A p \in Ports : KeysOf(Follows(p))' = {}
      BY <3>1 DEF KeysOf
    <3> QED
      BY <3>2 DEF Following
  <2> QED
    BY <2>1, <2>2, <2>3 DEF Registry!Replace, Range
<1> HIDE DEF keys, first
<1>8. CASE r.calm
  <2>1. RefreshPhase = "reading" /\ RefreshPhase' = "carrying"
    BY <1>5, <1>8 DEF RefreshPhase, CarriesOver
  <2>2. ASSUME NEW p \in Ports
        PROVE  Chosen'[p] = IF Chosen[p].key \in keys THEN [Chosen[p] EXCEPT !.off = @ \cap keys]
                            ELSE [key |-> first, mode |-> "auto", off |-> Chosen[p].off \cap keys]
    <3>1. Chosen'[p] = Awaited(p)'
      BY <1>5, <1>8 DEF Chosen, CarriesOver
    <3>2. /\ r.want[p].key = Stored(p).key /\ r.want[p].mode = Stored(p).mode
          /\ r.want[p].off = Stored(p).off
      BY <1>5, <1>8 DEF ChoicesInv, ReadAsStored, Stored
    <3>3. Awaited(p)' = [key |-> IF Stored(p).key \in keys THEN Stored(p).key ELSE first,
                         mode |-> IF Stored(p).key \in keys THEN Stored(p).mode ELSE "auto",
                         off |-> Stored(p).off \cap keys]
      BY <1>5, <3>2 DEF Awaited, keys, first, Range
    <3>4. Stored(p) = [key |-> Stored(p).key, mode |-> Stored(p).mode, off |-> Stored(p).off]
      BY DEF Stored
    <3>5. Chosen[p] = Stored(p)
      BY <1>6 DEF AsStored
    <3>6. [Stored(p) EXCEPT !.off = Stored(p).off \cap keys]
            = [key |-> Stored(p).key, mode |-> Stored(p).mode, off |-> Stored(p).off \cap keys]
      BY StoredOnce, Amended DEF StoredAre
    <3> HIDE DEF Stored
    <3> QED
      BY <3>1, <3>3, <3>4, <3>5, <3>6
  <2>3. Registry!Carry(keys, first)
    <3>1. Chosen' = [p \in Ports |-> Chosen'[p]]
      BY DEF Chosen
    <3> QED
      BY <1>7, <2>1, <2>2, <3>1 DEF Registry!Carry
  <2> QED
    BY <1>3, <2>3 DEF Registry!Next
<1>9. CASE ~ r.calm
  <2>1. RefreshPhase = "disturbed" /\ RefreshPhase' = "disturbed"
    BY <1>5, <1>9 DEF RefreshPhase, CarriesOver
  <2>2. Chosen' = AsStored'
    BY <1>5, <1>9 DEF Chosen, AsStored, CarriesOver
  <2>3. ASSUME NEW p \in Ports
        PROVE  /\ Stored(p)' \in Registry!Choice /\ Stored(p)'.off = {}
               /\ Stored(p)'.key = NoKey \/ Stored(p)'.mode = "auto"
    <3>1. StoredAre'
      BY StoredThen
    <3>2. Stored(p)'.off = {}
      <4>1. \A n \in DOMAIN nodes' : n \in DOMAIN portNode'[p] /\ portNode'[p][n] = FALSE
        BY <1>1, ReplacedNodes
      <4>2. /\ Stored(p)'.off \subseteq Range(nodes)'
            /\ \A n \in DOMAIN nodes' : nodes'[n] \in Stored(p)'.off <=> portNode'[p][n]
        BY <3>1, <4>1, RowsTellThen DEF StoredAre
      <4> QED
        BY <4>1, <4>2 DEF Range
    <3>3. Stored(p)'.key = KeyOf(row[p].active)' /\ Stored(p)'.mode = row'[p].mode
      BY DEF Stored
    <3>4. CASE p = Default
      BY <1>1, <1>5, <3>1, <3>2, <3>3, <3>4 DEF StoredAre
    <3>5. CASE p # Default
      <4>1. row'[p] = row[p] /\ row[p].active \in Nat /\ row[p].active < nextId
        BY <1>1, <1>5, <3>5 DEF ChoicesInv, OldIds, Row
      <4>2. KeyOf(row[p].active)' = NoKey
        BY <1>4, <4>1 DEF KeyOf
      <4> QED
        BY <3>1, <3>2, <3>3, <4>2 DEF StoredAre
    <3> QED
      BY <3>4, <3>5
  <2>4. Registry!DisturbedReplace(keys)
    <3>1. AsStored' \in [Ports -> {c \in Registry!Choice : c.off = {} /\ (c.key = NoKey \/ c.mode = "auto")}]
      BY <2>3 DEF AsStored
    <3> QED
      BY <1>7, <2>1, <2>2, <3>1 DEF Registry!DisturbedReplace
  <2> QED
    BY <1>3, <2>4 DEF Registry!Next
<1> QED
  BY <1>8, <1>9

\* A refresh that ends early may leave its work half done.
LEMMA GivesUp ==
    ASSUME IInv, ChoicesInv, nodes' = nodes, Following' = Following, a' = a, h' = Noticed(h),
           r' \in {GivenUp, IdleRefresh},
           CarriesOver => AsStored' \in Registry!Found,
           ~ CarriesOver => AsStored' = AsStored
    PROVE  Registry!Next
<1>1. r'.pc \in {"idle", "down"} /\ r'.calm = FALSE
  BY IdleTyped
<1>2. RefreshPhase' = "idle" /\ Chosen' = AsStored'
  BY <1>1 DEF RefreshPhase, Chosen, AsStored, CarriesOver
<1>3. CASE CarriesOver
  <2>1. RefreshPhase = "carrying"
    BY <1>3 DEF RefreshPhase, CarriesOver
  <2>2. Range(nodes)' = Range(nodes) /\ Requested' = Requested
    BY RequestedIs DEF Range
  <2>3. CheckPhase' \in Registry!Overlapped(CheckPhase)
    BY NoticedCheck DEF Registry!Overlapped
  <2>4. Registry!Lapse
    BY <1>2, <1>3, <2>1, <2>2, <2>3 DEF Registry!Lapse
  <2> QED
    BY <2>4 DEF Registry!Next
<1>4. CASE ~ CarriesOver
  <2>1. Chosen = AsStored
    BY <1>4 DEF Chosen, AsStored
  <2> QED
    BY <1>2, <1>4, <2>1, RefreshPasses
<1> QED
  BY <1>3, <1>4

\* A call of a calm refresh that carries over, for the port it is at.
LEMMA CarriesOn ==
    ASSUME IInv, IInv', CarriesOver, CarriesOver', nodes' = nodes, r'.want = r.want,
           r'.todo \subseteq r.todo,
           \A p \in r.todo \ r'.todo : Stored(p)' = Awaited(p),
           \A p \in Ports \ r.todo : Stored(p)' = Stored(p)
    PROVE  Chosen' = Chosen /\ RefreshPhase' = RefreshPhase
<1>1. \A p : Awaited(p)' = Awaited(p)
  BY DEF Awaited, Range
<1>2. \A p \in Ports : Chosen'[p] = Chosen[p]
  BY <1>1 DEF Chosen
<1>3. Chosen' = Chosen
  BY <1>2 DEF Chosen
<1>4. RefreshPhase' = RefreshPhase
  BY DEF RefreshPhase, CarriesOver
<1> QED
  BY <1>3, <1>4

\* A disturbed refresh writes what it has read of a port.
LEMMA WritesBack ==
    ASSUME IInv, IInv', nodes' = nodes, Following' = Following, a' = a, h' = Noticed(h),
           r.pc \in {"row", "disable"}, ~ r.calm, ~ r'.calm,
           NEW p \in Ports, Stored(p).off \subseteq Stored(p)'.off,
           \A q \in Ports \ {p} : Stored(q)' = Stored(q)
    PROVE  Registry!Next
<1>1. RefreshPhase = "disturbed" /\ RefreshPhase' \in {"disturbed", "idle"}
  BY DEF RefreshPhase, CarriesOver
<1>2. Chosen = AsStored /\ Chosen' = AsStored'
  BY DEF Chosen, AsStored, CarriesOver
<1>3. Chosen' = [Chosen EXCEPT ![p] = Stored(p)']
  BY <1>2, OneStored
<1>4. Stored(p)' \in Registry!Choice /\ Chosen[p].off \subseteq Stored(p)'.off
  BY <1>2, StoredThen DEF StoredAre, AsStored
<1>5. Range(nodes)' = Range(nodes) /\ Requested' = Requested
  BY RequestedIs DEF Range
<1>6. CheckPhase' \in Registry!Overlapped(CheckPhase)
  BY NoticedCheck DEF Registry!Overlapped
<1>7. Registry!DisturbedWrite(p)
  BY <1>1, <1>3, <1>4, <1>5, <1>6 DEF Registry!DisturbedWrite
<1> QED
  BY <1>7 DEF Registry!Next

LEMMA PortRowIsStep ==
    ASSUME IInv, IInv', ChoicesInv, NEW p \in Ports, RefreshPortRow(p), a' = a, h' = Noticed(h)
    PROVE  Registry!Next
<1>1. r \in Refreshes /\ row \in [Ports -> Row]
  BY InvTyped
<1>2. /\ r.pc = "row" /\ p \in r.todo /\ UNCHANGED <<nodes, status, portNode>>
      /\ r'.pc = "disable" /\ r'.todo = r.todo /\ r'.want = r.want /\ r'.calm = r.calm
  BY <1>1 DEF RefreshPortRow, Refreshes
<1>3. \A q \in Ports \ {p} : row'[q] = row[q]
  BY <1>1 DEF RefreshPortRow, PutRow
<1>4. \A q \in Ports \ {p} : Stored(q)' = Stored(q)
  BY <1>2, <1>3, FlagsStay, StoredSame
<1>5. CASE r.calm
  <2>1. CarriesOver /\ CarriesOver'
    BY <1>2, <1>5 DEF CarriesOver
  <2>2. Chosen' = Chosen /\ RefreshPhase' = RefreshPhase
    BY <1>2, <1>4, <2>1, CarriesOn
  <2> QED
    BY <1>2, <2>2, FlagsStay, RefreshPasses DEF Registry!Overlapped
<1>6. CASE ~ r.calm
  BY <1>2, <1>4, <1>6, FlagsStay, OffMoves, WritesBack
<1> QED
  BY <1>5, <1>6

LEMMA DisablesIsStep ==
    ASSUME IInv, IInv', ChoicesInv, RefreshDisables, a' = a, h' = Noticed(h)
    PROVE  Registry!Next
<1>1. r \in Refreshes /\ IsTable(nodes, Keys) /\ DOMAIN portNode = Ports /\ Typed
  BY InvTyped
<1>2. PICK p \in Ports : p = r.port
  BY <1>1 DEF Refreshes
<1> DEFINE all == {IdOf(key) : key \in r.want[p].off} \ {NoNode}
<1>3. PICK done \in SUBSET all :
        /\ portNode' = [portNode EXCEPT ![p] =
              [n \in DOMAIN portNode[p] \cup done |-> n \in done \/ portNode[p][n]]]
        /\ r' = IF done = all THEN [r EXCEPT !.pc = "lanes"] ELSE GivenUp
  BY <1>2 DEF RefreshDisables
<1>4. r.pc = "disable" /\ nodes' = nodes /\ row' = row
  BY DEF RefreshDisables
<1>5. \A n \in done : n \in DOMAIN nodes /\ nodes[n] \in r.want[p].off
  BY <1>1, IdOfIs
<1> HIDE DEF all
<1>6. /\ \A q \in Ports : DOMAIN nodes \subseteq DOMAIN portNode[q]
      /\ \A q \in Ports : DOMAIN nodes \subseteq DOMAIN portNode'[q]
      /\ \A q \in Ports \ {p} : portNode'[q] = portNode[q]
      /\ \A n \in DOMAIN nodes : portNode'[p][n] <=> n \in done \/ portNode[p][n]
  <2>1. \A q \in Ports : DOMAIN nodes \subseteq DOMAIN portNode[q]
    BY <1>4 DEF IInv, RowsRenewed, Renewed
  <2> QED
    BY <1>1, <1>3, <2>1
<1>7. /\ \A q \in Ports \ {p} : Stored(q)' = Stored(q)
      /\ DisabledIn(p) \subseteq DisabledIn(p)' /\ Following' = Following
  <2>1. \A q \in Ports, n \in DOMAIN nodes : n \in DisabledIn(q) <=> portNode[q][n]
    BY <1>1, <1>6, FlagIs
  <2>2. \A q \in Ports, n \in DOMAIN nodes : n \in DisabledIn(q)' <=> portNode'[q][n]
    BY <1>4, <1>6, NextFlagIs DEF IInv, Typed
  <2>3. \A q \in Ports : DisabledIn(q) \subseteq DOMAIN nodes /\ DisabledIn(q)' \subseteq DOMAIN nodes
    BY <1>4 DEF DisabledIn
  <2>4. \A q \in Ports \ {p} : DisabledIn(q)' = DisabledIn(q)
    BY <1>6, <2>1, <2>2, <2>3
  <2>5. DisabledIn(p) \subseteq DisabledIn(p)'
    BY <1>6, <2>1, <2>2, <2>3
  <2>6. Following' = Following
    BY <1>4, <1>6 DEF Following, Follows, KeysOf
  <2> QED
    BY <1>4, <2>4, <2>5, <2>6, StoredSame
<1>8. CASE ~ r.calm
  <2>1. ~ r'.calm
    BY <1>1, <1>3, <1>8, IdleTyped DEF Refreshes
  <2> QED
    BY <1>4, <1>7, <1>8, <2>1, OffMoves, WritesBack
<1>9. CASE r.calm
  <2>1. CarriesOver /\ CarriedOver /\ p \in r.todo
    BY <1>2, <1>4, <1>9 DEF CarriesOver, IInv, CalmRefresh, CarriedOver, Carrying
  <2>2. CASE done = all
    <3>1. r'.pc = "lanes" /\ r'.todo = r.todo /\ r'.want = r.want /\ r'.calm = r.calm
      BY <1>1, <1>3, <2>2 DEF Refreshes
    <3>2. CarriesOver'
      BY <1>9, <3>1 DEF CarriesOver
    <3>3. Chosen' = Chosen /\ RefreshPhase' = RefreshPhase
      BY <1>4, <1>7, <2>1, <3>1, <3>2, CarriesOn
    <3> QED
      BY <1>4, <1>7, <3>3, RefreshPasses DEF Registry!Overlapped
  <2>3. CASE done # all
    <3>1. RefreshPhase = "carrying"
      BY <2>1 DEF RefreshPhase, CarriesOver
    <3>2. AsStored \in [Ports -> Registry!Choice]
          /\ \A q \in Ports : AsStored[q] \in Registry!Forgotten(Chosen[q])
      BY <3>1, FoundOnce DEF Registry!Found
    <3>3. Stored(p)' \in Registry!Forgotten(Chosen[p])
      <4>1. Chosen[p] = Awaited(p) /\ Awaited(p).off = r.want[p].off \cap Range(nodes)
        BY <2>1 DEF Chosen, Awaited
      <4>2. Stored(p)'.off \subseteq r.want[p].off \cap Range(nodes)
        <5>1. OffFresh(p)
          BY <1>4, <2>1 DEF CarriedOver, OffDone, Carried
        <5>2. \A n \in DOMAIN nodes : portNode'[p][n] => nodes[n] \in r.want[p].off
          BY <1>5, <1>6, <5>1 DEF OffFresh
        <5>3. /\ Stored(p)'.off \subseteq Range(nodes)
              /\ \A n \in DOMAIN nodes : nodes[n] \in Stored(p)'.off <=> portNode'[p][n]
          BY <1>4, <1>6, StoredThen, RowsTellThen DEF StoredAre
        <5> QED
          BY <5>2, <5>3 DEF Range
      <4>3. Stored(p)'.key = Stored(p).key /\ Stored(p)'.mode = Stored(p).mode
        BY <1>4 DEF Stored, KeyOf
      <4>4. Stored(p)' \in Registry!Choice
        BY StoredThen DEF StoredAre
      <4>5. Stored(p) \in Registry!Forgotten(Chosen[p])
        BY <3>2 DEF AsStored
      <4> QED
        BY <4>1, <4>2, <4>3, <4>4, <4>5 DEF Registry!Forgotten
    <3>4. AsStored' \in Registry!Found
      <4>1. AsStored' = [AsStored EXCEPT ![p] = Stored(p)']
        BY <1>7, OneStored
      <4>2. Stored(p)' \in Registry!Choice
        BY StoredThen DEF StoredAre
      <4> QED
        BY <3>1, <3>2, <3>3, <4>1, <4>2 DEF Registry!Found
    <3>5. r' = GivenUp
      BY <1>3, <2>3
    <3> QED
      BY <1>4, <1>7, <2>1, <3>4, <3>5, GivesUp
  <2> QED
    BY <2>2, <2>3
<1> QED
  BY <1>8, <1>9

LEMMA LanesIsStep ==
    ASSUME IInv, IInv', ChoicesInv, RefreshLanes, a' = a, h' = Noticed(h)
    PROVE  Registry!Next
<1>1. r \in Refreshes /\ IsTable(nodes, Keys) /\ DOMAIN nodes # {}
  BY InvTyped DEF RowsOfNodes
<1>2. PICK p \in Ports : p = r.port
  BY <1>1 DEF Refreshes
<1>3. r.pc = "lanes" /\ UNCHANGED <<nodes, status, portNode, row>>
  BY DEF RefreshLanes
<1>4. Following' = Following /\ \A q \in Ports : Stored(q)' = Stored(q)
  BY <1>3, FlagsStay, StoredSame
<1>5. AsStored' = AsStored
  BY <1>4, AllStored
<1>6. CASE r' = GivenUp
  BY <1>3, <1>4, <1>5, <1>6, FoundOnce, GivesUp
<1>7. CASE r' # GivenUp
  <2>1. /\ r'.pc = IF r.todo = {p} THEN "build" ELSE "row"
        /\ r'.todo = r.todo \ {p} /\ r'.want = r.want /\ r'.calm = r.calm
    BY <1>1, <1>2, <1>7 DEF RefreshLanes, Refreshes
  <2>2. CASE ~ r.calm
    <3>1. RefreshPhase = "disturbed" /\ RefreshPhase' \in {"disturbed", "idle"}
      BY <1>3, <2>1, <2>2 DEF RefreshPhase, CarriesOver
    <3>2. Chosen' = Chosen
      BY <1>5, <2>1, <2>2 DEF Chosen, AsStored, CarriesOver
    <3> QED
      BY <1>3, <1>4, <3>1, <3>2, RefreshPasses DEF Registry!Overlapped
  <2>3. CASE r.calm
    <3>1. CarriesOver /\ CarriedOver
      BY <1>3, <2>3 DEF CarriesOver, IInv, CalmRefresh, Carrying
    <3>2. p \in r.todo /\ RowKept(p) /\ OffKept(p)
      BY <1>2, <1>3, <3>1 DEF CarriedOver, RowsDone, OffDone
    <3>3. Stored(p) = Awaited(p)
      <4>1. Stored(p).off = r.want[p].off \cap Range(nodes)
        <5>1. /\ Stored(p).off \subseteq Range(nodes)
              /\ \A n \in DOMAIN nodes : nodes[n] \in Stored(p).off <=> nodes[n] \in r.want[p].off
          BY <1>3, <3>2, StoredOnce, RowsTell DEF StoredAre, OffKept, IInv, RowsRenewed, Renewed
        <5> QED
          BY <5>1 DEF Range
      <4>2. Stored(p) = [key |-> KeyOf(row[p].active), mode |-> row[p].mode, off |-> Stored(p).off]
        BY DEF Stored
      <4>3. r.want[p].key \notin Range(nodes) => KeyOf(row[p].active) = nodes[Least(DOMAIN nodes)]
        BY <1>1, <3>2, FirstNodeIs DEF RowKept, KeyOf
      <4> QED
        BY <3>2, <4>1, <4>2, <4>3 DEF Awaited, RowKept
    <3>4. CASE r'.pc = "row"
      <4>1. CarriesOver'
        BY <2>1, <2>3, <3>4 DEF CarriesOver
      <4>2. Chosen' = Chosen /\ RefreshPhase' = RefreshPhase
        BY <1>3, <1>4, <2>1, <3>1, <3>3, <4>1, CarriesOn
      <4> QED
        BY <1>3, <1>4, <4>2, RefreshPasses DEF Registry!Overlapped
    <3>5. CASE r'.pc = "build"
      <4>1. RefreshPhase = "carrying" /\ RefreshPhase' = "settled"
        BY <2>1, <2>3, <3>1, <3>5 DEF RefreshPhase, CarriesOver
      <4>2. r.todo = {p} /\ ~ CarriesOver'
        BY <2>1, <3>5 DEF CarriesOver
      <4>3. \A q \in Ports : Chosen[q] = Stored(q)
        BY <3>3, <4>2 DEF Chosen
      <4>4. Chosen' = Chosen
        BY <1>4, <4>2, <4>3 DEF Chosen
      <4>5. Range(nodes)' = Range(nodes) /\ Requested' = Requested
        BY <1>3, RequestedIs DEF Range
      <4>6. CheckPhase' \in Registry!Overlapped(CheckPhase)
        BY NoticedCheck DEF Registry!Overlapped
      <4>7. Registry!Settle
        BY <1>4, <4>1, <4>4, <4>5, <4>6 DEF Registry!Settle
      <4> QED
        BY <4>7 DEF Registry!Next
    <3> QED
      BY <2>1, <3>4, <3>5
  <2> QED
    BY <2>2, <2>3
<1> QED
  BY <1>6, <1>7

\* A call of a refresh that is not at the choices of a port.
LEMMA ApartPasses ==
    ASSUME IInv, IInv', ChoicesInv, UNCHANGED <<nodes, status, portNode, row>>,
           a' = a, h' = Noticed(h),
           r.pc \notin {"row", "disable", "lanes"}, r'.pc \notin {"row", "disable", "lanes"},
           RefreshPhase' \in Registry!Overlapped(RefreshPhase) \cup {"idle"}
    PROVE  Registry!Next
<1>1. Following' = Following /\ \A q \in Ports : Stored(q)' = Stored(q)
  BY FlagsStay, StoredSame
<1>2. AsStored' = AsStored
  BY <1>1, AllStored
<1>3. Chosen' = AsStored' /\ Chosen = AsStored
  BY DEF Chosen, AsStored, CarriesOver
<1> QED
  BY <1>1, <1>2, <1>3, RefreshPasses

LEMMA BeginIsStep ==
    ASSUME IInv, IInv', ChoicesInv, RefreshBegin, a' = a, h' = Noticed(h)
    PROVE  Registry!Next
<1>1. r.pc = "idle" /\ ~ r.calm /\ r' = Begun("api", row) /\ UNCHANGED <<db, box>>
  BY DEF RefreshBegin, ChoicesInv, IdleIsNotCalm
<1>2. r'.pc = "read" /\ r'.calm = TRUE
  BY <1>1 DEF Begun, IdleRefresh
<1>3. RefreshPhase = "idle" /\ RefreshPhase' = "reading"
  BY <1>1, <1>2 DEF RefreshPhase, CarriesOver
<1>4. UNCHANGED <<nodes, status, portNode, row>>
  BY <1>1 DEF db
<1>5. Following' = Following /\ \A q \in Ports : Stored(q)' = Stored(q)
  BY <1>4, FlagsStay, StoredSame
<1>6. AsStored' = AsStored
  BY <1>5, AllStored
<1>7. Chosen' = Chosen
  BY <1>1, <1>2, <1>6 DEF Chosen, AsStored, CarriesOver
<1>8. Range(nodes)' = Range(nodes) /\ Requested' = Requested /\ CheckPhase' = CheckPhase
  BY <1>1, <1>4, NoticedCheck, RequestedIs DEF Range
<1>9. Registry!BeginRefresh
  BY <1>3, <1>5, <1>7, <1>8 DEF Registry!BeginRefresh
<1> QED
  BY <1>9 DEF Registry!Next

\* The calls that end a refresh, but for those that have written something.
LEMMA EndIsStep ==
    ASSUME IInv, IInv', ChoicesInv, r' \in {GivenUp, IdleRefresh},
           UNCHANGED <<nodes, status, portNode, row>>, a' = a, h' = Noticed(h)
    PROVE  Registry!Next
<1>1. Following' = Following /\ \A q \in Ports : Stored(q)' = Stored(q)
  BY FlagsStay, StoredSame
<1>2. AsStored' = AsStored
  BY <1>1, AllStored
<1> QED
  BY <1>1, <1>2, FoundOnce, GivesUp

LEMMA RefreshStepIsStep ==
    ASSUME IInv, IInv', ChoicesInv, RefreshStep, a' = a, h' = Noticed(h)
    PROVE  Registry!Next
<1>1. CASE \E p \in Ports : RefreshPortRow(p)
  BY <1>1, PortRowIsStep
<1>2. CASE RefreshDisables \/ RefreshLanes
  BY <1>2, DisablesIsStep, LanesIsStep
<1>3. CASE \E list \in Lists : RefreshReplaceNodes(list)
  BY <1>3, ReplaceIsStep
<1>4. CASE /\ \A p \in Ports : ~ RefreshPortRow(p)
           /\ ~ RefreshDisables /\ ~ RefreshLanes
           /\ \A list \in Lists : ~ RefreshReplaceNodes(list)
  <2>1. UNCHANGED <<nodes, status, portNode, row>>
    BY <1>4, RefreshKeeps
  <2>2. CASE r' \in {GivenUp, IdleRefresh}
    BY <2>1, <2>2, EndIsStep
  <2>3. CASE RefreshBegin
    BY <2>3, BeginIsStep
  <2>4. CASE \E p \in Ports : RefreshReadPort(p)
    <3>1. r.pc = "read" /\ r'.pc = "read" /\ r'.calm = r.calm
      BY <2>4, InvTyped DEF RefreshReadPort, Refreshes
    <3>2. RefreshPhase' = RefreshPhase
      BY <3>1 DEF RefreshPhase, CarriesOver
    <3> QED
      BY <2>1, <3>1, <3>2, ApartPasses DEF Registry!Overlapped
  <2>5. CASE \/ ApplyCheck \/ ApplyStop \/ ApplyStart \/ RefreshLanesWrite
             \/ \E p \in Ports : RefreshLanesRead(p)
    <3> SUFFICES ASSUME r' \notin {GivenUp, IdleRefresh} PROVE Registry!Next
      BY <2>2
    <3>1. /\ r.pc \in {"build", "stop", "start", "lanesRead", "lanesWrite"}
          /\ r'.pc \in {"stop", "start", "lanesRead", "lanesWrite", "done"}
          /\ r'.calm = r.calm
      BY <2>5, InvTyped DEF ApplyCheck, ApplyStop, ApplyStart, RefreshLanesWrite,
         RefreshLanesRead, Refreshes
    <3>2. RefreshPhase' = RefreshPhase
      BY <3>1 DEF RefreshPhase, CarriesOver
    <3> QED
      BY <2>1, <3>1, <3>2, ApartPasses DEF Registry!Overlapped
  <2> QED
    BY <1>4, <2>2, <2>3, <2>4, <2>5, RefreshMoves
<1> QED
  BY <1>1, <1>2, <1>3, <1>4

-----------------------------------------------------------------------------
(* The health check                                                         *)

\* Whoever leaves the tables alone leaves the choices alone.
LEMMA StoredStay ==
    ASSUME UNCHANGED <<nodes, status, portNode, row>>
    PROVE  AsStored' = AsStored /\ Following' = Following
BY FlagsStay, StoredSame, AllStored

\* One node is disabled or enabled for port p, on the default port globally as well:
\* that port and those that follow it have it so, and p itself follows nobody in it.
LEMMA FlagWritten ==
    ASSUME IInv, IInv', nodes' = nodes, row' = row,
           NEW p \in Ports, NEW m, NEW off \in BOOLEAN,
           portNode' = [portNode EXCEPT ![p] = Upsert(@, m, off)],
           \A n \in DOMAIN nodes :
               status'[n].disabled <=> IF p = Default /\ n = m THEN off ELSE status[n].disabled
    PROVE  /\ AsStored' = Registry!Flagged(AsStored, p, KeyOf(m), off)
           /\ Following' = [Following EXCEPT ![p] = @ \ {KeyOf(m)}]
           /\ p = Default => Following' = Following
           /\ AsStored' # AsStored => m \in DOMAIN nodes
<1>1. /\ Typed /\ RowsOfNodes /\ DefaultMirrored /\ DOMAIN portNode = Ports
      /\ IsTable(nodes, Keys) /\ Typed' /\ DOMAIN nodes \subseteq DOMAIN status
  BY InvTyped DEF IInv, Typed, RowsOfNodes
<1>2. /\ \A q \in Ports \ {p} : portNode'[q] = portNode[q]
      /\ DOMAIN portNode'[p] = DOMAIN portNode[p] \cup {m}
      /\ \A n \in DOMAIN portNode'[p] : portNode'[p][n] = IF n = m THEN off ELSE portNode[p][n]
  BY <1>1 DEF Upsert
<1>3. /\ \A n \in DOMAIN nodes : nodes[n] \in Keys /\ nodes[n] # NoKey
      /\ \A n \in DOMAIN nodes : nodes[n] = KeyOf(m) <=> n = m
      /\ m \in DOMAIN nodes \/ KeyOf(m) = NoKey
  BY <1>1, KeysAssumption DEF IsTable, RowsOfNodes, KeyOf
<1>4. \A q \in Ports : /\ Following[q] \subseteq Range(nodes)
                       /\ \A n \in DOMAIN nodes : nodes[n] \in Following[q] <=> n \notin DOMAIN portNode[q]
                       /\ KeyOf(m) \in Following[q] <=> m \in DOMAIN nodes \ DOMAIN portNode[q]
  <2>1. \A q \in Ports : Following[q] = {nodes[n] : n \in DOMAIN nodes \ DOMAIN portNode[q]}
    BY DEF Following, Follows, KeysOf
  <2>2. \A q \in Ports, n \in DOMAIN nodes : nodes[n] \in Following[q] <=> n \notin DOMAIN portNode[q]
    BY <1>1, <2>1 DEF RowsOfNodes
  <2>3. \A q \in Ports : KeyOf(m) \in Following[q] <=> m \in DOMAIN nodes \ DOMAIN portNode[q]
    BY <1>3, <2>1, <2>2
  <2> QED
    BY <2>1, <2>2, <2>3 DEF Range
<1>5. ASSUME NEW q \in Ports
      PROVE  \A n \in DOMAIN nodes : n \in DisabledIn(q)' <=>
                IF n = m /\ q \in Registry!Heeding(p, KeyOf(m)) THEN off ELSE n \in DisabledIn(q)
  <2> SUFFICES ASSUME NEW n \in DOMAIN nodes
               PROVE  n \in DisabledIn(q)' <=>
                        IF n = m /\ q \in Registry!Heeding(p, KeyOf(m)) THEN off ELSE n \in DisabledIn(q)
    OBVIOUS
  <2>1. n \in DisabledIn(q) <=> IF n \in DOMAIN portNode[q] THEN portNode[q][n] ELSE status[n].disabled
    BY <1>1, FlagIs
  <2>2. n \in DisabledIn(q)' <=> IF n \in DOMAIN portNode'[q] THEN portNode'[q][n] ELSE status'[n].disabled
    BY <1>1, NextFlagIs
  <2>3. q \in Registry!Heeding(p, KeyOf(m)) <=>
          q = p \/ (p = Default /\ m \in DOMAIN nodes /\ m \notin DOMAIN portNode[q])
    BY <1>4 DEF Registry!Heeding
  <2>4. CASE n # m
    <3>1. n \in DOMAIN portNode'[q] <=> n \in DOMAIN portNode[q]
      BY <1>2, <2>4
    <3>2. n \in DOMAIN portNode[q] => portNode'[q][n] = portNode[q][n]
      BY <1>2, <2>4, <3>1
    <3> QED
      BY <2>1, <2>2, <2>4, <3>1, <3>2
  <2>5. CASE n = m /\ q = p
    BY <1>2, <2>2, <2>3, <2>5
  <2>6. CASE n = m /\ q # p
    BY <1>2, <2>1, <2>2, <2>3, <2>6
  <2> QED
    BY <2>4, <2>5, <2>6
<1>6. ASSUME NEW q \in Ports
      PROVE  Stored(q)' = IF q \notin Registry!Heeding(p, KeyOf(m)) THEN Stored(q)
                          ELSE [Stored(q) EXCEPT !.off = IF off THEN @ \cup ({KeyOf(m)} \ {NoKey})
                                                         ELSE @ \ {KeyOf(m)}]
  <2>1. /\ Stored(q) = [key |-> KeyOf(row[q].active), mode |-> row[q].mode, off |-> Stored(q).off]
        /\ Stored(q)' = [key |-> KeyOf(row[q].active), mode |-> row[q].mode, off |-> Stored(q)'.off]
    BY DEF Stored, KeyOf
  <2>2. /\ Stored(q).off = {nodes[n] : n \in DisabledIn(q)} /\ DisabledIn(q) \subseteq DOMAIN nodes
        /\ Stored(q)'.off = {nodes[n] : n \in DisabledIn(q)'} /\ DisabledIn(q)' \subseteq DOMAIN nodes
    BY DEF Stored, KeysOf, DisabledIn
  <2>3. CASE q \notin Registry!Heeding(p, KeyOf(m))
    <3>1. DisabledIn(q)' = DisabledIn(q)
      BY <1>5, <2>2, <2>3
    <3> QED
      BY <2>1, <2>2, <2>3, <3>1
  <2>4. CASE q \in Registry!Heeding(p, KeyOf(m))
    <3>1. \A n \in DOMAIN nodes : n \in DisabledIn(q)' <=> IF n = m THEN off ELSE n \in DisabledIn(q)
      BY <1>5, <2>4
    <3>2. Stored(q)'.off = IF off THEN Stored(q).off \cup ({KeyOf(m)} \ {NoKey})
                           ELSE Stored(q).off \ {KeyOf(m)}
      <4>1. CASE m \notin DOMAIN nodes
        <5>1. DisabledIn(q)' = DisabledIn(q)
          BY <2>2, <3>1, <4>1
        <5>2. KeyOf(m) = NoKey /\ NoKey \notin Stored(q).off
          BY <1>3, <2>2, <4>1
        <5> QED
          BY <2>2, <5>1, <5>2
      <4>2. CASE m \in DOMAIN nodes /\ off
        <5>1. DisabledIn(q)' = DisabledIn(q) \cup {m}
          BY <2>2, <3>1, <4>2
        <5>2. KeyOf(m) = nodes[m] /\ KeyOf(m) # NoKey
          BY <1>3, <4>2
        <5> QED
          BY <2>2, <4>2, <5>1, <5>2
      <4>3. CASE m \in DOMAIN nodes /\ ~ off
        <5>1. DisabledIn(q)' = DisabledIn(q) \ {m}
          BY <2>2, <3>1, <4>3
        <5>2. \A n \in DOMAIN nodes : nodes[n] = KeyOf(m) <=> n = m
          BY <1>3
        <5> QED
          BY <2>2, <4>3, <5>1, <5>2
      <4> QED
        BY <4>1, <4>2, <4>3
    <3> HIDE DEF Stored
    <3> QED
      BY <2>1, <2>4, <3>2
  <2> QED
    BY <2>3, <2>4
<1>7. AsStored' = Registry!Flagged(AsStored, p, KeyOf(m), off)
  BY <1>6 DEF AsStored, Registry!Flagged
<1>8. ASSUME NEW q \in Ports
      PROVE  Following'[q] = IF q = p THEN Following[q] \ {KeyOf(m)} ELSE Following[q]
  <2>1. /\ Following'[q] = {nodes[n] : n \in DOMAIN nodes \ DOMAIN portNode'[q]}
        /\ Following[q] = {nodes[n] : n \in DOMAIN nodes \ DOMAIN portNode[q]}
    BY DEF Following, Follows, KeysOf
  <2> QED
    BY <1>2, <1>3, <2>1
<1>9. Following' = [Following EXCEPT ![p] = @ \ {KeyOf(m)}]
  BY <1>8 DEF Following
<1>10. p = Default => Following' = Following
  <2>1. Following[Default] = {}
    <3>1. Follows(Default) = {}
      BY <1>1 DEF Follows, DefaultMirrored
    <3>2. KeysOf(Follows(Default)) = {}
      BY <3>1 DEF KeysOf
    <3> QED
      BY <3>2, PortsAssumption DEF Following
  <2> QED
    BY <1>8, <2>1 DEF Following
<1>11. m \notin DOMAIN nodes => AsStored' = AsStored
  <2> SUFFICES ASSUME m \notin DOMAIN nodes, NEW q \in Ports PROVE Stored(q)' = Stored(q)
    BY AllStored
  <2>1. DisabledIn(q)' = DisabledIn(q)
    BY <1>5 DEF DisabledIn
  <2> QED
    BY <2>1, StoredSame
<1> QED
  BY <1>7, <1>9, <1>10, <1>11

\* The choices of one port change.
LEMMA AmendedPort ==
    ASSUME IInv, IInv', NEW p \in Ports, \A q \in Ports \ {p} : Stored(q)' = Stored(q)
    PROVE  LET then == Stored(p)'
           IN  /\ then.off = Stored(p).off =>
                    AsStored' = [AsStored EXCEPT ![p].key = then.key, ![p].mode = then.mode]
               /\ then.off = Stored(p).off /\ then.mode = Stored(p).mode =>
                    AsStored' = [AsStored EXCEPT ![p].key = then.key]
               /\ then.key = Stored(p).key /\ then.mode = Stored(p).mode =>
                    AsStored' = [AsStored EXCEPT ![p].off = then.off]
<1> DEFINE then == Stored(p)'
           now == Stored(p)
<1>1. /\ now \in Registry!Choice /\ then \in Registry!Choice
      /\ AsStored \in [Ports -> Registry!Choice]
  BY StoredOnce, StoredThen DEF StoredAre, AsStored
<1>2. AsStored[p] = now
  BY DEF AsStored
<1>3. AsStored' = [AsStored EXCEPT ![p] = then]
  BY OneStored
<1> HIDE DEF then, now
<1>4. /\ now = [key |-> now.key, mode |-> now.mode, off |-> now.off]
      /\ then = [key |-> then.key, mode |-> then.mode, off |-> then.off]
  BY <1>1 DEF Registry!Choice
<1>5. [AsStored EXCEPT ![p].key = then.key]
        = [AsStored EXCEPT ![p] = [key |-> then.key, mode |-> now.mode, off |-> now.off]]
  BY <1>1, <1>2, Amended
<1>6. [AsStored EXCEPT ![p].off = then.off]
        = [AsStored EXCEPT ![p] = [key |-> now.key, mode |-> now.mode, off |-> then.off]]
  BY <1>1, <1>2, Amended
<1>7. [AsStored EXCEPT ![p].key = then.key, ![p].mode = then.mode]
        = [AsStored EXCEPT ![p] = [key |-> then.key, mode |-> then.mode, off |-> now.off]]
  <2>1. [AsStored EXCEPT ![p].key = then.key, ![p].mode = then.mode]
          = [AsStored EXCEPT ![p] = [[now EXCEPT !.key = then.key] EXCEPT !.mode = then.mode]]
    BY <1>1, <1>2
  <2>2. [now EXCEPT !.key = then.key] = [key |-> then.key, mode |-> now.mode, off |-> now.off]
    BY <1>1, Amended
  <2>3. [[key |-> then.key, mode |-> now.mode, off |-> now.off] EXCEPT !.mode = then.mode]
          = [key |-> then.key, mode |-> then.mode, off |-> now.off]
    OBVIOUS
  <2> QED
    BY <2>1, <2>2, <2>3
<1>8. /\ then.off = now.off =>
            AsStored' = [AsStored EXCEPT ![p].key = then.key, ![p].mode = then.mode]
      /\ then.off = now.off /\ then.mode = now.mode =>
            AsStored' = [AsStored EXCEPT ![p].key = then.key]
      /\ then.key = now.key /\ then.mode = now.mode =>
            AsStored' = [AsStored EXCEPT ![p].off = then.off]
  BY <1>3, <1>4, <1>5, <1>6, <1>7
<1> QED
  BY <1>8 DEF then, now

\* Whoever changes the choices disturbs a refresh, and finds them as far as it has come.
LEMMA Changed ==
    ASSUME IInv, IInv', ChoicesInv, nodes' = nodes, ~ UNCHANGED db
    PROVE  /\ ~ UNCHANGED <<db, box>> /\ Range(nodes)' = Range(nodes)
           /\ AsStored \in Registry!Found
           /\ r' = Noticed(r) => /\ RefreshPhase' = Registry!Disturbed(RefreshPhase)
                                 /\ Chosen' = AsStored'
           /\ h' = Noticed(h) => CheckPhase' = Registry!Disturbed(CheckPhase)
<1>1. ~ UNCHANGED <<db, box>>
  OBVIOUS
<1> QED
  BY <1>1, FoundOnce, NoticedPhase, NoticedCheck DEF Range

\* Where a health check is after each of its calls.
LEMMA HealthMoves ==
    ASSUME IInv, HealthStep, ~ HealthBegin
    PROVE  /\ CheckPhase' \in Registry!Overlapped(CheckPhase) \cup {"idle"}
           /\ CheckPhase = "disturbed" => CheckPhase' \in {CheckPhase, "idle"}
           /\ HealthWriteRow => CheckPhase' \in {CheckPhase, "idle"}
<1>1. Typed /\ HealthTyped
  BY InvTyped
<1>2. CASE h' = IdleHealth
  BY <1>2, IdleHealthTyped DEF CheckPhase
<1>3. ASSUME NEW up \in BOOLEAN, HealthProbe(up)
      PROVE  h.pc = "probe" /\ h'.pc \in {"probe", "ports"} /\ (h'.calm => h.calm)
  BY <1>1, <1>3, ProbeIs DEF HealthProbe
<1>4. ASSUME NEW p, h' = PortDone(p) \/ h' = [PortDone(p) EXCEPT !.calm = FALSE],
             h.pc \in {"ports", "switch", "write"}
      PROVE  /\ h'.pc \in {"ports", "lanesRead"} /\ (h'.calm => h.calm)
             /\ h' = PortDone(p) => h'.calm = h.calm
  BY <1>1, <1>4, PortDoneIs DEF PortDone, HealthTyped
<1>5. ASSUME NEW p \in Ports, HealthReadPort(p)
      PROVE  h.pc = "ports" /\ h'.pc \in {"ports", "lanesRead", "switch"} /\ h'.calm = h.calm
  <2>1. h.pc = "ports"
    BY <1>5 DEF HealthReadPort
  <2>2. CASE h' = PortDone(p)
    BY <1>4, <2>1, <2>2
  <2>3. CASE h' # PortDone(p)
    BY <1>1, <1>5, <2>1, <2>3 DEF HealthReadPort, HealthTyped
  <2> QED
    BY <2>2, <2>3
<1>6. HealthSwitch => /\ h.pc = "switch" /\ h'.pc \in {"write", "ports", "lanesRead"}
                      /\ h'.calm = h.calm
  BY <1>1, <1>4 DEF HealthSwitch, HealthTyped
<1>7. HealthWriteRow => h.pc = "write" /\ h'.pc \in {"ports", "lanesRead"} /\ h'.calm = h.calm
  BY <1>4 DEF HealthWriteRow
<1>8. HealthWriteFails =>
        h.pc = "write" /\ h'.pc \in {"ports", "lanesRead"} /\ (h'.calm => h.calm)
  BY <1>4 DEF HealthWriteFails
<1>9. HealthLanesWrite \/ (\E p \in Ports : HealthLanesRead(p)) =>
        h.pc \in {"lanesRead", "lanesWrite"} /\ h'.pc \in {"lanesRead", "lanesWrite", "done"}
  BY <1>1 DEF HealthLanesWrite, HealthLanesRead, HealthTyped
<1>10. CASE /\ h.pc \in {"probe", "ports", "switch", "write"}
            /\ h'.pc \in {"probe", "ports", "switch", "write", "lanesRead"}
            /\ (h'.calm => h.calm) /\ (HealthWriteRow => h'.calm = h.calm)
  BY <1>10 DEF CheckPhase, Registry!Overlapped, Registry!Disturbed
<1>11. CASE h'.pc \in {"lanesRead", "lanesWrite", "done"}
  BY <1>11 DEF CheckPhase
<1> QED
  BY <1>2, <1>3, <1>5, <1>6, <1>7, <1>8, <1>9, <1>10, <1>11
     DEF HealthStep, HealthLanesFail, HealthReturn

\* A probe writes one node's flag, or nothing.
LEMMA ProbeWrites ==
    ASSUME IInv, IInv', NEW up \in BOOLEAN, HealthProbe(up)
    PROVE  LET m == Least(h.todo)
               off == h.seen[m].disabled
           IN  /\ m \in h.todo /\ off \in BOOLEAN
               /\ \/ UNCHANGED <<nodes, status, portNode, row>>
                  \/ /\ UNCHANGED <<nodes, row>>
                     /\ portNode' = [portNode EXCEPT ![Default] = Upsert(@, m, off)]
                     /\ \A n \in DOMAIN nodes :
                          status'[n].disabled <=> IF n = m THEN off ELSE status[n].disabled
<1> DEFINE m == Least(h.todo)
           off == h.seen[m].disabled
           st == [state |-> IF up THEN "active" ELSE "cooldown", disabled |-> off]
<1>1. Typed /\ HealthTyped /\ DOMAIN nodes \subseteq DOMAIN status
  BY InvTyped DEF RowsOfNodes
<1>2. /\ m \in h.todo /\ st \in NodeRow
      /\ \/ UNCHANGED <<status, portNode>>
         \/ /\ status' = Upsert(status, m, st)
            /\ portNode' = [portNode EXCEPT ![Default] = Upsert(@, m, st.disabled)]
  BY <1>1, ProbeIs
<1>3. st.disabled = off /\ off \in BOOLEAN
  BY <1>2 DEF NodeRow
<1>4. nodes' = nodes /\ row' = row
  BY DEF HealthProbe
<1> HIDE DEF m, off, st
<1>5. status' = Upsert(status, m, st) =>
        \A n \in DOMAIN nodes : status'[n].disabled <=> IF n = m THEN off ELSE status[n].disabled
  BY <1>1, <1>3 DEF Upsert
<1> QED
  BY <1>2, <1>3, <1>4, <1>5 DEF m, off

LEMMA ProbeFollows ==
    ASSUME IInv, IInv', NEW up \in BOOLEAN, HealthProbe(up)
    PROVE  Following' = Following
BY ProbeWrites, FlagWritten, FlagsStay, PortsAssumption

\* A call that leaves the choices alone.
LEMMA HealthPasses ==
    ASSUME IInv, IInv', ChoicesInv, HealthStep, ~ HealthBegin, a' = a, r' = Noticed(r),
           AsStored' = AsStored
    PROVE  Registry!Next
<1>1. nodes' = nodes /\ Requested' = Requested
  BY HealthKeeps, RequestedIs
<1>2. CheckPhase' \in Registry!Overlapped(CheckPhase) \cup {"idle"}
  BY HealthMoves
<1>3. Following' = Following
  BY HealthKeeps, FlagsStay, ProbeFollows
<1> QED
  BY <1>1, <1>2, <1>3, OthersPass

LEMMA ProbeIsStep ==
    ASSUME IInv, IInv', ChoicesInv, NEW up \in BOOLEAN, HealthProbe(up), HealthStep, ~ HealthBegin,
           a' = a, r' = Noticed(r), AsStored' # AsStored
    PROVE  Registry!Next
<1> DEFINE m == Least(h.todo)
           off == h.seen[m].disabled
<1>1. /\ Typed /\ DefaultMirrored /\ IsTable(nodes, Keys)
  BY InvTyped
<1>2. h.pc = "probe" /\ nodes' = nodes /\ row' = row /\ Requested' = Requested
  BY RequestedIs DEF HealthProbe
<1>3. /\ ~ UNCHANGED <<nodes, status, portNode, row>> /\ ~ UNCHANGED db
      /\ m \in h.todo /\ off \in BOOLEAN
      /\ portNode' = [portNode EXCEPT ![Default] = Upsert(@, m, off)]
      /\ \A n \in DOMAIN nodes : status'[n].disabled <=> IF n = m THEN off ELSE status[n].disabled
  BY ProbeWrites, StoredStay DEF db
<1> HIDE DEF m, off
<1>4. /\ AsStored' = Registry!Flagged(AsStored, Default, KeyOf(m), off)
      /\ Following' = Following /\ m \in DOMAIN nodes
  BY <1>2, <1>3, FlagWritten, PortsAssumption
<1>5. KeyOf(m) \in Keys
  BY <1>1, <1>4 DEF KeyOf, IsTable
<1>6. ~ h.calm
  <2> SUFFICES ASSUME h.calm, NEW q \in Ports PROVE Stored(q)' = Stored(q)
    BY AllStored
  <2>1. \A n \in DOMAIN nodes : status'[n].disabled <=> status[n].disabled
    BY <1>2, <1>3, <1>4 DEF ChoicesInv, SeenAsStored, off
  <2>2. \A n \in DOMAIN nodes : n \in DisabledIn(q)' <=> n \in DisabledIn(q)
    <3> SUFFICES ASSUME NEW n \in DOMAIN nodes PROVE n \in DisabledIn(q)' <=> n \in DisabledIn(q)
      OBVIOUS
    <3>1. Typed' /\ DefaultMirrored' /\ DOMAIN portNode = Ports
          /\ DOMAIN nodes \subseteq DOMAIN status /\ DOMAIN nodes \subseteq DOMAIN status'
      BY <1>1, <1>2 DEF IInv, Typed, TypeOK, RowsOfNodes
    <3>2. CASE q = Default
      <4>1. n \in DisabledIn(Default) <=> status[n].disabled
        BY <1>1, <3>1, FlagIs, PortsAssumption DEF DefaultMirrored
      <4>2. n \in DisabledIn(Default)' <=> status'[n].disabled
        BY <1>2, <3>1, NextFlagIs, PortsAssumption DEF DefaultMirrored
      <4> QED
        BY <2>1, <3>2, <4>1, <4>2
    <3>3. CASE q # Default
      <4>1. portNode'[q] = portNode[q]
        BY <1>3, <3>1, <3>3
      <4> QED
        BY <1>1, <1>2, <2>1, <3>1, <4>1, FlagIs, NextFlagIs
    <3> QED
      BY <3>2, <3>3
  <2>3. DisabledIn(q)' = DisabledIn(q)
    BY <1>2, <2>2 DEF DisabledIn
  <2> QED
    BY <1>2, <2>3, StoredSame
<1>7. CheckPhase = "disturbed" /\ CheckPhase' \in {CheckPhase, "idle"}
  BY <1>2, <1>6, HealthMoves DEF CheckPhase
<1>8. Registry!DisturbedProbe(KeyOf(m))
  BY <1>2, <1>3, <1>4, <1>7, Changed DEF Registry!DisturbedProbe, Registry!Checked
<1> QED
  BY <1>5, <1>8 DEF Registry!Next

LEMMA HealthWriteIsStep ==
    ASSUME IInv, IInv', ChoicesInv, HealthWriteRow, HealthStep, ~ HealthBegin,
           a' = a, r' = Noticed(r), AsStored' # AsStored
    PROVE  Registry!Next
<1>1. /\ TypeOK /\ HealthTyped /\ RowsOfNodes /\ row \in [Ports -> Row] /\ IsTable(nodes, Keys)
  BY InvTyped
<1>2. PICK p \in Ports : p = h.port
  BY <1>1 DEF HealthTyped
<1> DEFINE mode == IF h.row.mode = "manual_locked" THEN "manual_locked" ELSE "auto"
           key == KeyOf(h.next)
<1>3. /\ h.pc = "write" /\ UNCHANGED <<nodes, status, portNode>> /\ Requested' = Requested
      /\ row' = [row EXCEPT ![p] = [active |-> h.next, mode |-> mode]]
  BY <1>2, RequestedIs DEF HealthWriteRow, PutRow
<1> HIDE DEF mode
<1>4. /\ Following' = Following /\ ~ UNCHANGED db
      /\ \A q \in Ports : DisabledIn(q)' = DisabledIn(q)
  BY <1>3, FlagsStay, StoredStay DEF db
<1>5. \A q \in Ports \ {p} : Stored(q)' = Stored(q)
  <2>1. \A q \in Ports \ {p} : row'[q] = row[q]
    BY <1>1, <1>3
  <2> QED
    BY <1>3, <1>4, <2>1, StoredSame
<1>6. /\ Stored(p)'.key = key /\ Stored(p)'.mode = mode /\ Stored(p)'.off = Stored(p).off
      /\ Stored(p).mode = row[p].mode /\ key \in Keys \cup {NoKey}
      /\ AsStored[p] = Stored(p)
  <2>1. Stored(p)'.key = key /\ Stored(p)'.mode = mode
    BY <1>1, <1>3 DEF Stored, KeyOf
  <2>2. Stored(p)'.off = Stored(p).off
    BY <1>3, <1>4, OffMoves
  <2> QED
    BY <1>1, <2>1, <2>2, KeyOfIs DEF Stored, AsStored
<1>7. CheckPhase' \in {CheckPhase, "idle"}
  BY HealthMoves
<1> HIDE DEF key
<1>8. Registry!Checked /\ AsStored \in Registry!Found /\ Chosen' = AsStored'
  BY <1>3, <1>7, <1>4, Changed DEF Registry!Checked
<1>9. CASE h.calm
  <2>1. h.next \in Eligible(View(p)) /\ mode = row[p].mode
    BY <1>1, <1>2, <1>3, <1>9 DEF ChoicesInv, SeenAsStored, IInv, CalmHealthCheck, Healing, Row, mode
  <2>2. key \in (Range(nodes) \ Stored(p).off) \cup {NoKey}
    <3>1. CASE h.next \in DOMAIN nodes
      <4>1. h.next \notin DisabledIn(p)
        BY <2>1 DEF Eligible, Healthy, DisabledIn
      <4> QED
        BY <3>1, <4>1, StoredOnce DEF StoredAre, key, KeyOf, Range
    <3>2. CASE h.next \notin DOMAIN nodes
      BY <3>2 DEF key, KeyOf
    <3> QED
      BY <3>1, <3>2
  <2>3. AsStored' = [AsStored EXCEPT ![p].key = key]
    BY <1>5, <1>6, <2>1, AmendedPort
  <2>4. CheckPhase = "calm"
    BY <1>3, <1>9 DEF CheckPhase
  <2>5. Registry!Failover(p, key)
    BY <1>6, <1>8, <2>2, <2>3, <2>4 DEF Registry!Failover
  <2> QED
    BY <1>6, <2>5 DEF Registry!Next
<1>10. CASE ~ h.calm
  <2>1. AsStored' = [AsStored EXCEPT ![p].key = key, ![p].mode = mode]
    BY <1>5, <1>6, AmendedPort
  <2>2. CheckPhase = "disturbed" /\ mode \in {"auto", "manual_locked"}
    BY <1>3, <1>10 DEF CheckPhase, mode
  <2>3. Registry!DisturbedFailover(p, key, mode)
    BY <1>8, <2>1, <2>2 DEF Registry!DisturbedFailover
  <2> QED
    BY <1>6, <2>2, <2>3 DEF Registry!Next
<1> QED
  BY <1>9, <1>10

LEMMA HealthStepIsStep ==
    ASSUME IInv, IInv', ChoicesInv, HealthStep, a' = a, r' = Noticed(r)
    PROVE  Registry!Next
<1>1. nodes' = nodes
  BY HealthKeeps
<1>2. CASE HealthBegin
  <2>1. h.pc = "idle" /\ h'.pc = "probe" /\ h'.calm = TRUE /\ UNCHANGED <<db, box>>
    BY <1>2 DEF HealthBegin, IdleHealth
  <2>2. CheckPhase = "idle" /\ CheckPhase' = "calm"
    BY <2>1 DEF CheckPhase
  <2>3. Chosen' = Chosen /\ RefreshPhase' = RefreshPhase
    BY <2>1, NoticedPhase
  <2>4. Range(nodes)' = Range(nodes) /\ Requested' = Requested
    BY <1>1, RequestedIs DEF Range
  <2>5. Following' = Following
    BY <2>1, StoredStay DEF db
  <2>6. Registry!BeginCheck
    BY <2>2, <2>3, <2>4, <2>5 DEF Registry!BeginCheck
  <2> QED
    BY <2>6 DEF Registry!Next
<1>3. CASE ~ HealthBegin /\ AsStored' = AsStored
  BY <1>3, HealthPasses
<1>4. CASE ~ HealthBegin /\ AsStored' # AsStored
  <2>1. UNCHANGED row \/ HealthWriteRow
    BY HealthKeeps
  <2>2. UNCHANGED <<status, portNode>> \/ \E up \in BOOLEAN : HealthProbe(up)
    BY HealthKeeps
  <2>3. HealthWriteRow \/ \E up \in BOOLEAN : HealthProbe(up)
    BY <1>1, <1>4, <2>1, <2>2, StoredStay
  <2> QED
    BY <1>4, <2>3, ProbeIsStep, HealthWriteIsStep
<1> QED
  BY <1>2, <1>3, <1>4

-----------------------------------------------------------------------------
(* The administrator                                                        *)

LEMMA AskIsStep ==
    ASSUME IInv, r' = Noticed(r), h' = Noticed(h),
           NEW pc \in {"selector", "read", "commit"}, NEW op, NEW p \in Ports, NEW n,
           Request(pc, op, p, n),
           \/ op = "unlock"
           \/ op \in {"switch", "disable", "enable"} /\ n \in DOMAIN nodes
    PROVE  Registry!Next
<1>1. IsTable(nodes, Keys) /\ IdleAdmin.pc = "idle"
  BY InvTyped, IdleTyped
<1>2. /\ a.pc = "idle" /\ UNCHANGED <<db, box>>
      /\ a'.pc = pc /\ a'.op = op /\ a'.port = p /\ a'.node = n /\ a'.active = NoNode
  BY DEF Request, IdleAdmin
<1>3. nodes' = nodes
  BY <1>2 DEF db
<1>4. KeyOf(NoNode)' = NoKey /\ (n \in DOMAIN nodes => KeyOf(n)' = nodes[n] /\ nodes[n] \in Range(nodes))
  BY <1>1, <1>3 DEF KeyOf, IsTable, Ids, NoNode, Range
<1> DEFINE key == IF op = "unlock" THEN NoKey ELSE nodes[n]
<1>5. Requested = Registry!NoRequest /\ Requested' = [op |-> op, port |-> p, key |-> key]
  BY <1>2, <1>4 DEF Requested, Registry!NoRequest, KeyOf
<1>6. /\ Range(nodes)' = Range(nodes) /\ Chosen' = Chosen
      /\ RefreshPhase' = RefreshPhase /\ CheckPhase' = CheckPhase
  BY <1>2, <1>3, NoticedPhase, NoticedCheck DEF Range
<1>7. Following' = Following
  BY <1>2, StoredStay DEF db
<1>8. Registry!Ask(op, p, key)
  BY <1>5, <1>6, <1>7 DEF Registry!Ask
<1> QED
  BY <1>4, <1>8 DEF Registry!Next

\* A request that is answered leaves the choices alone, or is what the registry says.
LEMMA AnsweredIs ==
    ASSUME IInv, IInv', ChoicesInv, r' = Noticed(r), h' = Noticed(h), nodes' = nodes,
           a' = IdleAdmin, ~ UNCHANGED db
    PROVE  Registry!Answered /\ AsStored \in Registry!Found /\ Chosen' = AsStored'
BY Changed, RequestedIs DEF Registry!Answered

LEMMA AdminPasses ==
    ASSUME IInv, ChoicesInv, r' = Noticed(r), h' = Noticed(h), nodes' = nodes,
           AsStored' = AsStored, Following' = Following, Requested' \in {Requested, Registry!NoRequest}
    PROVE  Registry!Next
BY NoticedCheck, OthersPass DEF Registry!Overlapped

LEMMA AdminReadIsStep ==
    ASSUME IInv, IInv', ChoicesInv, AdminReadRow, r' = Noticed(r), h' = Noticed(h)
    PROVE  Registry!Next
<1>1. /\ a \in Admins /\ a.port \in Ports
  BY InvTyped DEF Admins
<1>2. /\ a.pc = "read" /\ a.op \in {"switch", "unlock"} /\ UNCHANGED <<db, box>>
      /\ a'.pc = "write" /\ a'.op = a.op /\ a'.port = a.port /\ a'.node = a.node
      /\ a'.active = row[a.port].active
  BY <1>1 DEF AdminReadRow, Admins, ChoicesInv, AskedFor
<1>3. UNCHANGED <<nodes, status, portNode, row>>
  BY <1>2 DEF db
<1>4. \A id : KeyOf(id)' = KeyOf(id)
  BY <1>3 DEF KeyOf
<1>5. CASE a.op = "switch"
  <2>1. Requested' = Requested
    BY <1>2, <1>3, <1>5 DEF Requested, KeyOf
  <2> QED
    BY <1>3, <2>1, StoredStay, AdminPasses
<1>6. CASE a.op = "unlock"
  <2> DEFINE key == KeyOf(row[a.port].active)
  <2>1. AsStored[a.port].key = key /\ AsStored \in Registry!Found
    BY <1>1, FoundOnce DEF AsStored, Stored
  <2>2. /\ Requested = [op |-> "unlock", port |-> a.port, key |-> KeyOf(a.active)]
        /\ Requested' = [op |-> "unlock", port |-> a.port, key |-> key]
    BY <1>2, <1>3, <1>6 DEF Requested, KeyOf
  <2>3. /\ Range(nodes)' = Range(nodes) /\ Chosen' = Chosen
        /\ RefreshPhase' = RefreshPhase /\ CheckPhase' = CheckPhase
    BY <1>2, <1>3, NoticedPhase, NoticedCheck DEF Range
  <2> HIDE DEF key
  <2>4. Requested.op = "unlock" /\ Requested' = [Requested EXCEPT !.key = AsStored[Requested.port].key]
    BY <2>1, <2>2
  <2>5. Registry!Look
    BY <1>3, <2>1, <2>3, <2>4, StoredStay DEF Registry!Look
  <2> QED
    BY <2>5 DEF Registry!Next
<1> QED
  BY <1>2, <1>5, <1>6

LEMMA AdminWriteIsStep ==
    ASSUME IInv, IInv', ChoicesInv, AdminWriteRow, r' = Noticed(r), h' = Noticed(h)
    PROVE  Registry!Next
<1>1. a \in Admins /\ row \in [Ports -> Row]
  BY InvTyped
<1>2. PICK p \in Ports : p = a.port
  BY <1>1 DEF Admins
<1> DEFINE id == IF a.op = "switch" THEN a.node ELSE a.active
           mode == IF a.op = "switch" THEN "manual_locked" ELSE "auto"
           key == KeyOf(id)
<1>3. /\ a.pc = "write" /\ a.op \in {"switch", "unlock"}
      /\ a' = IdleAdmin /\ UNCHANGED <<nodes, status, portNode>>
      /\ row' = [row EXCEPT ![p] = [active |-> id, mode |-> mode]]
  BY <1>2 DEF AdminWriteRow, PutRow, ChoicesInv, AskedFor
<1>4. Requested = [op |-> a.op, port |-> p, key |-> key]
  BY <1>2, <1>3 DEF Requested
<1> HIDE DEF id, mode
<1>5. Following' = Following /\ \A q \in Ports : DisabledIn(q)' = DisabledIn(q)
  BY <1>3, FlagsStay
<1>6. \A q \in Ports \ {p} : Stored(q)' = Stored(q)
  <2>1. \A q \in Ports \ {p} : row'[q] = row[q]
    BY <1>1, <1>3
  <2> QED
    BY <1>3, <1>5, <2>1, StoredSame
<1>7. Stored(p)'.key = key /\ Stored(p)'.mode = mode /\ Stored(p)'.off = Stored(p).off
  <2>1. Stored(p)'.key = key /\ Stored(p)'.mode = mode
    BY <1>1, <1>3 DEF Stored, KeyOf
  <2>2. Stored(p)'.off = Stored(p).off
    BY <1>3, <1>5, OffMoves
  <2> QED
    BY <2>1, <2>2
<1> HIDE DEF key
<1>8. AsStored' = [AsStored EXCEPT ![p].key = key, ![p].mode = mode]
  BY <1>6, <1>7, AmendedPort
<1>9. Requested.op = a.op /\ Requested.port = p /\ Requested.key = key
  BY <1>4
<1>10. CASE AsStored' = AsStored
  BY <1>3, <1>10, <1>5, AdminPasses, RequestedIs
<1>11. CASE AsStored' # AsStored
  <2>1. Registry!Answered /\ AsStored \in Registry!Found /\ Chosen' = AsStored'
    <3>1. ~ UNCHANGED db
      BY <1>11, StoredStay DEF db
    <3> QED
      BY <1>3, <3>1, AnsweredIs
  <2>2. CASE a.op = "switch"
    <3>1. mode = "manual_locked"
      BY <2>2 DEF mode
    <3>2. Registry!Switch
      BY <1>8, <1>9, <1>5, <2>1, <2>2, <3>1 DEF Registry!Switch
    <3> QED
      BY <3>2 DEF Registry!Next
  <2>3. CASE a.op = "unlock"
    <3>1. mode = "auto"
      BY <2>3 DEF mode
    <3>2. Registry!Unlock
      BY <1>8, <1>9, <1>5, <2>1, <2>3, <3>1 DEF Registry!Unlock
    <3> QED
      BY <3>2 DEF Registry!Next
  <2> QED
    BY <1>3, <2>2, <2>3
<1> QED
  BY <1>10, <1>11

LEMMA DisableIsStep ==
    ASSUME IInv, IInv', ChoicesInv, DisableCommit, r' = Noticed(r), h' = Noticed(h)
    PROVE  Registry!Next
<1>1. a \in Admins /\ DOMAIN nodes \subseteq DOMAIN status
  BY InvTyped DEF RowsOfNodes
<1>2. PICK p \in Ports : p = a.port
  BY <1>1 DEF Admins
<1> DEFINE m == a.node
           off == a.op = "disable"
<1>3. /\ a.pc = "commit" /\ a.op \in {"disable", "enable"}
      /\ a' = IdleAdmin /\ nodes' = nodes /\ row' = row
      /\ \/ UNCHANGED db
         \/ /\ portNode' = [portNode EXCEPT ![p] = Upsert(portNode[p], m, off)]
            /\ status' = IF p = Default THEN [status EXCEPT ![m].disabled = off] ELSE status
  BY <1>2 DEF DisableCommit, ChoicesInv, AskedFor, db
<1>4. CASE UNCHANGED db
  <2>1. UNCHANGED <<nodes, status, portNode, row>>
    BY <1>4 DEF db
  <2> QED
    BY <1>3, <2>1, StoredStay, AdminPasses, RequestedIs
<1>5. CASE ~ UNCHANGED db
  <2>1. \A n \in DOMAIN nodes :
          status'[n].disabled <=> IF p = Default /\ n = m THEN off ELSE status[n].disabled
    <3>1. CASE p # Default
      BY <1>3, <1>5, <3>1
    <3>2. CASE p = Default
      <4>1. status' = [status EXCEPT ![m].disabled = off] /\ IsTable(status, NodeRow)
        BY <1>3, <1>5, <3>2, InvTyped DEF TypeOK
      <4> HIDE DEF m, off
      <4> QED
        BY <1>1, <3>2, <4>1 DEF IsTable, NodeRow
    <3> QED
      BY <3>1, <3>2
  <2>2. off \in BOOLEAN /\ (off <=> a.op = "disable")
    OBVIOUS
  <2> DEFINE key == KeyOf(m)
  <2>3. Requested.op = a.op /\ Requested.port = p /\ Requested.key = key
    BY <1>2, <1>3 DEF Requested
  <2>4. portNode' = [portNode EXCEPT ![p] = Upsert(portNode[p], m, off)]
    BY <1>3, <1>5
  <2> HIDE DEF m, off
  <2>5. /\ AsStored' = Registry!Flagged(AsStored, p, key, off)
        /\ Following' = [Following EXCEPT ![p] = @ \ {key}]
    BY <1>3, <2>1, <2>2, <2>4, FlagWritten
  <2> HIDE DEF key
  <2>6. Registry!Answered /\ AsStored \in Registry!Found /\ Chosen' = AsStored'
    BY <1>3, <1>5, AnsweredIs
  <2>7. Registry!Disable(off)
    <3>1. Requested.op = IF off THEN "disable" ELSE "enable"
      BY <1>3, <2>2, <2>3
    <3> QED
      BY <2>3, <2>5, <2>6, <3>1 DEF Registry!Disable
  <2> QED
    BY <2>2, <2>7 DEF Registry!Next
<1> QED
  BY <1>4, <1>5

LEMMA AdminStepIsStep ==
    ASSUME IInv, IInv', ChoicesInv, AdminStep, r' = Noticed(r), h' = Noticed(h)
    PROVE  Registry!Next
<1>1. CASE \E p \in Ports, n \in DOMAIN nodes :
              \/ SwitchCheck(p, n)
              \/ \E op \in {"disable", "enable"} : DisableCheck(p, n, op)
  BY <1>1, AskIsStep DEF SwitchCheck, DisableCheck
<1>2. CASE \E p \in Ports : UnlockCheck(p)
  BY <1>2, AskIsStep DEF UnlockCheck
<1>3. CASE SwitchSelector \/ AdminFails
  <2>1. UNCHANGED db
    BY <1>3 DEF SwitchSelector, AdminFails
  <2>2. UNCHANGED <<nodes, status, portNode, row>>
    BY <2>1 DEF db
  <2>3. AsStored' = AsStored /\ Following' = Following
    BY <2>2, StoredStay
  <2>4. Requested' \in {Requested, Registry!NoRequest}
    <3>1. CASE a' = IdleAdmin
      BY <3>1, RequestedIs
    <3>2. CASE SwitchSelector /\ a' # IdleAdmin
      <4>1. /\ a.pc = "selector" /\ a'.pc = "read" /\ a'.op = a.op /\ a'.port = a.port
            /\ a'.node = a.node /\ a'.active = a.active
        BY <3>2, InvTyped DEF SwitchSelector, Admins
      <4> QED
        BY <2>2, <4>1 DEF Requested, KeyOf
    <3> QED
      BY <1>3, <3>1, <3>2 DEF AdminFails
  <2> QED
    BY <2>2, <2>3, <2>4, AdminPasses
<1> QED
  BY <1>1, <1>2, <1>3, AdminReadIsStep, AdminWriteIsStep, DisableIsStep DEF AdminStep

-----------------------------------------------------------------------------
(* The refinement                                                           *)

LEMMA ExitIsStep ==
    ASSUME IInv, IInv', ChoicesInv, SingBoxExits, a' = a, r' = Noticed(r), h' = Noticed(h)
    PROVE  Registry!Next
<1>1. UNCHANGED <<nodes, status, portNode, row>>
  BY DEF SingBoxExits, db
<1> QED
  BY <1>1, StoredStay, RequestedIs, AdminPasses

LEMMA RestartIsStep ==
    ASSUME IInv, IInv', ChoicesInv, Restart
    PROVE  Registry!Next
<1>1. PICK fresh \in SUBSET (Ports \ {Default}) :
        /\ row' = Relisted(row, fresh, row[Default])
        /\ portNode' = Relisted(portNode, fresh, NoRows)
        /\ r' \in {Begun("boot", Relisted(row, fresh, row[Default])),
                  [IdleRefresh EXCEPT !.pc = "build", !.kind = "stored"]}
  BY DEF Restart
<1>2. UNCHANGED <<nodes, status>> /\ h' = IdleHealth /\ a' = IdleAdmin
  BY DEF Restart
<1>3. /\ r'.pc \in {"read", "build"}
      /\ r'.pc = "build" => ~ r'.calm
      /\ r'.pc = "read" => r'.calm = TRUE
  <2>1. CASE r' = Begun("boot", Relisted(row, fresh, row[Default]))
    BY <2>1 DEF Begun, IdleRefresh
  <2>2. CASE r' = [IdleRefresh EXCEPT !.pc = "build", !.kind = "stored"]
    <3>1. r'.pc = "build" /\ r'.calm = FALSE
      BY <2>2, IdleTyped DEF Refreshes
    <3> QED
      BY <3>1
  <2> QED
    BY <1>1, <2>1, <2>2
<1>4. RefreshPhase' \in {"idle", "reading"} /\ Chosen' = AsStored'
  BY <1>3 DEF RefreshPhase, CarriesOver, Chosen, AsStored
<1>5. CheckPhase' = "idle" /\ Requested' = Registry!NoRequest
  BY <1>2, RequestedIs DEF CheckPhase, IdleHealth
<1>6. AsStored \in Registry!Found
  BY FoundOnce
<1>7. \A p \in Ports : /\ row'[p] = row[IF p \in fresh THEN Default ELSE p]
                       /\ portNode'[p] = IF p \in fresh THEN NoRows ELSE portNode[p]
  BY <1>1, PortsAssumption DEF Relisted
<1>8. ASSUME NEW p \in Ports PROVE Stored(p)' = Stored(IF p \in fresh THEN Default ELSE p)
  <2> DEFINE q == IF p \in fresh THEN Default ELSE p
  <2>1. DisabledIn(p)' = DisabledIn(q)
    <3>1. CASE p \notin fresh
      BY <1>2, <1>7, <3>1 DEF DisabledIn, View
    <3>2. CASE p \in fresh
      <4>1. Typed /\ Typed' /\ DefaultMirrored /\ DOMAIN nodes \subseteq DOMAIN status
        BY InvTyped DEF IInv, Typed, RowsOfNodes
      <4>2. \A n \in DOMAIN nodes : n \in DisabledIn(Default) <=> status[n].disabled
        BY <4>1, FlagIs, PortsAssumption DEF DefaultMirrored
      <4>3. portNode'[p] = NoRows /\ DOMAIN NoRows = {}
        BY <1>7, <3>2 DEF NoRows
      <4>4. \A n \in DOMAIN nodes : n \in DisabledIn(p)' <=> status[n].disabled
        BY <1>2, <4>1, <4>3, NextFlagIs
      <4>5. DisabledIn(p)' \subseteq DOMAIN nodes /\ DisabledIn(Default) \subseteq DOMAIN nodes
        BY <1>2 DEF DisabledIn
      <4> QED
        BY <3>2, <4>2, <4>4, <4>5
    <3> QED
      BY <3>1, <3>2
  <2>2. row'[p] = row[q]
    BY <1>7
  <2> HIDE DEF q
  <2>3. Stored(p)' = Stored(q)
    BY <1>2, <2>1, <2>2 DEF Stored, KeysOf, KeyOf
  <2> QED
    BY <2>3 DEF q
<1>9. Chosen' = [p \in Ports |-> AsStored[IF p \in fresh THEN Default ELSE p]]
  BY <1>4, <1>8, PortsAssumption DEF AsStored
<1>10. Following' = [p \in Ports |-> IF p \in fresh THEN Range(nodes) ELSE Following[p]]
  <2>1. \A p \in Ports \ fresh : Following'[p] = Following[p]
    BY <1>2, <1>7 DEF Following, Follows, KeysOf
  <2>2. \A p \in fresh : Following'[p] = Range(nodes)
    <3>1. \A p \in fresh : Follows(p)' = DOMAIN nodes
      BY <1>2, <1>7 DEF Follows, NoRows
    <3> QED
      BY <1>2, <3>1 DEF Following, KeysOf, Range
  <2> QED
    BY <2>1, <2>2 DEF Following
<1>11. Registry!Crash
  BY <1>2, <1>4, <1>5, <1>6, <1>9, <1>10 DEF Registry!Crash, Range
<1> QED
  BY <1>11 DEF Registry!Next

LEMMA ChoicesStart == Init => Registry!Init
<1> SUFFICES ASSUME Init PROVE Registry!Init
  OBVIOUS
<1> DEFINE k == Cardinality(Keys)
<1>1. k \in Nat \ {0} /\ 1 \in 1..k
  BY KeysAssumption, FS_CardinalityType, FS_EmptySet
<1>2. nodes \in [1..k -> Keys] /\ \A i, j \in 1..k : i # j => nodes[i] # nodes[j]
  BY DEF Init, SetToSeqs
<1>3. Range(nodes) = Keys
  <2>1. nodes \in Injection(1..k, Keys)
    BY <1>2 DEF Injection, IsInjective
  <2>2. IsFiniteSet(1..k) /\ Cardinality(1..k) = k
    BY <1>1, FS_Interval
  <2>3. nodes \in Surjection(1..k, Keys)
    BY <2>1, <2>2, KeysAssumption, FS_Injection, FS_Surjection
  <2> QED
    BY <1>2, <2>3 DEF Surjection, Range
<1>4. r.pc = "idle" /\ r.calm = FALSE /\ h.pc = "idle" /\ a = IdleAdmin
  BY IdleTyped DEF Init
<1>5. RefreshPhase = "idle" /\ CheckPhase = "idle" /\ Requested = Registry!NoRequest
  BY <1>4, RequestedIs DEF RefreshPhase, CheckPhase, CarriesOver
<1>6. nodes[1] \in Keys /\ KeyOf(1) = nodes[1]
  BY <1>1, <1>2 DEF KeyOf
<1>7. /\ row = [p \in Ports |-> [active |-> 1, mode |-> "auto"]]
      /\ status = [n \in 1..k |-> [state |-> "active", disabled |-> FALSE]]
  BY DEF Init
<1>8. PICK fresh \in SUBSET (Ports \ {Default}) :
         portNode = [p \in Ports |-> IF p \in fresh THEN NoRows ELSE [n \in 1..k |-> FALSE]]
  BY DEF Init
<1> HIDE DEF k
<1>9. ASSUME NEW p \in Ports PROVE Stored(p) = [key |-> nodes[1], mode |-> "auto", off |-> {}]
  <2>1. DOMAIN nodes = 1..k /\ StoredAre
    BY <1>2, InitInv, StoredOnce
  <2>2. Stored(p).off = {}
    <3>1. \A n \in DOMAIN nodes : n \notin DisabledIn(p)
      BY <1>7, <1>8, <2>1 DEF DisabledIn, View, NoRows
    <3> QED
      BY <2>1, <3>1 DEF StoredAre, Range
  <2>3. Stored(p) = [key |-> KeyOf(row[p].active), mode |-> row[p].mode, off |-> Stored(p).off]
    BY <2>1 DEF StoredAre
  <2> QED
    BY <1>6, <1>7, <2>2, <2>3
<1>10. Chosen = [p \in Ports |-> [key |-> nodes[1], mode |-> "auto", off |-> {}]]
  BY <1>4, <1>9 DEF Chosen, CarriesOver
<1>11. Following = [p \in Ports |-> IF p \in fresh THEN Keys ELSE {}]
  <2>1. DOMAIN nodes = 1..k
    BY <1>2
  <2>2. \A p \in Ports : Follows(p) = IF p \in fresh THEN DOMAIN nodes ELSE {}
    BY <1>8, <2>1 DEF Follows, NoRows
  <2>3. \A p \in Ports : KeysOf(Follows(p)) = IF p \in fresh THEN Keys ELSE {}
    BY <1>3, <2>2 DEF KeysOf, Range
  <2> QED
    BY <2>3 DEF Following
<1> QED
  BY <1>3, <1>5, <1>6, <1>10, <1>11 DEF Registry!Init

LEMMA ChoicesSteps ==
    IInv /\ IInv' /\ ChoicesInv /\ [Next]_vars => [Registry!Next]_(Registry!vars)
<1> SUFFICES ASSUME IInv, IInv', ChoicesInv, [Next]_vars PROVE [Registry!Next]_(Registry!vars)
  OBVIOUS
<1>1. CASE Next
  BY <1>1, RefreshStepIsStep, HealthStepIsStep, AdminStepIsStep, ExitIsStep, RestartIsStep DEF Next
<1>2. CASE UNCHANGED vars
  <2>1. UNCHANGED <<nodes, status, portNode, row, r, h, a>>
    BY <1>2 DEF vars, db
  <2>2. Following' = Following /\ \A p \in Ports : Stored(p)' = Stored(p)
    BY <2>1, FlagsStay, StoredSame
  <2>3. Chosen' = Chosen
    BY <2>1, <2>2 DEF Chosen, CarriesOver, Awaited, Range
  <2>4. RefreshPhase' = RefreshPhase /\ CheckPhase' = CheckPhase /\ Requested' = Requested
    BY <2>1 DEF RefreshPhase, CheckPhase, Requested, CarriesOver, KeyOf
  <2> QED
    BY <2>1, <2>2, <2>3, <2>4 DEF Registry!vars, Range
<1> QED
  BY <1>1, <1>2

\* For any keys, ports and budgets: of each port's choices, by source key, a refresh is
\* one step that keeps them, a health check one that moves nothing but an active node,
\* and a request one that does what it says; whatever overlaps or is cut short goes no
\* further astray than PortChoices allows.
THEOREM ChoicesImplemented == Spec => ImplementsChoices
<1>1. Init => Registry!Init
  BY ChoicesStart
<1>2. IInv /\ IInv' /\ ChoicesInv /\ [Next]_vars => [Registry!Next]_(Registry!vars)
  BY ChoicesSteps
<1> QED
  BY <1>1, <1>2, ChoicesInvariance, PTL DEF Spec, Registry!Spec, ImplementsChoices
=============================================================================
