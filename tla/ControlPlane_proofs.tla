-------------------------- MODULE ControlPlane_proofs --------------------------
(***************************************************************************)
(* Proofs about the registry, the refresh, the health check and the        *)
(* administrator of ControlPlane, for any keys, ports and budgets: however *)
(* they overlap, and wherever the program ends and is started again.       *)
(*                                                                         *)
(* IInv is the inductive invariant.  CalmRefresh and CalmHealthCheck in it *)
(* follow a calm refresh and a calm health check from call to call:        *)
(* another activity that changes anything makes them void, so that only    *)
(* their own steps have to be looked at.                                   *)
(***************************************************************************)
EXTENDS ControlPlane, NodeSelection_proofs, SequenceTheorems

\* Every node has a key of its own and a status, and an id below the next one.
RowsOfNodes ==
    /\ DOMAIN nodes # {}
    /\ \A n \in DOMAIN nodes : n < nextId
    /\ \A m, n \in DOMAIN nodes : nodes[m] = nodes[n] => m = n
    /\ DOMAIN nodes \subseteq DOMAIN status

\* The default port has a row for every status, with the same flag.
DefaultMirrored ==
    /\ DOMAIN portNode[Default] = DOMAIN status
    /\ \A n \in DOMAIN status : portNode[Default][n] = status[n].disabled

\* The ids given out are below the next one, and none was given out twice.
IdsGiven == IdsNameOneKey /\ \A x \in given : x[1] < nextId

LeftTyped == left \in [refresh : Nat, health : Nat, admin : Nat, restart : Nat]

-----------------------------------------------------------------------------
(* What the callers keep                                                    *)

Modes == {"auto", "manual_locked"}
LaneNodes == [Lanes -> Nat]
Wants == [key : Keys \cup {NoKey}, mode : Modes, off : SUBSET Keys,
          laned : BOOLEAN, lanes : [Lanes -> Keys \cup {NoKey}]]

Plans == [sel : Nat, lanes : LaneNodes]
Refreshes ==
    [pc : {"idle", "down", "read", "row", "disable", "lanes", "build", "stop", "start",
           "lanesRead", "lanesWrite", "done"},
     kind : {"api", "boot", "stored"}, todo : SUBSET Ports, port : Ports, calm : BOOLEAN,
     want : [Ports -> Wants], plan : [Ports -> Plans], lanes : LaneNodes]
RefreshTyped == r \in Refreshes

HealthTyped ==
    /\ h \in [pc : {"idle", "probe", "ports", "switch", "write", "lanesRead", "lanesWrite", "done"},
              todo : {h.todo}, port : Ports, calm : BOOLEAN, seen : {h.seen},
              row : Row, next : Nat, lanes : LaneNodes]
    /\ IsTable(h.seen, NodeRow)
    /\ h.pc = "probe" => h.todo \subseteq DOMAIN h.seen /\ h.todo # {}
    /\ h.pc # "probe" => h.todo \subseteq Ports

Admins == [pc : {"idle", "selector", "read", "write", "commit"},
           op : {"none", "switch", "unlock", "disable", "enable"},
           port : Ports, node : Nat, active : Nat]
AdminTyped == a \in Admins

CallersTyped == RefreshTyped /\ HealthTyped /\ AdminTyped

\* What the reload starts sing-box with passed the check, and the nodes have
\* stayed what they were.
PlanIsRegistered ==
    r.pc \in {"stop", "start"} =>
        /\ \A p \in Ports : r.plan[p].sel \in DOMAIN nodes
        /\ \A p \in Ports, l \in Lanes : r.plan[p].lanes[l] \in DOMAIN nodes \cup {NoNode}

\* A port without lane rows has no lanes, when a refresh reads them and until it ends.
LanesRead(p) ==
    ~ r.want[p].laned => lanes[p] = NoLanes /\ \A l \in Lanes : r.want[p].lanes[l] = NoKey
LanesListed ==
    /\ \A p \in Ports \ laned : lanes[p] = NoLanes
    /\ \A p \in Ports : r.want[p].laned => p \in laned
    /\ r.calm /\ r.pc = "read" => \A p \in Ports \ r.todo : LanesRead(p)
    /\ r.calm /\ r.pc \in {"row", "disable", "lanes"} => \A p \in Ports : LanesRead(p)

-----------------------------------------------------------------------------
(* A calm refresh, from the transaction that replaces the nodes on           *)

RowKept(p) ==
    IF r.want[p].key \in Range(nodes)
    THEN KeyOf(row[p].active) = r.want[p].key /\ row[p].mode = r.want[p].mode
    ELSE row[p] = [active |-> Least(DOMAIN nodes), mode |-> "auto"]
OffFresh(p) == \A n \in DOMAIN nodes : ~ portNode[p][n]
OffKept(p)  == \A n \in DOMAIN nodes : portNode[p][n] <=> nodes[n] \in r.want[p].off
LanesKept(p) ==
    \A l \in Lanes : r.want[p].lanes[l] \in Range(nodes) \ r.want[p].off
                       => KeyOf(lanes[p][l]) = r.want[p].lanes[l]
LanesIn(p, ids) == \A l \in Lanes : lanes[p][l] \in ids \cup {NoNode}

\* The ports whose row, disabled nodes and lanes have been carried over.
Carried == IF r.pc \in {"row", "disable", "lanes"} THEN Ports \ r.todo ELSE Ports
RowsDone == IF r.pc \in {"disable", "lanes"} THEN Carried \cup {r.port} ELSE Carried
OffDone == IF r.pc = "lanes" THEN Carried \cup {r.port} ELSE Carried

Carrying == {"row", "disable", "lanes", "build", "stop", "start"}
Reloaded == {"lanesRead", "lanesWrite", "done"}

CarriedOver ==
    /\ \A n \in DOMAIN nodes : status[n].state = "active"
    /\ r.pc \in {"disable", "lanes", "lanesWrite"} => r.port \in r.todo
    /\ \A p \in RowsDone : RowKept(p)
    /\ \A p \in OffDone : OffKept(p)
    /\ \A p \in Ports \ OffDone : OffFresh(p)
    /\ \A p \in Carried : LanesKept(p)
    /\ r.pc \in Carrying => \A p \in Carried : LanesIn(p, DOMAIN nodes)
    /\ r.pc \in {"stop", "start"} => r.plan = Plan
    /\ r.pc \in Reloaded =>
          /\ running /\ tags = DOMAIN nodes
          /\ \A p \in Ports : sel[p] = row[p].active /\ LanesIn(p, DOMAIN status)
    /\ r.pc = "lanesWrite" => r.lanes = Assigned(r.port)

\* From that transaction on, every port has a row for every node.
Renewed == r.pc \in {"row", "disable", "lanes"} \/ (r.calm /\ r.pc \in Carrying \cup Reloaded)
RowsRenewed == Renewed => \A p \in Ports : DOMAIN nodes \subseteq DOMAIN portNode[p]

CalmRefresh == r.calm /\ r.pc \in Carrying \cup Reloaded => CarriedOver

-----------------------------------------------------------------------------
(* A calm health check                                                       *)

PortHealed(p) == Eligible(View(p)) # {} => row[p].active \in Eligible(View(p))
LanesHealed(p) ==
    \A l \in Lanes : lanes[p][l] \in IF Eligible(View(p)) # {} THEN Eligible(View(p)) ELSE {NoNode}

\* The nodes that are still to be probed, and the ports that are healed.
Unprobed == IF h.pc = "probe" THEN h.todo ELSE {}
Healed == IF h.pc \in {"ports", "switch", "write"} THEN Ports \ h.todo
          ELSE IF h.pc = "probe" THEN {} ELSE Ports
LanesDone == IF h.pc \in {"lanesRead", "lanesWrite"} THEN Ports \ h.todo
             ELSE IF h.pc = "done" THEN Ports ELSE {}

Healing ==
    /\ running
    /\ h.pc = "probe" => DOMAIN status = DOMAIN h.seen
    /\ \A n \in Unprobed : status[n].state = h.seen[n].state
    /\ \A n \in DOMAIN status \ Unprobed : status[n].state = "active" => n \in tags
    /\ h.pc \in {"switch", "write", "lanesWrite"} => h.port \in h.todo
    /\ h.pc \in {"switch", "write"} => h.next \in Eligible(View(h.port))
    /\ \A p \in Healed : PortHealed(p)
    /\ h.pc = "lanesWrite" => h.lanes = Assigned(h.port)
    /\ \A p \in LanesDone : LanesHealed(p)

CalmHealthCheck == h.calm => Healing

\* The inductive invariant.
IInv ==
    /\ TypeOK
    /\ RowsOfNodes
    /\ CallersTyped
    /\ LeftTyped
    /\ DefaultMirrored
    /\ IdsGiven
    /\ LanesListed
    /\ RowsRenewed
    /\ PlanIsRegistered
    /\ SelectorsAreRegistered
    /\ CalmRefresh
    /\ CalmHealthCheck

-----------------------------------------------------------------------------
(* The operators of the model                                               *)

\* A fetched subscription: some of the keys, each once, at least one.
LEMMA ListIs ==
    ASSUME NEW list \in Lists
    PROVE  /\ Len(list) \in Nat \ {0} /\ list \in [1..Len(list) -> Keys]
           /\ \A i, j \in 1..Len(list) : i # j => list[i] # list[j]
<1>1. PICK S \in SUBSET Keys : list \in SetToSeqs(S)
  BY DEF Lists, SetToAllKPermutations
<1>2. Cardinality(S) \in Nat
  BY KeysAssumption, FS_Subset, FS_CardinalityType
<1>3. /\ list \in [1..Cardinality(S) -> S]
      /\ \A i, j \in 1..Cardinality(S) : i # j => list[i] # list[j]
  BY <1>1 DEF SetToSeqs
<1>4. list \in Seq(S) /\ Len(list) = Cardinality(S)
  BY <1>2, <1>3
<1>5. Len(list) # 0
  <2>1. list # <<>>
    BY DEF Lists
  <2> QED
    BY <1>4, <2>1, EmptySeq
<1> QED
  BY <1>2, <1>3, <1>4, <1>5

\* Its nodes get the next ids, one after the other.
LEMMA NewIdsAre ==
    ASSUME nextId \in Ids, NEW list, Len(list) \in Nat \ {0}
    PROVE  /\ NewIds(list) \subseteq Ids /\ nextId \in NewIds(list)
           /\ Least(NewIds(list)) = nextId
           /\ \A n \in NewIds(list) : n - nextId + 1 \in 1..Len(list)
           /\ \A n \in NewIds(list) : nextId <= n /\ n < nextId + Len(list)
<1>1. /\ NewIds(list) \in SUBSET Nat /\ nextId \in NewIds(list)
      /\ \A n \in NewIds(list) : nextId <= n /\ n < nextId + Len(list)
  BY DEF NewIds, Ids
<1>2. Least(NewIds(list)) \in NewIds(list) /\ Least(NewIds(list)) <= nextId
  BY <1>1, LeastIs
<1>3. Least(NewIds(list)) = nextId
  BY <1>1, <1>2 DEF Ids
<1> QED
  BY <1>1, <1>3 DEF NewIds, Ids

LEMMA IdOfIs ==
    ASSUME IsTable(nodes, Keys), NEW key
    PROVE  /\ IdOf(key) \in DOMAIN nodes \cup {NoNode} /\ IdOf(key) \in Nat
           /\ key \in Range(nodes) <=> IdOf(key) # NoNode
           /\ IdOf(key) # NoNode => IdOf(key) \in DOMAIN nodes /\ nodes[IdOf(key)] = key
BY DEF IdOf, IsTable, Ids, NoNode, Range

LEMMA KeyOfIs ==
    ASSUME IsTable(nodes, Keys), NEW id
    PROVE  /\ KeyOf(id) \in Keys \cup {NoKey}
           /\ KeyOf(id) \in Keys => id \in DOMAIN nodes /\ nodes[id] = KeyOf(id)
BY KeysAssumption DEF KeyOf, IsTable

LEMMA FirstNodeIs ==
    ASSUME IsTable(nodes, Keys), DOMAIN nodes # {}
    PROVE  Least(DOMAIN nodes) \in DOMAIN nodes /\ Least(DOMAIN nodes) \in Nat
<1>1. DOMAIN nodes \in SUBSET Nat
  BY DEF IsTable, Ids
<1> QED
  BY <1>1, LeastIs

LEMMA ViewIs ==
    ASSUME TypeOK, NEW p \in Ports
    PROVE  /\ IsTable(View(p), NodeRow) /\ DOMAIN View(p) = DOMAIN status
           /\ \A n \in DOMAIN status : View(p)[n].state = status[n].state
           /\ \A n \in DOMAIN status \cap DOMAIN portNode[p] :
                View(p)[n].disabled = portNode[p][n]
           /\ Eligible(View(p)) \subseteq DOMAIN status /\ Eligible(View(p)) \in SUBSET Nat
           /\ \A n \in Eligible(View(p)) : status[n].state = "active"
<1>1. /\ IsTable(status, NodeRow) /\ IsTable(portNode[p], BOOLEAN)
  BY DEF TypeOK
<1>2. /\ DOMAIN View(p) = DOMAIN status
      /\ \A n \in DOMAIN status : View(p)[n].state = status[n].state
      /\ \A n \in DOMAIN status \cap DOMAIN portNode[p] : View(p)[n].disabled = portNode[p][n]
  BY DEF View
<1>3. IsTable(View(p), NodeRow)
  BY <1>1 DEF View, IsTable, NodeRow
<1> QED
  BY <1>1, <1>2, <1>3 DEF Eligible, Healthy, IsTable, Ids

\* buildLaneStates gives every lane a healthy node if there is one, and leaves a
\* lane alone whose node is healthy.
LEMMA AssignedIs ==
    ASSUME TypeOK, NEW p \in Ports
    PROVE  LET healthy == Eligible(View(p))
           IN  /\ Assigned(p) \in LaneNodes
               /\ \A l \in Lanes :
                    /\ Assigned(p)[l] \in IF healthy # {} THEN healthy ELSE {NoNode}
                    /\ Assigned(p)[l] \in DOMAIN status \cup {NoNode}
                    /\ lanes[p][l] \in healthy => Assigned(p)[l] = lanes[p][l]
<1> DEFINE healthy == Eligible(View(p))
           kept(l) == IF lanes[p][l] \in healthy THEN lanes[p][l] ELSE NoNode
           pick(taken) == IF healthy \ taken # {} THEN Least(healthy \ taken)
                          ELSE IF healthy # {} THEN Least(healthy) ELSE NoNode
           http == IF kept("lane-http-1") # NoNode THEN kept("lane-http-1")
                   ELSE pick({kept("lane-socks-1")})
           socks == IF kept("lane-socks-1") # NoNode THEN kept("lane-socks-1")
                    ELSE pick({http})
           fit == IF healthy # {} THEN healthy ELSE {NoNode}
<1>1. healthy \in SUBSET Nat /\ healthy \subseteq DOMAIN status /\ 0 \notin healthy
  BY ViewIs DEF TypeOK, IsTable, Ids
<1>2. ASSUME NEW taken PROVE pick(taken) \in fit
  <2>1. healthy \ taken \in SUBSET Nat
    BY <1>1
  <2>2. healthy \ taken # {} => Least(healthy \ taken) \in healthy
    BY <2>1, LeastIs
  <2>3. healthy # {} => Least(healthy) \in healthy
    BY <1>1, LeastIs
  <2> QED
    BY <2>2, <2>3
<1>3. ASSUME NEW l PROVE kept(l) # NoNode => kept(l) \in fit
  OBVIOUS
<1>4. Assigned(p) = [l \in Lanes |-> IF l = "lane-http-1" THEN http ELSE socks]
  BY DEF Assigned
<1>5. http \in fit /\ socks \in fit
  <2> HIDE DEF pick, kept, fit
  <2> QED
    BY <1>2, <1>3
<1>6. \A l \in Lanes : Assigned(p)[l] \in fit
  <2> HIDE DEF http, socks, fit
  <2> QED
    BY <1>4, <1>5
<1>7. fit \subseteq DOMAIN status \cup {NoNode} /\ fit \subseteq Nat
  BY <1>1 DEF NoNode
<1>8. ASSUME NEW l \in Lanes, lanes[p][l] \in healthy PROVE Assigned(p)[l] = lanes[p][l]
  <2>1. kept(l) = lanes[p][l] /\ kept(l) # NoNode
    BY <1>1, <1>8 DEF NoNode
  <2>2. l = "lane-http-1" \/ l = "lane-socks-1"
    BY DEF Lanes
  <2> HIDE DEF kept, pick
  <2> QED
    BY <1>4, <2>1, <2>2
<1>9. Assigned(p) \in LaneNodes
  <2> HIDE DEF http, socks, fit
  <2> QED
    BY <1>4, <1>6, <1>7 DEF LaneNodes
<1> HIDE DEF healthy, fit
<1> QED
  BY <1>6, <1>7, <1>8, <1>9 DEF healthy, fit

-----------------------------------------------------------------------------
(* Types                                                                     *)

Typed == TypeOK /\ RowsOfNodes /\ CallersTyped

\* A record whose calm flag is taken away, or not, is otherwise the same.
LEMMA NoticedRefresh ==
    ASSUME RefreshTyped, r' = Noticed(r)
    PROVE  /\ RefreshTyped'
           /\ r'.pc = r.pc /\ r'.kind = r.kind /\ r'.todo = r.todo /\ r'.port = r.port
           /\ r'.want = r.want /\ r'.plan = r.plan /\ r'.lanes = r.lanes
           /\ r'.calm => r.calm /\ UNCHANGED <<db, box>>
<1> DEFINE calm == r.calm /\ UNCHANGED <<db, box>>
<1>1. r' = [r EXCEPT !.calm = calm]
  BY DEF Noticed
<1>2. calm \in BOOLEAN
  OBVIOUS
<1>3. calm => r.calm /\ UNCHANGED <<db, box>>
  OBVIOUS
<1> HIDE DEF calm
<1>4. /\ r'.pc = r.pc /\ r'.kind = r.kind /\ r'.todo = r.todo /\ r'.port = r.port
      /\ r'.want = r.want /\ r'.plan = r.plan /\ r'.lanes = r.lanes /\ r'.calm = calm
  BY <1>1 DEF RefreshTyped, Refreshes
<1>5. RefreshTyped'
  BY <1>1, <1>2 DEF RefreshTyped, Refreshes
<1> QED
  BY <1>3, <1>4, <1>5

LEMMA NoticedHealth ==
    ASSUME HealthTyped, h' = Noticed(h)
    PROVE  /\ HealthTyped'
           /\ h'.pc = h.pc /\ h'.todo = h.todo /\ h'.port = h.port /\ h'.seen = h.seen
           /\ h'.row = h.row /\ h'.next = h.next /\ h'.lanes = h.lanes
           /\ h'.calm => h.calm /\ UNCHANGED <<db, box>>
<1> DEFINE calm == h.calm /\ UNCHANGED <<db, box>>
<1>1. h' = [h EXCEPT !.calm = calm]
  BY DEF Noticed
<1>2. calm \in BOOLEAN
  OBVIOUS
<1>3. calm => h.calm /\ UNCHANGED <<db, box>>
  OBVIOUS
<1> HIDE DEF calm
<1>4. /\ h'.pc = h.pc /\ h'.todo = h.todo /\ h'.port = h.port /\ h'.seen = h.seen
      /\ h'.row = h.row /\ h'.next = h.next /\ h'.lanes = h.lanes /\ h'.calm = calm
  BY <1>1 DEF HealthTyped
<1>5. HealthTyped'
  BY <1>1, <1>2, <1>4 DEF HealthTyped
<1> QED
  BY <1>3, <1>4, <1>5

LEMMA IdleTyped ==
    /\ IdleRefresh \in Refreshes /\ IdleRefresh.pc = "idle" /\ IdleRefresh.calm = FALSE
    /\ RefreshTyped => GivenUp \in Refreshes
    /\ GivenUp.pc \in {"idle", "down"} /\ GivenUp.calm = FALSE
    /\ h = IdleHealth => HealthTyped /\ h.pc = "idle" /\ h.calm = FALSE
    /\ IdleAdmin \in Admins /\ IdleAdmin.pc = "idle"
<1>1. NoLanes \in LaneNodes
  BY DEF NoLanes, LaneNodes, NoNode
<1> DEFINE want == [p \in Ports |-> [key |-> NoKey, mode |-> "auto", off |-> {}, laned |-> FALSE,
                                     lanes |-> [l \in Lanes |-> NoKey]]]
           plan == [p \in Ports |-> [sel |-> NoNode, lanes |-> NoLanes]]
<1>2. want \in [Ports -> Wants]
  BY DEF Wants, Modes
<1>3. plan \in [Ports -> Plans]
  BY <1>1 DEF Plans, NoNode
<1>4. IdleRefresh = [pc |-> "idle", kind |-> "api", todo |-> {}, port |-> Default,
                     calm |-> FALSE, want |-> want, plan |-> plan, lanes |-> NoLanes]
  BY DEF IdleRefresh
<1> HIDE DEF want, plan
<1>5. IdleRefresh \in Refreshes /\ IdleRefresh.pc = "idle" /\ IdleRefresh.calm = FALSE
  BY <1>1, <1>2, <1>3, <1>4, PortsAssumption DEF Refreshes
<1>6. /\ RefreshTyped => GivenUp \in Refreshes
      /\ GivenUp.pc \in {"idle", "down"} /\ GivenUp.calm = FALSE
  BY <1>4, <1>5 DEF GivenUp, RefreshTyped, Refreshes
<1>7. h = IdleHealth => HealthTyped /\ h.pc = "idle" /\ h.calm = FALSE
  <2>1. IsTable(<<>>, NodeRow)
    BY DEF IsTable
  <2> QED
    BY <1>1, <2>1, PortsAssumption DEF IdleHealth, HealthTyped, Row, NoNode, IsTable
<1>8. IdleAdmin \in Admins /\ IdleAdmin.pc = "idle"
  BY PortsAssumption DEF IdleAdmin, Admins, NoNode
<1> QED
  BY <1>5, <1>6, <1>7, <1>8

LEMMA IdleHealthTyped ==
    ASSUME h' = IdleHealth
    PROVE  HealthTyped' /\ h'.pc = "idle" /\ h'.calm = FALSE
<1>1. NoLanes \in LaneNodes
  BY DEF NoLanes, LaneNodes, NoNode
<1>2. IsTable(<<>>, NodeRow)
  BY DEF IsTable
<1> QED
  BY <1>1, <1>2, PortsAssumption DEF IdleHealth, HealthTyped, Row, NoNode, IsTable

LEMMA BegunTyped ==
    ASSUME IsTable(nodes, Keys), NEW kind \in {"api", "boot", "stored"},
           NEW rows \in [Ports -> Row]
    PROVE  Begun(kind, rows) \in Refreshes /\ Begun(kind, rows).pc = "read"
<1> DEFINE want == [p \in Ports |-> [key |-> KeyOf(rows[p].active), mode |-> rows[p].mode,
                                     off |-> {}, laned |-> FALSE,
                                     lanes |-> [l \in Lanes |-> NoKey]]]
<1>1. want \in [Ports -> Wants]
  <2>1. \A p \in Ports : KeyOf(rows[p].active) \in Keys \cup {NoKey} /\ rows[p].mode \in Modes
    BY KeyOfIs DEF Row, Modes
  <2> QED
    BY <2>1 DEF Wants
<1>2. Begun(kind, rows) = [IdleRefresh EXCEPT !.pc = "read", !.kind = kind, !.todo = Ports,
                                        !.calm = TRUE, !.want = want]
  BY DEF Begun
<1> HIDE DEF want
<1> QED
  BY <1>1, <1>2, IdleTyped DEF Refreshes

\* Whoever leaves the tables and sing-box alone leaves them well typed.
LEMMA SameTyped ==
    ASSUME TypeOK, RowsOfNodes, UNCHANGED <<db, box, asked, given>>
    PROVE  TypeOK' /\ RowsOfNodes'
BY DEF TypeOK, RowsOfNodes, IsTable, db, box

LEMMA InitTyped == Init => Typed
<1> SUFFICES ASSUME Init PROVE Typed
  OBVIOUS
<1> DEFINE k == Cardinality(Keys)
<1>1. k \in Nat \ {0}
  BY KeysAssumption, FS_CardinalityType, FS_EmptySet
<1>2. /\ nodes \in [1..k -> Keys] /\ \A i, j \in 1..k : i # j => nodes[i] # nodes[j]
      /\ nextId = k + 1
  BY DEF Init, SetToSeqs
<1>3. 1..k \subseteq Ids /\ 1..k # {} /\ 1 \in 1..k
  BY <1>1 DEF Ids
<1> HIDE DEF k
<1>4. PICK fresh \in SUBSET (Ports \ {Default}) :
        /\ portNode = [p \in Ports |-> IF p \in fresh THEN NoRows ELSE [n \in 1..k |-> FALSE]]
        /\ laned = Ports \ fresh
        /\ lanes = [p \in Ports |-> IF p \in fresh THEN NoLanes ELSE
                       [l \in Lanes |-> IF l = "lane-http-1" \/ k = 1 THEN 1 ELSE 2]]
        /\ laneSel = lanes \/ laneSel = [p \in Ports |-> NoLanes]
  BY DEF Init, k
<1>5. /\ status = [n \in 1..k |-> [state |-> "active", disabled |-> FALSE]]
      /\ row = [p \in Ports |-> [active |-> 1, mode |-> "auto"]]
      /\ tags = 1..k
  BY DEF Init, k
<1>12. IsTable(nodes, Keys) /\ IsTable(status, NodeRow) /\ nextId \in Ids
  BY <1>1, <1>2, <1>3, <1>5 DEF IsTable, NodeRow, States, Ids
<1>6. portNode = [p \in Ports |-> portNode[p]] /\ \A p \in Ports : IsTable(portNode[p], BOOLEAN)
  <2>1. \A p \in Ports : portNode[p] \in {NoRows, [n \in 1..k |-> FALSE]}
    BY <1>4
  <2>2. portNode = [p \in Ports |-> portNode[p]]
    BY <1>4
  <2>3. IsTable(NoRows, BOOLEAN) /\ IsTable([n \in 1..k |-> FALSE], BOOLEAN)
    BY <1>3 DEF IsTable, NoRows
  <2> QED
    BY <2>1, <2>2, <2>3
<1>7. RowsOfNodes
  <2>1. DOMAIN nodes = 1..k
    BY <1>2
  <2>2. DOMAIN status = 1..k
    BY <1>5
  <2>4. \A n \in 1..k : n < nextId
    BY <1>1, <1>2
  <2>5. 1..k # {}
    BY <1>3
  <2>6. \A m, n \in 1..k : nodes[m] = nodes[n] => m = n
    BY <1>2
  <2> QED
    BY <2>1, <2>2, <2>4, <2>5, <2>6 DEF RowsOfNodes
<1>8. /\ lanes \in [Ports -> [Lanes -> Nat]] /\ laneSel \in [Ports -> [Lanes -> Nat]]
      /\ laned \subseteq Ports
  BY <1>4 DEF NoLanes, NoNode
<1>9. row \in [Ports -> Row] /\ running \in BOOLEAN /\ tags \subseteq Ids
  <2>1. row \in [Ports -> Row]
    BY <1>5 DEF Row
  <2>2. running \in BOOLEAN
    BY DEF Init
  <2>3. tags \subseteq Ids
    BY <1>3, <1>5
  <2> QED
    BY <2>1, <2>2, <2>3
<1>10. /\ sel \in [Ports -> Nat] /\ asked \in [Ports -> SUBSET Keys]
       /\ given \subseteq Ids \X Keys
  BY <1>12 DEF Init, IsTable
<1>11. CallersTyped
  BY IdleTyped DEF Init, CallersTyped, RefreshTyped, AdminTyped, HealthTyped
<1> QED
  BY <1>6, <1>7, <1>8, <1>9, <1>10, <1>11, <1>12 DEF Typed, TypeOK

\* The actions of a refresh that change nothing but its own record.
LEMMA RefreshOnlyTyped ==
    ASSUME Typed,
           \/ RefreshBegin \/ RefreshFetchFails \/ RefreshFails \/ ApplyCheck
           \/ ApplyStartFails \/ RefreshReturn
           \/ \E p \in Ports : RefreshReadPort(p) \/ RefreshLanesRead(p)
    PROVE  TypeOK' /\ RowsOfNodes' /\ RefreshTyped'
<1>1. TypeOK' /\ RowsOfNodes'
  <2>1. UNCHANGED <<db, box, asked, given>>
    BY DEF RefreshBegin, RefreshFetchFails, RefreshFails, ApplyCheck, ApplyStartFails,
           RefreshReturn, RefreshReadPort, RefreshLanesRead
  <2> QED
    BY <2>1, SameTyped DEF Typed
<1>2. TypeOK /\ r \in Refreshes /\ GivenUp \in Refreshes /\ IdleRefresh \in Refreshes
  BY IdleTyped DEF Typed, CallersTyped, RefreshTyped
<1>3. CASE RefreshBegin
  <2>1. r' = Begun("api", row)
    BY <1>3 DEF RefreshBegin
  <2>2. Begun("api", row) \in Refreshes
    BY <1>2, BegunTyped DEF TypeOK
  <2>3. r' \in Refreshes
    BY <2>1, <2>2
  <2> QED
    BY <1>1, <2>3 DEF RefreshTyped
<1>4. CASE RefreshFetchFails \/ RefreshFails \/ ApplyStartFails \/ RefreshReturn
  <2>1. r' \in {GivenUp, IdleRefresh}
    BY <1>4 DEF RefreshFetchFails, RefreshFails, ApplyStartFails, RefreshReturn
  <2>2. r' \in Refreshes
    BY <1>2, <2>1
  <2> QED
    BY <1>1, <2>2 DEF RefreshTyped
<1>5. CASE ApplyCheck
  <2>1. Plan \in [Ports -> Plans]
    <3>1. \A p \in Ports : row[p].active \in Nat /\ lanes[p] \in [Lanes -> Nat]
      BY <1>2 DEF TypeOK, Row
    <3> QED
      BY <3>1 DEF Plan, Plans, LaneNodes, NoNode
  <2>2. [r EXCEPT !.pc = "stop", !.plan = Plan] \in Refreshes
    BY <1>2, <2>1 DEF Refreshes
  <2>3. r' \in {[r EXCEPT !.pc = "stop", !.plan = Plan], GivenUp}
    BY <1>5 DEF ApplyCheck
  <2>4. r' \in Refreshes
    BY <1>2, <2>2, <2>3
  <2> QED
    BY <1>1, <2>4 DEF RefreshTyped
<1>6. ASSUME NEW p \in Ports, RefreshReadPort(p) PROVE RefreshTyped'
  <2> DEFINE off == KeysOf(DisabledIn(p))
             keys == [l \in Lanes |-> KeyOf(lanes[p][l])]
             known == p \in laned
  <2>1. off \in SUBSET Keys
    BY <1>2 DEF KeysOf, TypeOK, IsTable
  <2>2. keys \in [Lanes -> Keys \cup {NoKey}]
    BY <1>2, KeyOfIs DEF TypeOK
  <2>3. r' = [r EXCEPT !.todo = @ \ {p}, !.want[p].off = off, !.want[p].laned = known,
                       !.want[p].lanes = keys]
    BY <1>6 DEF RefreshReadPort
  <2>7. known \in BOOLEAN
    OBVIOUS
  <2> HIDE DEF off, keys, known
  <2>4. [r.want EXCEPT ![p].off = off, ![p].laned = known, ![p].lanes = keys] \in [Ports -> Wants]
    <3>1. r.want \in [Ports -> Wants]
      BY <1>2 DEF Refreshes
    <3>2. [r.want[p] EXCEPT !.off = off, !.laned = known, !.lanes = keys] \in Wants
      <4>1. r.want[p] \in Wants
        BY <3>1
      <4> QED
        BY <2>1, <2>2, <2>7, <4>1 DEF Wants
    <3>3. [r.want EXCEPT ![p].off = off, ![p].laned = known, ![p].lanes = keys]
            = [r.want EXCEPT ![p] = [r.want[p] EXCEPT !.off = off, !.laned = known, !.lanes = keys]]
      BY <3>1
    <3> QED
      BY <3>1, <3>2, <3>3
  <2>5. r' = [r EXCEPT !.todo = r.todo \ {p},
                       !.want = [r.want EXCEPT ![p].off = off, ![p].laned = known,
                                               ![p].lanes = keys]]
    BY <1>2, <2>3 DEF Refreshes
  <2>6. r' \in Refreshes
    BY <1>2, <2>4, <2>5 DEF Refreshes
  <2> QED
    BY <2>6 DEF RefreshTyped
<1>7. ASSUME NEW p \in Ports, RefreshLanesRead(p) PROVE RefreshTyped'
  <2>1. Assigned(p) \in LaneNodes
    BY <1>2, AssignedIs
  <2>2. r' \in Refreshes
    BY <1>2, <1>7, <2>1 DEF RefreshLanesRead, Refreshes
  <2> QED
    BY <2>2 DEF RefreshTyped
<1> QED
  BY <1>1, <1>3, <1>4, <1>5, <1>6, <1>7

\* What the transaction that replaces the nodes makes of the tables.
LEMMA ReplacedNodes ==
    ASSUME Typed, NEW list \in Lists, RefreshReplaceNodes(list)
    PROVE  /\ DOMAIN nodes' = NewIds(list) /\ DOMAIN nodes' \subseteq Ids
           /\ Least(DOMAIN nodes') = nextId /\ nextId \in DOMAIN nodes'
           /\ \A n \in DOMAIN nodes' : nextId <= n /\ n < nextId' /\ nodes'[n] \in Keys
           /\ \A m, n \in DOMAIN nodes' : nodes'[m] = nodes'[n] => m = n
           /\ nextId' \in Ids
           /\ \A n \in DOMAIN nodes' : /\ n \in DOMAIN status'
                                       /\ status'[n] = [state |-> "active", disabled |-> FALSE]
           /\ IsTable(status', NodeRow)
           /\ \A p \in Ports : \A n \in DOMAIN nodes' :
                 n \in DOMAIN portNode'[p] /\ portNode'[p][n] = FALSE
           /\ \A p \in Ports : IsTable(portNode'[p], BOOLEAN)
           /\ portNode' = [p \in Ports |-> portNode'[p]]
<1> DEFINE new == NewIds(list)
<1>1. /\ Len(list) \in Nat \ {0} /\ list \in [1..Len(list) -> Keys]
      /\ \A i, j \in 1..Len(list) : i # j => list[i] # list[j]
  BY ListIs
<1>2. nextId \in Ids /\ IsTable(status, NodeRow) /\ \A p \in Ports : IsTable(portNode[p], BOOLEAN)
  BY DEF Typed, TypeOK
<1>3. /\ new \subseteq Ids /\ nextId \in new /\ Least(new) = nextId
      /\ \A n \in new : n - nextId + 1 \in 1..Len(list)
      /\ \A n \in new : nextId <= n /\ n < nextId + Len(list)
  BY <1>1, <1>2, NewIdsAre
<1>4. /\ nodes' = [n \in new |-> list[n - Least(new) + 1]]
      /\ nextId' = nextId + Len(list)
      /\ status' = [n \in (DOMAIN status \ DOMAIN nodes) \cup new |->
                      IF n \in new THEN [state |-> "active", disabled |-> FALSE] ELSE status[n]]
      /\ portNode' = [p \in Ports |-> [n \in (DOMAIN portNode[p] \ DOMAIN nodes) \cup new |->
                                          IF n \in new THEN FALSE ELSE portNode[p][n]]]
  BY DEF RefreshReplaceNodes
<1> HIDE DEF new
<1>5. nodes' = [n \in new |-> list[n - nextId + 1]]
  BY <1>3, <1>4
<1>6. DOMAIN nodes' = new
  BY <1>5
<1>7. \A n \in new : nodes'[n] = list[n - nextId + 1]
  BY <1>5
<1>8. \A n \in new : nodes'[n] \in Keys
  BY <1>1, <1>3, <1>7
<1>9. ASSUME NEW m \in new, NEW n \in new, nodes'[m] = nodes'[n] PROVE m = n
  <2>1. list[m - nextId + 1] = list[n - nextId + 1]
    BY <1>7, <1>9
  <2>2. m - nextId + 1 = n - nextId + 1
    BY <1>1, <1>3, <2>1
  <2> QED
    BY <1>2, <1>3, <2>2 DEF Ids
<1>10. nextId' \in Ids /\ \A n \in new : n < nextId'
  BY <1>1, <1>2, <1>3, <1>4 DEF Ids
<1>11. \A n \in new : n \in DOMAIN status' /\ status'[n] = [state |-> "active", disabled |-> FALSE]
  BY <1>4
<1>12. IsTable(status', NodeRow)
  BY <1>2, <1>3, <1>4 DEF IsTable, NodeRow, States
<1>13. ASSUME NEW p \in Ports
       PROVE  /\ \A n \in new : n \in DOMAIN portNode'[p] /\ portNode'[p][n] = FALSE
              /\ IsTable(portNode'[p], BOOLEAN)
  <2>1. portNode'[p] = [n \in (DOMAIN portNode[p] \ DOMAIN nodes) \cup new |->
                           IF n \in new THEN FALSE ELSE portNode[p][n]]
    BY <1>4
  <2> QED
    BY <1>2, <1>3, <2>1 DEF IsTable
<1>14. portNode' = [p \in Ports |-> portNode'[p]]
  BY <1>4
<1>15. DOMAIN nodes' = NewIds(list)
  BY <1>6 DEF new
<1> QED
  BY <1>3, <1>6, <1>8, <1>9, <1>10, <1>11, <1>12, <1>13, <1>14, <1>15

LEMMA ReplaceTyped ==
    ASSUME Typed, NEW list \in Lists, RefreshReplaceNodes(list)
    PROVE  TypeOK' /\ RowsOfNodes' /\ RefreshTyped'
<1>1. /\ DOMAIN nodes' \subseteq Ids /\ \A n \in DOMAIN nodes' : nodes'[n] \in Keys
      /\ nextId \in DOMAIN nodes' /\ nextId' \in Ids /\ IsTable(status', NodeRow)
      /\ \A p \in Ports : IsTable(portNode'[p], BOOLEAN)
      /\ portNode' = [p \in Ports |-> portNode'[p]]
  BY ReplacedNodes
<1>2. IsTable(nodes', Keys)
  <2>1. nodes' = [n \in DOMAIN nodes' |-> nodes'[n]]
    BY DEF RefreshReplaceNodes
  <2> QED
    BY <1>1, <2>1 DEF IsTable
<1>3. row' \in [Ports -> Row]
  <2>1. Least(NewIds(list)) \in Nat
    BY <1>1, ReplacedNodes DEF Ids
  <2>2. row \in [Ports -> Row]
    BY DEF Typed, TypeOK
  <2> QED
    BY <2>1, <2>2 DEF RefreshReplaceNodes, Row
<1>4. asked' \in [Ports -> SUBSET Keys]
  BY DEF Typed, TypeOK, RefreshReplaceNodes
<1>5. UNCHANGED <<lanes, laned, running, tags, sel, laneSel>>
  BY DEF RefreshReplaceNodes, box
<1>9. given' \subseteq Ids \X Keys
  <2>1. given' = given \cup {<<n, nodes'[n]>> : n \in NewIds(list)} /\ given \subseteq Ids \X Keys
    BY DEF RefreshReplaceNodes, Typed, TypeOK
  <2>2. DOMAIN nodes' = NewIds(list)
    BY ReplacedNodes
  <2> QED
    BY <1>1, <2>1, <2>2
<1>6. TypeOK'
  BY <1>1, <1>2, <1>3, <1>4, <1>5, <1>9 DEF Typed, TypeOK
<1>7. RowsOfNodes'
  <2>1. /\ DOMAIN nodes' # {} /\ \A n \in DOMAIN nodes' : n < nextId'
        /\ \A m, n \in DOMAIN nodes' : nodes'[m] = nodes'[n] => m = n
    BY ReplacedNodes
  <2>2. DOMAIN nodes' \subseteq DOMAIN status'
    BY ReplacedNodes
  <2> QED
    BY <2>1, <2>2 DEF RowsOfNodes
<1>8. RefreshTyped'
  <2>1. r' = [r EXCEPT !.pc = "row", !.todo = Ports]
    BY DEF RefreshReplaceNodes
  <2> QED
    BY <2>1 DEF Typed, CallersTyped, RefreshTyped, Refreshes
<1> QED
  BY <1>6, <1>7, <1>8

\* The tables a step changes are typed; the rest is as it was.
LEMMA RefreshWritesTyped ==
    ASSUME Typed,
           \/ \E p \in Ports : RefreshPortRow(p)
           \/ RefreshDisables \/ RefreshLanes \/ RefreshLanesWrite \/ ApplyStop \/ ApplyStart
    PROVE  TypeOK' /\ RowsOfNodes' /\ RefreshTyped'
<1> USE DEF db, box
<1>1. TypeOK /\ RowsOfNodes /\ r \in Refreshes /\ GivenUp \in Refreshes /\ IdleRefresh \in Refreshes
  BY IdleTyped DEF Typed, CallersTyped, RefreshTyped
<1>2. /\ r.port \in Ports /\ r.lanes \in LaneNodes /\ r.plan \in [Ports -> Plans]
      /\ r.want \in [Ports -> Wants]
  BY <1>1 DEF Refreshes
<1>3. IsTable(nodes, Keys)
  BY <1>1 DEF TypeOK
<1>4. ASSUME NEW p \in Ports, RefreshPortRow(p) PROVE TypeOK' /\ RowsOfNodes' /\ RefreshTyped'
  <2> DEFINE kept == IdOf(r.want[p].key)
             put == IF kept # NoNode THEN [active |-> kept, mode |-> r.want[p].mode]
                    ELSE [active |-> Least(DOMAIN nodes), mode |-> "auto"]
  <2>1. kept \in Nat /\ Least(DOMAIN nodes) \in Nat
    BY <1>1, <1>3, IdOfIs, FirstNodeIs DEF RowsOfNodes
  <2>2. r.want[p].mode \in {"auto", "manual_locked"}
    BY <1>2 DEF Wants, Modes
  <2>3. put \in Row
    BY <2>1, <2>2 DEF Row
  <2>4. /\ row' = [row EXCEPT ![p] = put]
        /\ r' = [r EXCEPT !.pc = "disable", !.port = p]
        /\ UNCHANGED <<nodes, nextId, status, portNode, lanes, laned, box, asked, given>>
    BY <1>4 DEF RefreshPortRow, PutRow
  <2> HIDE DEF put
  <2>5. TypeOK' /\ RowsOfNodes'
    BY <1>1, <2>3, <2>4 DEF TypeOK, RowsOfNodes, IsTable
  <2>6. RefreshTyped'
    BY <1>1, <2>4 DEF Refreshes, RefreshTyped
  <2> QED
    BY <2>5, <2>6
<1>5. CASE RefreshDisables
  <2> DEFINE p == r.port
             all == {IdOf(key) : key \in r.want[p].off} \ {NoNode}
  <2>1. PICK done \in SUBSET all :
          /\ portNode' = [portNode EXCEPT ![p] =
                [n \in DOMAIN portNode[p] \cup done |-> n \in done \/ portNode[p][n]]]
          /\ status' = [n \in DOMAIN status |->
                [status[n] EXCEPT !.disabled = @ \/ (p = Default /\ n \in done)]]
          /\ r' = IF done = all THEN [r EXCEPT !.pc = "lanes"] ELSE GivenUp
    BY <1>5 DEF RefreshDisables
  <2>2. done \subseteq DOMAIN nodes /\ done \subseteq Ids
    BY <1>3, IdOfIs DEF IsTable
  <2> HIDE DEF all
  <2>3. IsTable(status', NodeRow) /\ DOMAIN status' = DOMAIN status
    BY <1>1, <2>1 DEF TypeOK, IsTable, NodeRow
  <2>4. portNode' = [q \in Ports |-> portNode'[q]] /\ DOMAIN portNode = Ports
    BY <1>1, <2>1 DEF TypeOK
  <2>5. ASSUME NEW q \in Ports
        PROVE  IsTable(portNode'[q], BOOLEAN) /\ DOMAIN portNode[q] \subseteq DOMAIN portNode'[q]
    <3>1. IsTable(portNode[q], BOOLEAN)
      BY <1>1 DEF TypeOK
    <3>2. CASE q = p
      <4>1. portNode'[q] = [n \in DOMAIN portNode[q] \cup done |-> n \in done \/ portNode[q][n]]
        BY <2>1, <2>4, <3>2
      <4> QED
        BY <2>2, <3>1, <4>1 DEF IsTable
    <3>3. CASE q # p
      BY <2>1, <2>4, <3>1, <3>3
    <3> QED
      BY <3>2, <3>3
  <2>6. UNCHANGED <<nodes, nextId, row, lanes, laned, box, asked, given>>
    BY <1>5 DEF RefreshDisables
  <2>7. TypeOK'
    BY <1>1, <2>3, <2>4, <2>5, <2>6 DEF TypeOK, IsTable
  <2>8. RowsOfNodes'
    BY <1>1, <2>3, <2>6 DEF RowsOfNodes
  <2>9. r' \in {[r EXCEPT !.pc = "lanes"], GivenUp}
    BY <2>1
  <2>10. RefreshTyped'
    BY <1>1, <2>9 DEF Refreshes, RefreshTyped
  <2> QED
    BY <2>7, <2>8, <2>10
<1>6. CASE RefreshLanes
  <2> DEFINE p == r.port
  <2>1. PICK done \in SUBSET Lanes :
          /\ lanes' = [lanes EXCEPT ![p] =
                [l \in Lanes |-> IF l \in done THEN IdOf(r.want[p].lanes[l]) ELSE lanes[p][l]]]
          /\ r' \in {GivenUp, [r EXCEPT !.pc = IF r.todo = {p} THEN "build" ELSE "row",
                                       !.todo = @ \ {p}]}
    BY <1>6 DEF RefreshLanes
  <2>2. lanes' \in [Ports -> [Lanes -> Nat]]
    <3>1. \A l \in Lanes : IdOf(r.want[p].lanes[l]) \in Nat
      BY <1>3, IdOfIs
    <3> QED
      BY <1>1, <1>2, <2>1, <3>1 DEF TypeOK
  <2>3. UNCHANGED <<nodes, nextId, status, portNode, row, laned, box, asked, given>>
    BY <1>6 DEF RefreshLanes
  <2>4. TypeOK' /\ RowsOfNodes'
    BY <1>1, <2>2, <2>3 DEF TypeOK, RowsOfNodes, IsTable
  <2>5. RefreshTyped'
    <3> DEFINE pc == IF r.todo = {p} THEN "build" ELSE "row"
    <3>1. pc \in {"build", "row"}
      OBVIOUS
    <3>2. r' \in {GivenUp, [r EXCEPT !.pc = pc, !.todo = @ \ {p}]}
      BY <2>1
    <3> HIDE DEF pc
    <3>3. CASE r' = GivenUp
      BY <1>1, <3>3 DEF RefreshTyped
    <3>4. CASE r' = [r EXCEPT !.pc = pc, !.todo = @ \ {p}]
      <4>1. r \in Refreshes /\ r.todo \ {p} \in SUBSET Ports
        BY <1>1 DEF RefreshTyped, Refreshes
      <4> HIDE DEF p
      <4> QED
        BY <3>1, <3>4, <4>1 DEF Refreshes, RefreshTyped
    <3> QED
      BY <3>2, <3>3, <3>4
  <2> QED
    BY <2>4, <2>5
<1>7. CASE RefreshLanesWrite
  <2>1. /\ lanes' = [lanes EXCEPT ![r.port] = r.lanes] /\ laned' = laned \cup {r.port}
        /\ UNCHANGED <<nodes, nextId, status, portNode, row, box, asked, given>>
    BY <1>7 DEF RefreshLanesWrite, PutLanes
  <2>2. lanes' \in [Ports -> [Lanes -> Nat]]
    BY <1>1, <1>2, <2>1 DEF TypeOK, LaneNodes
  <2>3. TypeOK' /\ RowsOfNodes'
    BY <1>1, <1>2, <2>1, <2>2 DEF TypeOK, RowsOfNodes, IsTable
  <2>4. RefreshTyped'
    BY <1>1, <1>7 DEF RefreshLanesWrite, Refreshes, RefreshTyped
  <2> QED
    BY <2>3, <2>4
<1>8. CASE ApplyStop
  <2>1. /\ running' = FALSE /\ tags' = {} /\ sel' = [p \in Ports |-> NoNode]
        /\ laneSel' = [p \in Ports |-> NoLanes] /\ UNCHANGED <<db, asked, given>>
    BY <1>8 DEF ApplyStop
  <2>2. sel' \in [Ports -> Nat] /\ laneSel' \in [Ports -> [Lanes -> Nat]]
    BY <2>1 DEF NoNode, NoLanes
  <2>3. TypeOK' /\ RowsOfNodes'
    BY <1>1, <2>1, <2>2 DEF TypeOK, RowsOfNodes, IsTable
  <2>4. RefreshTyped'
    BY <1>1, <1>8 DEF ApplyStop, Refreshes, RefreshTyped
  <2> QED
    BY <2>3, <2>4
<1>9. CASE ApplyStart
  <2>1. /\ running' = TRUE /\ tags' = DOMAIN nodes /\ sel' = [p \in Ports |-> r.plan[p].sel]
        /\ laneSel' = [p \in Ports |-> r.plan[p].lanes] /\ UNCHANGED <<db, asked, given>>
    BY <1>9 DEF ApplyStart
  <2>2. sel' \in [Ports -> Nat] /\ laneSel' \in [Ports -> [Lanes -> Nat]] /\ tags' \subseteq Ids
    BY <1>2, <1>3, <2>1 DEF Plans, LaneNodes, IsTable
  <2>3. TypeOK' /\ RowsOfNodes'
    BY <1>1, <2>1, <2>2 DEF TypeOK, RowsOfNodes, IsTable
  <2>4. RefreshTyped'
    <3>1. r' \in {IdleRefresh, [r EXCEPT !.pc = "lanesRead", !.todo = Ports]}
      BY <1>9 DEF ApplyStart
    <3> QED
      BY <1>1, <3>1 DEF Refreshes, RefreshTyped
  <2> QED
    BY <2>3, <2>4
<1> QED
  BY <1>4, <1>5, <1>6, <1>7, <1>8, <1>9

\* Going on to the next port, or to the lanes.
LEMMA PortDoneIs ==
    ASSUME HealthTyped, h.pc # "probe", NEW p,
           h' = PortDone(p) \/ h' = [PortDone(p) EXCEPT !.calm = FALSE]
    PROVE  /\ HealthTyped'
           /\ h'.pc = IF h.todo = {p} THEN "lanesRead" ELSE "ports"
           /\ h'.todo = IF h.todo = {p} THEN Ports ELSE h.todo \ {p}
           /\ h'.calm => h' = PortDone(p) /\ h.calm
<1> DEFINE pc == IF h.todo = {p} THEN "lanesRead" ELSE "ports"
           todo == IF h.todo = {p} THEN Ports ELSE h.todo \ {p}
<1>1. PortDone(p) = [h EXCEPT !.pc = pc, !.todo = todo]
  BY DEF PortDone, HealthTyped
<1>2. pc \in {"lanesRead", "ports"} /\ todo \subseteq Ports
  BY DEF HealthTyped
<1> HIDE DEF pc, todo
<1>3. PICK calm \in {h.calm, FALSE} : h' = [h EXCEPT !.pc = pc, !.todo = todo, !.calm = calm]
  BY <1>1 DEF HealthTyped
<1>4. /\ h'.pc = pc /\ h'.todo = todo /\ h'.port = h.port /\ h'.seen = h.seen /\ h'.calm = calm
      /\ h'.row = h.row /\ h'.next = h.next /\ h'.lanes = h.lanes
  BY <1>3 DEF HealthTyped
<1>5. HealthTyped'
  BY <1>2, <1>3, <1>4 DEF HealthTyped
<1>6. h'.calm => h' = PortDone(p) /\ h.calm
  BY <1>1, <1>4 DEF PortDone, HealthTyped
<1> QED
  BY <1>4, <1>5, <1>6 DEF pc, todo

\* What a probe does to the record, and what it may write.
LEMMA ProbeIs ==
    ASSUME Typed, NEW up \in BOOLEAN, HealthProbe(up)
    PROVE  LET n == Least(h.todo)
               st == [state |-> IF up THEN "active" ELSE "cooldown", disabled |-> h.seen[n].disabled]
           IN  /\ n \in h.todo /\ n \in Ids /\ st \in NodeRow
               /\ h'.todo = IF h.todo = {n} THEN Ports ELSE h.todo \ {n}
               /\ h'.pc = IF h.todo = {n} THEN "ports" ELSE "probe"
               /\ h'.seen = h.seen
               /\ \/ UNCHANGED <<status, portNode>>
                  \/ /\ status' = Upsert(status, n, st)
                     /\ portNode' = [portNode EXCEPT ![Default] = Upsert(@, n, st.disabled)]
               /\ h'.calm => /\ h.calm
                             /\ \/ status' = Upsert(status, n, st)
                                \/ /\ UNCHANGED <<status, portNode>>
                                   /\ up /\ h.seen[n].state = "active"
               /\ HealthTyped'
<1> DEFINE n == Least(h.todo)
           st == [state |-> IF up THEN "active" ELSE "cooldown", disabled |-> h.seen[n].disabled]
           todo == IF h.todo = {n} THEN Ports ELSE h.todo \ {n}
           pc == IF h.todo = {n} THEN "ports" ELSE "probe"
           written == /\ status' = Upsert(status, n, st)
                      /\ portNode' = [portNode EXCEPT ![Default] = Upsert(@, n, st.disabled)]
           same == up /\ h.seen[n].state = "active"
           calm == h.calm /\ (written \/ same)
<1>1. HealthTyped /\ h.pc = "probe"
  BY DEF Typed, CallersTyped, HealthProbe
<1>2. h.todo \subseteq DOMAIN h.seen /\ h.todo # {} /\ IsTable(h.seen, NodeRow)
  BY <1>1 DEF HealthTyped
<1>3. n \in h.todo /\ n \in Ids
  <2>1. h.todo \in SUBSET Nat
    BY <1>2 DEF IsTable, Ids
  <2> QED
    BY <1>2, <2>1, LeastIs DEF IsTable
<1>4. h.seen[n] \in NodeRow /\ n \in DOMAIN h.seen
  BY <1>2, <1>3 DEF IsTable
<1>5. st = [h.seen[n] EXCEPT !.state = IF up THEN "active" ELSE "cooldown"] /\ st \in NodeRow
  BY <1>4 DEF NodeRow, States
<1>6. (written \/ UNCHANGED <<status, portNode>>) /\ h' = [h EXCEPT !.todo = todo, !.calm = calm, !.pc = pc]
  <2> HIDE DEF st, n
  <2> QED
    BY <1>1, <1>5 DEF HealthProbe, HealthTyped, n
<1>7. calm \in BOOLEAN
  OBVIOUS
<1>8. (h.todo = {n} => pc = "ports" /\ todo = Ports)
      /\ (h.todo # {n} => pc = "probe" /\ todo = h.todo \ {n})
  OBVIOUS
<1>9. calm => h.calm /\ (written \/ same)
  OBVIOUS
<1> HIDE DEF n, st, todo, pc, calm
<1>10. /\ h'.todo = todo /\ h'.pc = pc /\ h'.seen = h.seen /\ h'.calm = calm
       /\ h'.port = h.port /\ h'.row = h.row /\ h'.next = h.next /\ h'.lanes = h.lanes
  BY <1>1, <1>6 DEF HealthTyped
<1>11. HealthTyped'
  <2>1. pc \in {"ports", "probe"}
    BY <1>8
  <2>2. /\ h'.pc = "probe" => h'.todo \subseteq DOMAIN h'.seen /\ h'.todo # {}
        /\ h'.pc # "probe" => h'.todo \subseteq Ports
    BY <1>2, <1>3, <1>8, <1>10
  <2> HIDE DEF written, same
  <2>3. h' \in [pc : {"idle", "probe", "ports", "switch", "write", "lanesRead", "lanesWrite", "done"},
                todo : {h'.todo}, port : Ports, calm : BOOLEAN, seen : {h'.seen},
                row : Row, next : Nat, lanes : LaneNodes]
    BY <1>1, <1>6, <1>7, <1>10, <2>1 DEF HealthTyped
  <2> QED
    BY <1>2, <1>10, <2>2, <2>3 DEF HealthTyped
<1>12. h'.calm => h.calm /\ (status' = Upsert(status, n, st)
                             \/ (UNCHANGED <<status, portNode>> /\ same))
  BY <1>6, <1>9, <1>10
<1> QED
  BY <1>3, <1>5, <1>6, <1>8, <1>10, <1>11, <1>12 DEF n, st

LEMMA ProbeTyped ==
    ASSUME Typed, NEW up \in BOOLEAN, HealthProbe(up)
    PROVE  TypeOK' /\ RowsOfNodes' /\ DOMAIN status \subseteq DOMAIN status'
<1> DEFINE n == Least(h.todo)
           st == [state |-> IF up THEN "active" ELSE "cooldown", disabled |-> h.seen[n].disabled]
<1>1. /\ n \in Ids /\ st \in NodeRow
      /\ \/ UNCHANGED <<status, portNode>>
         \/ /\ status' = Upsert(status, n, st)
            /\ portNode' = [portNode EXCEPT ![Default] = Upsert(@, n, st.disabled)]
  BY ProbeIs
<1>2. UNCHANGED <<nodes, nextId, row, lanes, laned, box, asked, given>>
  BY DEF HealthProbe
<1>3. TypeOK /\ RowsOfNodes /\ st.disabled \in BOOLEAN
  BY <1>1 DEF Typed, NodeRow
<1> HIDE DEF n, st
<1>4. IsTable(status', NodeRow) /\ DOMAIN status \subseteq DOMAIN status'
  <2>1. IsTable(status, NodeRow)
    BY <1>3 DEF TypeOK
  <2>2. /\ IsTable(Upsert(status, n, st), NodeRow)
        /\ DOMAIN Upsert(status, n, st) = DOMAIN status \cup {n}
    BY <1>1, <2>1 DEF Upsert, IsTable
  <2>3. status' = status \/ status' = Upsert(status, n, st)
    BY <1>1
  <2> QED
    BY <2>1, <2>2, <2>3
<1>5. portNode' = [p \in Ports |-> portNode'[p]]
  BY <1>1, <1>3 DEF TypeOK
<1>6. ASSUME NEW p \in Ports
      PROVE  IsTable(portNode'[p], BOOLEAN) /\ DOMAIN portNode[p] \subseteq DOMAIN portNode'[p]
  <2>1. IsTable(portNode[p], BOOLEAN) /\ DOMAIN portNode = Ports
    BY <1>3 DEF TypeOK
  <2>2. CASE p = Default /\ ~ UNCHANGED portNode
    <3>1. portNode'[p] = Upsert(portNode[p], n, st.disabled)
      BY <1>1, <2>1, <2>2
    <3>2. /\ IsTable(Upsert(portNode[p], n, st.disabled), BOOLEAN)
          /\ DOMAIN Upsert(portNode[p], n, st.disabled) = DOMAIN portNode[p] \cup {n}
      BY <1>1, <1>3, <2>1 DEF Upsert, IsTable
    <3> QED
      BY <3>1, <3>2
  <2>3. CASE p # Default \/ UNCHANGED portNode
    BY <1>1, <2>1, <2>3
  <2> QED
    BY <2>2, <2>3
<1>7. TypeOK'
  BY <1>2, <1>3, <1>4, <1>5, <1>6 DEF TypeOK, IsTable, box
<1>8. RowsOfNodes'
  BY <1>2, <1>3, <1>4 DEF RowsOfNodes
<1> QED
  BY <1>4, <1>7, <1>8

LEMMA HealthStepTyped ==
    ASSUME Typed, HealthStep
    PROVE  TypeOK' /\ RowsOfNodes' /\ HealthTyped'
<1>1. TypeOK /\ RowsOfNodes /\ HealthTyped
  BY DEF Typed, CallersTyped
<1>2. CASE HealthBegin
  <2>1. TypeOK' /\ RowsOfNodes'
    BY <1>1, <1>2, SameTyped DEF HealthBegin
  <2>2. /\ h' = [pc |-> "probe", todo |-> DOMAIN status, port |-> Default, calm |-> TRUE,
                 seen |-> View(Default), row |-> [active |-> NoNode, mode |-> "auto"],
                 next |-> NoNode, lanes |-> NoLanes]
    BY <1>2 DEF HealthBegin, IdleHealth
  <2>3. IsTable(View(Default), NodeRow) /\ DOMAIN View(Default) = DOMAIN status /\ DOMAIN status # {}
    BY <1>1, PortsAssumption, ViewIs DEF RowsOfNodes
  <2>4. NoLanes \in LaneNodes
    BY DEF NoLanes, LaneNodes, NoNode
  <2>5. HealthTyped'
    BY <2>2, <2>3, <2>4, PortsAssumption DEF HealthTyped, Row, NoNode, IsTable
  <2> QED
    BY <2>1, <2>5
<1>3. ASSUME NEW up \in BOOLEAN, HealthProbe(up) PROVE TypeOK' /\ RowsOfNodes' /\ HealthTyped'
  BY <1>3, ProbeTyped, ProbeIs
<1>4. ASSUME NEW p \in Ports, HealthReadPort(p) PROVE TypeOK' /\ RowsOfNodes' /\ HealthTyped'
  <2>1. TypeOK' /\ RowsOfNodes'
    BY <1>1, <1>4, SameTyped DEF HealthReadPort
  <2>2. CASE h' = PortDone(p)
    BY <1>1, <1>4, <2>1, <2>2, PortDoneIs DEF HealthReadPort
  <2>3. CASE h' # PortDone(p)
    <3>1. PICK n \in Eligible(View(p)) :
            h' = [h EXCEPT !.pc = "switch", !.port = p, !.next = n, !.row = row[p]]
      BY <1>4, <2>3 DEF HealthReadPort
    <3>2. n \in Nat /\ row[p] \in Row
      BY <1>1, ViewIs DEF TypeOK
    <3>3. HealthTyped'
      BY <1>1, <1>4, <3>1, <3>2 DEF HealthReadPort, HealthTyped
    <3> QED
      BY <2>1, <3>3
  <2> QED
    BY <2>2, <2>3
<1>5. ASSUME NEW p \in Ports, HealthLanesRead(p) PROVE TypeOK' /\ RowsOfNodes' /\ HealthTyped'
  <2>1. TypeOK' /\ RowsOfNodes'
    BY <1>1, <1>5, SameTyped DEF HealthLanesRead
  <2>2. Assigned(p) \in LaneNodes
    BY <1>1, AssignedIs
  <2>3. HealthTyped'
    BY <1>1, <1>5, <2>2 DEF HealthLanesRead, HealthTyped
  <2> QED
    BY <2>1, <2>3
<1>6. CASE HealthSwitch
  <2>1. /\ sel' \in {sel, [sel EXCEPT ![h.port] = h.next]}
        /\ UNCHANGED <<db, running, tags, laneSel, asked, given>>
    BY <1>6 DEF HealthSwitch
  <2>2. sel' \in [Ports -> Nat]
    BY <1>1, <2>1 DEF TypeOK, HealthTyped
  <2>3. TypeOK' /\ RowsOfNodes'
    BY <1>1, <2>1, <2>2 DEF TypeOK, RowsOfNodes, IsTable, db
  <2>4. h.pc = "switch" /\ h' \in {[h EXCEPT !.pc = "write"], PortDone(h.port)}
    BY <1>6 DEF HealthSwitch
  <2>5. h' = [h EXCEPT !.pc = "write"] => HealthTyped'
    BY <1>1, <2>4 DEF HealthTyped
  <2>6. h' = PortDone(h.port) => HealthTyped'
    BY <1>1, <2>4, PortDoneIs
  <2> QED
    BY <2>3, <2>4, <2>5, <2>6
<1>7. CASE HealthWriteRow
  <2> DEFINE put == [active |-> h.next,
                     mode |-> IF h.row.mode = "manual_locked" THEN "manual_locked" ELSE "auto"]
  <2>1. /\ row' = [row EXCEPT ![h.port] = put]
        /\ UNCHANGED <<nodes, nextId, status, portNode, lanes, laned, box, asked, given>>
    BY <1>7 DEF HealthWriteRow, PutRow
  <2>2. put \in Row
    BY <1>1 DEF HealthTyped, Row
  <2> HIDE DEF put
  <2>3. TypeOK' /\ RowsOfNodes'
    BY <1>1, <2>1, <2>2 DEF TypeOK, RowsOfNodes, IsTable, box
  <2>4. HealthTyped'
    BY <1>1, <1>7, PortDoneIs DEF HealthWriteRow
  <2> QED
    BY <2>3, <2>4
<1>8. CASE HealthWriteFails
  <2>1. TypeOK' /\ RowsOfNodes'
    BY <1>1, <1>8, SameTyped DEF HealthWriteFails
  <2> QED
    BY <1>1, <1>8, <2>1, PortDoneIs DEF HealthWriteFails
<1>9. CASE HealthLanesWrite
  <2>1. /\ lanes' = [lanes EXCEPT ![h.port] = h.lanes] /\ laned' = laned \cup {h.port}
        /\ h.port \in Ports
        /\ UNCHANGED <<nodes, nextId, status, portNode, row, box, asked, given>>
    BY <1>1, <1>9 DEF HealthLanesWrite, PutLanes, HealthTyped
  <2>2. lanes' \in [Ports -> [Lanes -> Nat]]
    BY <1>1, <2>1 DEF TypeOK, HealthTyped, LaneNodes
  <2>3. TypeOK' /\ RowsOfNodes'
    BY <1>1, <2>1, <2>2 DEF TypeOK, RowsOfNodes, IsTable, box
  <2>4. HealthTyped'
    BY <1>1, <1>9 DEF HealthLanesWrite, HealthTyped
  <2> QED
    BY <2>3, <2>4
<1>10. CASE HealthLanesFail \/ HealthReturn
  <2>1. h' = IdleHealth /\ UNCHANGED <<db, box, asked, given>>
    BY <1>10 DEF HealthLanesFail, HealthReturn
  <2>2. TypeOK' /\ RowsOfNodes'
    BY <1>1, <2>1, SameTyped
  <2>3. HealthTyped'
    BY <2>1, IdleHealthTyped
  <2> QED
    BY <2>2, <2>3
<1> QED
  BY <1>2, <1>3, <1>4, <1>5, <1>6, <1>7, <1>8, <1>9, <1>10 DEF HealthStep

LEMMA AdminStepTyped ==
    ASSUME Typed, AdminStep
    PROVE  TypeOK' /\ RowsOfNodes' /\ AdminTyped'
<1>1. TypeOK /\ RowsOfNodes /\ a \in Admins /\ IdleAdmin \in Admins
  BY IdleTyped DEF Typed, CallersTyped, AdminTyped
<1>2. a.port \in Ports /\ a.node \in Nat /\ a.active \in Nat
  BY <1>1 DEF Admins
<1>3. ASSUME NEW pc \in {"selector", "read", "commit"},
             NEW op \in {"switch", "unlock", "disable", "enable"},
             NEW p \in Ports, NEW n \in Nat, Request(pc, op, p, n)
      PROVE  TypeOK' /\ RowsOfNodes' /\ AdminTyped'
  <2>1. TypeOK' /\ RowsOfNodes'
    BY <1>1, <1>3, SameTyped DEF Request
  <2>2. a' = [IdleAdmin EXCEPT !.pc = pc, !.op = op, !.port = p, !.node = n]
    BY <1>3 DEF Request
  <2>3. a' \in Admins
    BY <1>1, <2>2 DEF Admins
  <2> QED
    BY <2>1, <2>3 DEF AdminTyped
<1>4. \A n \in DOMAIN nodes : n \in Nat
  BY <1>1 DEF TypeOK, IsTable, Ids
<1>5. ASSUME NEW p \in Ports, NEW n \in DOMAIN nodes, SwitchCheck(p, n)
      PROVE  TypeOK' /\ RowsOfNodes' /\ AdminTyped'
  <2>1. n \in Nat /\ Request("selector", "switch", p, n)
    BY <1>4, <1>5 DEF SwitchCheck
  <2> QED
    BY <2>1, <1>3
<1>6. ASSUME NEW p \in Ports, NEW n \in DOMAIN nodes, NEW op \in {"disable", "enable"},
             DisableCheck(p, n, op)
      PROVE  TypeOK' /\ RowsOfNodes' /\ AdminTyped'
  <2>1. n \in Nat /\ Request("commit", op, p, n)
    BY <1>4, <1>6 DEF DisableCheck
  <2> QED
    BY <2>1, <1>3
<1>7. ASSUME NEW p \in Ports, UnlockCheck(p)
      PROVE  TypeOK' /\ RowsOfNodes' /\ AdminTyped'
  <2>1. NoNode \in Nat /\ Request("read", "unlock", p, NoNode)
    BY <1>7 DEF UnlockCheck, NoNode
  <2> QED
    BY <2>1, <1>3
<1>8. CASE SwitchSelector
  <2>1. /\ sel' \in {sel, [sel EXCEPT ![a.port] = a.node]}
        /\ UNCHANGED <<db, running, tags, laneSel, asked, given>>
        /\ a' \in {[a EXCEPT !.pc = "read"], IdleAdmin}
    BY <1>8 DEF SwitchSelector
  <2>2. sel' \in [Ports -> Nat]
    BY <1>1, <1>2, <2>1 DEF TypeOK
  <2>3. TypeOK' /\ RowsOfNodes'
    BY <1>1, <2>1, <2>2 DEF TypeOK, RowsOfNodes, IsTable, db
  <2>4. a' \in Admins
    BY <1>1, <2>1 DEF Admins
  <2> QED
    BY <2>3, <2>4 DEF AdminTyped
<1>9. CASE AdminReadRow
  <2>1. TypeOK' /\ RowsOfNodes'
    BY <1>1, <1>9, SameTyped DEF AdminReadRow
  <2>2. row[a.port].active \in Nat
    BY <1>1, <1>2 DEF TypeOK, Row
  <2>3. a' = [a EXCEPT !.pc = "write", !.active = row[a.port].active]
    BY <1>9 DEF AdminReadRow
  <2>4. a' \in Admins
    BY <1>1, <2>2, <2>3 DEF Admins
  <2> QED
    BY <2>1, <2>4 DEF AdminTyped
<1>10. CASE AdminWriteRow
  <2> DEFINE put == IF a.op = "switch" THEN [active |-> a.node, mode |-> "manual_locked"]
                    ELSE [active |-> a.active, mode |-> "auto"]
  <2>1. /\ row' = [row EXCEPT ![a.port] = put] /\ a' = IdleAdmin
        /\ UNCHANGED <<nodes, nextId, status, portNode, lanes, laned, box, asked, given>>
    BY <1>10 DEF AdminWriteRow, PutRow
  <2>2. put \in Row
    BY <1>2 DEF Row
  <2> HIDE DEF put
  <2>3. TypeOK' /\ RowsOfNodes'
    BY <1>1, <2>1, <2>2 DEF TypeOK, RowsOfNodes, IsTable, box
  <2>4. a' \in Admins
    BY <1>1, <2>1
  <2> QED
    BY <2>3, <2>4 DEF AdminTyped
<1>11. CASE DisableCommit
  <2> DEFINE p == a.port
             n == a.node
             off == a.op = "disable"
             keep == IF n \in DOMAIN nodes THEN {nodes[n]} ELSE {}
             found == /\ n \in DOMAIN nodes \cup DOMAIN portNode[p]
                      /\ p = Default => n \in DOMAIN status
  <2>1. UNCHANGED <<nodes, nextId, row, lanes, laned, box, given>> /\ a' = IdleAdmin
    BY <1>11 DEF DisableCommit
  <2>2. a' \in Admins
    BY <1>1, <2>1
  <2>3. CASE ~ found
    <3>1. UNCHANGED <<portNode, status, asked, given>>
      BY <1>11, <2>3 DEF DisableCommit
    <3>2. TypeOK' /\ RowsOfNodes'
      BY <1>1, <2>1, <3>1, SameTyped DEF db
    <3> QED
      BY <2>2, <3>2 DEF AdminTyped
  <2>4. CASE found
    <3>1. /\ portNode' = [portNode EXCEPT ![p] = Upsert(@, n, off)]
          /\ status' = IF p = Default THEN [status EXCEPT ![n].disabled = off] ELSE status
          /\ asked' = [asked EXCEPT ![p] = IF off THEN @ \cup keep ELSE @ \ keep]
      BY <1>11, <2>4 DEF DisableCommit
    <3>2. n \in Ids /\ off \in BOOLEAN
      BY <1>1, <1>2, <2>4 DEF TypeOK, IsTable
    <3>3. keep \in SUBSET Keys
      BY <1>1 DEF TypeOK, IsTable
    <3> HIDE DEF found, off, keep
    <3>4. IsTable(status', NodeRow) /\ DOMAIN status' = DOMAIN status
      BY <1>1, <3>1, <3>2 DEF TypeOK, IsTable, NodeRow
    <3>5. portNode' = [q \in Ports |-> portNode'[q]] /\ DOMAIN portNode = Ports
      BY <1>1, <3>1 DEF TypeOK
    <3>6. ASSUME NEW q \in Ports
          PROVE  IsTable(portNode'[q], BOOLEAN) /\ DOMAIN portNode[q] \subseteq DOMAIN portNode'[q]
      <4>1. IsTable(portNode[q], BOOLEAN)
        BY <1>1 DEF TypeOK
      <4>2. CASE q = p
        <5>1. portNode'[q] = Upsert(portNode[q], n, off)
          BY <3>1, <3>5, <4>2
        <5> QED
          BY <3>2, <4>1, <5>1 DEF IsTable, Upsert
      <4>3. CASE q # p
        BY <3>1, <3>5, <4>1, <4>3
      <4> QED
        BY <4>2, <4>3
    <3>7. asked' \in [Ports -> SUBSET Keys]
      BY <1>1, <3>1, <3>3 DEF TypeOK
    <3>8. TypeOK'
      BY <1>1, <2>1, <3>4, <3>5, <3>6, <3>7 DEF TypeOK, IsTable, box
    <3>9. RowsOfNodes'
      BY <1>1, <2>1, <3>4 DEF RowsOfNodes
    <3> QED
      BY <2>2, <3>8, <3>9 DEF AdminTyped
  <2> QED
    BY <2>3, <2>4
<1>12. CASE AdminFails
  <2>1. TypeOK' /\ RowsOfNodes'
    BY <1>1, <1>12, SameTyped DEF AdminFails
  <2>2. a' \in Admins
    BY <1>1, <1>12 DEF AdminFails
  <2> QED
    BY <2>1, <2>2 DEF AdminTyped
<1> QED
  BY <1>5, <1>6, <1>7, <1>8, <1>9, <1>10, <1>11, <1>12 DEF AdminStep

\* sing-box is gone: the tables stay.
LEMMA BoxDownTyped ==
    ASSUME TypeOK, RowsOfNodes, UNCHANGED <<db, asked, given>>,
           running' = FALSE, tags' = {},
           sel' = [p \in Ports |-> NoNode], laneSel' = [p \in Ports |-> NoLanes]
    PROVE  TypeOK' /\ RowsOfNodes'
<1>1. sel' \in [Ports -> Nat] /\ laneSel' \in [Ports -> [Lanes -> Nat]]
  BY DEF NoNode, NoLanes
<1> QED
  BY <1>1 DEF TypeOK, RowsOfNodes, IsTable, db

\* A start over stored nodes, with newly listed ports in it perhaps.
LEMMA RestartTyped ==
    ASSUME Typed, Restart
    PROVE  /\ TypeOK' /\ RowsOfNodes' /\ CallersTyped'
           /\ h'.calm = FALSE /\ r'.pc \in {"read", "build"} /\ (r'.pc = "build" => ~ r'.calm)
<1>1. PICK fresh \in SUBSET (Ports \ {Default}) :
        /\ row' = [p \in Ports |-> IF p \in fresh THEN row[Default] ELSE row[p]]
        /\ portNode' = [p \in Ports |-> IF p \in fresh THEN NoRows ELSE portNode[p]]
        /\ lanes' = [p \in Ports |-> IF p \in fresh THEN NoLanes ELSE lanes[p]]
        /\ laned' = laned \ fresh
        /\ asked' = [p \in Ports |-> IF p \in fresh THEN {} ELSE asked[p]]
        /\ r' \in {Begun("boot", [p \in Ports |-> IF p \in fresh THEN row[Default] ELSE row[p]]),
                  [IdleRefresh EXCEPT !.pc = "build", !.kind = "stored"]}
  BY DEF Restart, Relisted
<1> DEFINE rows == [p \in Ports |-> IF p \in fresh THEN row[Default] ELSE row[p]]
           stored == [IdleRefresh EXCEPT !.pc = "build", !.kind = "stored"]
<1>2. /\ UNCHANGED <<nodes, nextId, status, given>>
      /\ running' = FALSE /\ tags' = {}
      /\ sel' = [p \in Ports |-> NoNode] /\ laneSel' = [p \in Ports |-> NoLanes]
  BY DEF Restart, Relisted
<1>3. row' \in [Ports -> Row] /\ asked' \in [Ports -> SUBSET Keys] /\ laned' \subseteq Ports
  BY <1>1, PortsAssumption DEF Typed, TypeOK
<1>4. lanes' \in [Ports -> [Lanes -> Nat]]
  BY <1>1 DEF Typed, TypeOK, NoLanes, NoNode
<1>5. /\ portNode' = [p \in Ports |-> portNode'[p]]
      /\ \A p \in Ports : IsTable(portNode'[p], BOOLEAN)
  <2>1. IsTable(NoRows, BOOLEAN)
    BY DEF NoRows, IsTable
  <2>2. \A p \in Ports : portNode'[p] \in {portNode[p], NoRows}
    BY <1>1 
  <2> QED
    BY <1>1, <2>1, <2>2 DEF Typed, TypeOK
<1>6. sel' \in [Ports -> Nat] /\ laneSel' \in [Ports -> [Lanes -> Nat]]
  BY <1>2 DEF NoNode, NoLanes
<1>7. TypeOK' /\ RowsOfNodes'
  BY <1>2, <1>3, <1>4, <1>5, <1>6 DEF Typed, TypeOK, RowsOfNodes, IsTable
<1>8. IdleRefresh \in Refreshes /\ IdleRefresh.calm = FALSE /\ IdleAdmin \in Admins
  BY IdleTyped
<1>9. Begun("boot", rows) \in Refreshes /\ Begun("boot", rows).pc = "read"
  <2>1. rows \in [Ports -> Row]
    BY <1>1, <1>3
  <2> QED
    BY <2>1, BegunTyped DEF Typed, TypeOK
<1>10. stored \in Refreshes /\ stored.pc = "build" /\ stored.calm = FALSE
  BY <1>8 DEF Refreshes
<1>11. r' \in {Begun("boot", rows), stored} /\ h' = IdleHealth /\ a' = IdleAdmin
  BY <1>1 DEF Restart, Relisted
<1> HIDE DEF stored, rows
<1>12. /\ r' \in Refreshes /\ r'.pc \in {"read", "build"} /\ (r'.pc = "build" => ~ r'.calm)
       /\ a' \in Admins
  BY <1>8, <1>9, <1>10, <1>11
<1>13. HealthTyped' /\ h'.calm = FALSE
  BY <1>11, IdleHealthTyped
<1> QED
  BY <1>7, <1>12, <1>13 DEF CallersTyped, RefreshTyped, AdminTyped

LEMMA RefreshStepTyped ==
    ASSUME Typed, RefreshStep
    PROVE  TypeOK' /\ RowsOfNodes' /\ RefreshTyped'
BY RefreshOnlyTyped, ReplaceTyped, RefreshWritesTyped DEF RefreshStep

LEMMA StepTyped ==
    ASSUME Typed, [Next]_vars
    PROVE  Typed'
<1>1. TypeOK /\ RowsOfNodes /\ RefreshTyped /\ HealthTyped /\ AdminTyped
  BY DEF Typed, CallersTyped
<1>2. CASE RefreshStep /\ a' = a /\ h' = Noticed(h)
  <2>1. TypeOK' /\ RowsOfNodes' /\ RefreshTyped'
    BY <1>2, RefreshStepTyped
  <2>2. HealthTyped' /\ AdminTyped'
    BY <1>1, <1>2, NoticedHealth DEF AdminTyped
  <2> QED
    BY <2>1, <2>2 DEF Typed, CallersTyped
<1>3. CASE HealthStep /\ a' = a /\ r' = Noticed(r)
  <2>1. TypeOK' /\ RowsOfNodes' /\ HealthTyped'
    BY <1>3, HealthStepTyped
  <2>2. RefreshTyped' /\ AdminTyped'
    BY <1>1, <1>3, NoticedRefresh DEF AdminTyped
  <2> QED
    BY <2>1, <2>2 DEF Typed, CallersTyped
<1>4. CASE AdminStep /\ r' = Noticed(r) /\ h' = Noticed(h)
  BY <1>1, <1>4, AdminStepTyped, NoticedRefresh, NoticedHealth DEF Typed, CallersTyped
<1>5. CASE SingBoxExits /\ a' = a /\ r' = Noticed(r) /\ h' = Noticed(h)
  <2>1. TypeOK' /\ RowsOfNodes'
    BY <1>1, <1>5, BoxDownTyped DEF SingBoxExits
  <2>2. RefreshTyped' /\ HealthTyped' /\ AdminTyped'
    BY <1>1, <1>5, NoticedRefresh, NoticedHealth DEF AdminTyped
  <2> QED
    BY <2>1, <2>2 DEF Typed, CallersTyped
<1>6. CASE Restart
  BY <1>6, RestartTyped DEF Typed
<1>7. CASE UNCHANGED vars
  <2>1. UNCHANGED <<db, box, r, h, a, asked, given>>
    BY <1>7 DEF vars
  <2>2. TypeOK' /\ RowsOfNodes'
    BY <1>1, <2>1, SameTyped
  <2>3. RefreshTyped' /\ HealthTyped' /\ AdminTyped'
    BY <1>1, <2>1 DEF RefreshTyped, HealthTyped, AdminTyped, IsTable
  <2> QED
    BY <2>2, <2>3 DEF Typed, CallersTyped
<1> QED
  BY <1>2, <1>3, <1>4, <1>5, <1>6, <1>7 DEF Next

-----------------------------------------------------------------------------
(* The tables, from row to row                                               *)

LEMMA LeftStep ==
    ASSUME LeftTyped, [Next]_vars
    PROVE  LeftTyped'
<1> DEFINE Left == [refresh : Nat, health : Nat, admin : Nat, restart : Nat]
<1>1. /\ left.refresh > 0 => [left EXCEPT !.refresh = @ - 1] \in Left
      /\ left.health > 0 => [left EXCEPT !.health = @ - 1] \in Left
      /\ left.admin > 0 => [left EXCEPT !.admin = @ - 1] \in Left
      /\ left.restart > 0 => [left EXCEPT !.restart = @ - 1] \in Left
  BY DEF LeftTyped
<1>2. RefreshStep => left' = left \/ (left.refresh > 0 /\ left' = [left EXCEPT !.refresh = @ - 1])
  BY DEF RefreshStep, RefreshBegin, RefreshReadPort, RefreshFetchFails, RefreshReplaceNodes,
     RefreshPortRow, RefreshDisables, RefreshLanes, RefreshFails, ApplyCheck, ApplyStop, ApplyStart,
     ApplyStartFails, RefreshLanesRead, RefreshLanesWrite, RefreshReturn
<1>3. HealthStep => left' = left \/ (left.health > 0 /\ left' = [left EXCEPT !.health = @ - 1])
  BY DEF HealthStep, HealthBegin, HealthProbe, HealthReadPort, HealthLanesRead, HealthSwitch,
     HealthWriteRow, HealthWriteFails, HealthLanesWrite, HealthLanesFail, HealthReturn
<1>4. AdminStep => left' = left \/ (left.admin > 0 /\ left' = [left EXCEPT !.admin = @ - 1])
  BY DEF AdminStep, SwitchCheck, DisableCheck, UnlockCheck, Request, SwitchSelector,
     AdminReadRow, AdminWriteRow, DisableCommit, AdminFails
<1>5. SingBoxExits \/ UNCHANGED vars => left' = left
  BY DEF SingBoxExits, vars
<1>6. Restart => left.restart > 0 /\ left' = [left EXCEPT !.restart = @ - 1]
  BY DEF Restart, Relisted
<1> QED
  BY <1>1, <1>2, <1>3, <1>4, <1>5, <1>6 DEF Next, LeftTyped

\* The steps that write into the statuses or the ports' rows of the nodes.
LEMMA WhoWritesFlags ==
    ASSUME [Next]_vars
    PROVE  \/ (\E list \in Lists : RefreshReplaceNodes(list)) \/ Restart
           \/ RefreshDisables \/ (\E up \in BOOLEAN : HealthProbe(up)) \/ DisableCommit
           \/ UNCHANGED <<nodes, status, portNode>>
<1>1. RefreshStep => \/ (\E list \in Lists : RefreshReplaceNodes(list)) \/ RefreshDisables
                     \/ UNCHANGED <<nodes, status, portNode>>
  BY DEF RefreshStep, RefreshBegin, RefreshReadPort, RefreshFetchFails, RefreshPortRow,
     RefreshLanes, RefreshFails, ApplyCheck, ApplyStop, ApplyStart,
     ApplyStartFails, RefreshLanesRead, RefreshLanesWrite, RefreshReturn, db
<1>2. HealthStep => (\E up \in BOOLEAN : HealthProbe(up)) \/ UNCHANGED <<nodes, status, portNode>>
  BY DEF HealthStep, HealthBegin, HealthReadPort, HealthLanesRead, HealthSwitch, HealthWriteRow,
     HealthWriteFails, HealthLanesWrite, HealthLanesFail, HealthReturn, db
<1>3. AdminStep => DisableCommit \/ UNCHANGED <<nodes, status, portNode>>
  BY DEF AdminStep, SwitchCheck, DisableCheck, UnlockCheck, Request, SwitchSelector,
     AdminReadRow, AdminWriteRow, AdminFails, db
<1>4. SingBoxExits \/ UNCHANGED vars => UNCHANGED <<nodes, status, portNode>>
  BY DEF SingBoxExits, vars, db
<1> QED
  BY <1>1, <1>2, <1>3, <1>4 DEF Next

\* What the three of them that are not about all rows write.
LEMMA DisablesWrite ==
    ASSUME Typed, RefreshDisables
    PROVE  \E done \in SUBSET DOMAIN nodes :
              /\ portNode' = [portNode EXCEPT ![r.port] =
                    [n \in DOMAIN portNode[r.port] \cup done |-> n \in done \/ portNode[r.port][n]]]
              /\ status' = [n \in DOMAIN status |->
                    [status[n] EXCEPT !.disabled = @ \/ (r.port = Default /\ n \in done)]]
              /\ nodes' = nodes
<1> DEFINE all == {IdOf(key) : key \in r.want[r.port].off} \ {NoNode}
<1>1. PICK done \in SUBSET all :
        /\ portNode' = [portNode EXCEPT ![r.port] =
              [n \in DOMAIN portNode[r.port] \cup done |-> n \in done \/ portNode[r.port][n]]]
        /\ status' = [n \in DOMAIN status |->
              [status[n] EXCEPT !.disabled = @ \/ (r.port = Default /\ n \in done)]]
  BY DEF RefreshDisables
<1>2. all \subseteq DOMAIN nodes
  BY IdOfIs DEF Typed, TypeOK
<1>3. nodes' = nodes
  BY DEF RefreshDisables
<1> QED
  BY <1>1, <1>2, <1>3

LEMMA MirrorStep ==
    ASSUME Typed, DefaultMirrored, [Next]_vars
    PROVE  DefaultMirrored'
<1>1. /\ DOMAIN portNode = Ports /\ Default \in Ports
      /\ IsTable(status, NodeRow) /\ DOMAIN nodes \subseteq DOMAIN status
      /\ DOMAIN portNode[Default] = DOMAIN status
      /\ \A n \in DOMAIN status : portNode[Default][n] = status[n].disabled
      /\ r.port \in Ports /\ a.port \in Ports
  BY PortsAssumption DEF Typed, TypeOK, RowsOfNodes, DefaultMirrored, CallersTyped, RefreshTyped,
     Refreshes, AdminTyped, Admins
<1>2. ASSUME NEW list \in Lists, RefreshReplaceNodes(list) PROVE DefaultMirrored'
  <2> DEFINE new == NewIds(list)
  <2>1. /\ status' = [n \in (DOMAIN status \ DOMAIN nodes) \cup new |->
                      IF n \in new THEN [state |-> "active", disabled |-> FALSE] ELSE status[n]]
        /\ portNode'[Default] = [n \in (DOMAIN portNode[Default] \ DOMAIN nodes) \cup new |->
                                    IF n \in new THEN FALSE ELSE portNode[Default][n]]
    BY <1>1, <1>2 DEF RefreshReplaceNodes
  <2> HIDE DEF new
  <2> QED
    BY <1>1, <2>1 DEF DefaultMirrored
<1>3. CASE Restart
  <2>1. status' = status /\ portNode'[Default] = portNode[Default]
    BY <1>1, <1>3 DEF Restart, Relisted
  <2> QED
    BY <1>1, <2>1 DEF DefaultMirrored
<1>4. CASE RefreshDisables
  <2>1. PICK done \in SUBSET DOMAIN nodes :
          /\ portNode' = [portNode EXCEPT ![r.port] =
                [n \in DOMAIN portNode[r.port] \cup done |-> n \in done \/ portNode[r.port][n]]]
          /\ status' = [n \in DOMAIN status |->
                [status[n] EXCEPT !.disabled = @ \/ (r.port = Default /\ n \in done)]]
    BY <1>4, DisablesWrite
  <2>2. DOMAIN status' = DOMAIN status
    BY <2>1
  <2>3. \A n \in DOMAIN status :
           status'[n].disabled = (status[n].disabled \/ (r.port = Default /\ n \in done))
    BY <1>1, <2>1 DEF IsTable, NodeRow
  <2>4. CASE r.port = Default
    <3>1. portNode'[Default] = [n \in DOMAIN status \cup done |-> n \in done \/ portNode[Default][n]]
      BY <1>1, <2>1, <2>4
    <3>2. DOMAIN status \cup done = DOMAIN status
      BY <1>1
    <3>3. \A n \in DOMAIN status : portNode[Default][n] \in BOOLEAN
      BY <1>1 DEF IsTable, NodeRow
    <3> QED
      BY <1>1, <2>2, <2>3, <2>4, <3>1, <3>2, <3>3 DEF DefaultMirrored
  <2>5. CASE r.port # Default
    <3>1. portNode'[Default] = portNode[Default]
      BY <1>1, <2>1, <2>5
    <3>2. \A n \in DOMAIN status : status'[n].disabled = status[n].disabled
      <4>1. \A n \in DOMAIN status : status[n].disabled \in BOOLEAN
        BY <1>1 DEF IsTable, NodeRow
      <4> QED
        BY <2>3, <2>5, <4>1
    <3> QED
      BY <1>1, <2>2, <3>1, <3>2 DEF DefaultMirrored
  <2> QED
    BY <2>4, <2>5
<1>5. ASSUME NEW up \in BOOLEAN, HealthProbe(up) PROVE DefaultMirrored'
  <2> DEFINE n == Least(h.todo)
             st == [state |-> IF up THEN "active" ELSE "cooldown", disabled |-> h.seen[n].disabled]
  <2>1. \/ UNCHANGED <<status, portNode>>
        \/ /\ status' = Upsert(status, n, st)
           /\ portNode' = [portNode EXCEPT ![Default] = Upsert(@, n, st.disabled)]
    BY <1>5, ProbeIs
  <2> HIDE DEF n, st
  <2>2. CASE UNCHANGED <<status, portNode>>
    BY <1>1, <2>2 DEF DefaultMirrored
  <2>3. CASE /\ status' = Upsert(status, n, st)
             /\ portNode' = [portNode EXCEPT ![Default] = Upsert(@, n, st.disabled)]
    <3>1. portNode'[Default] = Upsert(portNode[Default], n, st.disabled)
      BY <1>1, <2>3
    <3> QED
      BY <1>1, <2>3, <3>1 DEF DefaultMirrored, Upsert
  <2> QED
    BY <2>1, <2>2, <2>3
<1>6. CASE DisableCommit
  <2> DEFINE off == a.op = "disable"
             n == a.node
  <2>1. \/ UNCHANGED <<status, portNode>>
        \/ /\ portNode' = [portNode EXCEPT ![a.port] = Upsert(@, n, off)]
           /\ status' = IF a.port = Default THEN [status EXCEPT ![n].disabled = off] ELSE status
           /\ a.port = Default => n \in DOMAIN status
    BY <1>6 DEF DisableCommit
  <2> HIDE DEF off, n
  <2>2. CASE UNCHANGED <<status, portNode>>
    BY <1>1, <2>2 DEF DefaultMirrored
  <2>3. CASE /\ portNode' = [portNode EXCEPT ![a.port] = Upsert(@, n, off)]
             /\ status' = status /\ a.port # Default
    <3>1. portNode'[Default] = portNode[Default]
      BY <1>1, <2>3
    <3> QED
      BY <1>1, <2>3, <3>1 DEF DefaultMirrored
  <2>4. CASE /\ portNode' = [portNode EXCEPT ![Default] = Upsert(@, n, off)]
             /\ status' = [status EXCEPT ![n].disabled = off] /\ n \in DOMAIN status
    <3>1. portNode'[Default] = Upsert(portNode[Default], n, off)
      BY <1>1, <2>4
    <3>2. /\ DOMAIN status' = DOMAIN status /\ status'[n].disabled = off
          /\ \A m \in DOMAIN status \ {n} : status'[m] = status[m]
      BY <1>1, <2>4 DEF IsTable, NodeRow
    <3> QED
      BY <1>1, <2>4, <3>1, <3>2 DEF DefaultMirrored, Upsert
  <2> QED
    BY <2>1, <2>2, <2>3, <2>4
<1>7. CASE UNCHANGED <<nodes, status, portNode>>
  BY <1>1, <1>7 DEF DefaultMirrored
<1> QED
  BY <1>2, <1>3, <1>4, <1>5, <1>6, <1>7, WhoWritesFlags

\* Only a refresh and a start take rows away.
LEMMA RowsOnlyGrow ==
    ASSUME Typed, [Next]_vars, ~ Restart, \A list \in Lists : ~ RefreshReplaceNodes(list)
    PROVE  /\ nodes' = nodes
           /\ \A p \in Ports : DOMAIN portNode[p] \subseteq DOMAIN portNode'[p]
<1>1. DOMAIN portNode = Ports
  BY DEF Typed, TypeOK
<1>2. CASE RefreshDisables
  <2>1. PICK done \in SUBSET DOMAIN nodes :
          /\ portNode' = [portNode EXCEPT ![r.port] =
                [n \in DOMAIN portNode[r.port] \cup done |-> n \in done \/ portNode[r.port][n]]]
          /\ nodes' = nodes
    BY <1>2, DisablesWrite
  <2>2. ASSUME NEW p \in Ports PROVE DOMAIN portNode[p] \subseteq DOMAIN portNode'[p]
    <3>1. p # r.port => portNode'[p] = portNode[p]
      BY <1>1, <2>1
    <3>2. p = r.port => portNode'[p] =
             [n \in DOMAIN portNode[p] \cup done |-> n \in done \/ portNode[p][n]]
      BY <1>1, <2>1
    <3> QED
      BY <3>1, <3>2
  <2> QED
    BY <2>1, <2>2
<1>3. ASSUME NEW q, NEW n, NEW off, portNode' = [portNode EXCEPT ![q] = Upsert(@, n, off)]
      PROVE  \A p \in Ports : DOMAIN portNode[p] \subseteq DOMAIN portNode'[p]
  <2>1. ASSUME NEW p \in Ports PROVE DOMAIN portNode[p] \subseteq DOMAIN portNode'[p]
    <3>1. p # q => portNode'[p] = portNode[p]
      BY <1>1, <1>3
    <3>2. p = q => portNode'[p] = Upsert(portNode[p], n, off)
      BY <1>1, <1>3
    <3> QED
      BY <3>1, <3>2 DEF Upsert
  <2> QED
    BY <2>1
<1>4. CASE \E up \in BOOLEAN : HealthProbe(up)
  <2>1. PICK up \in BOOLEAN : HealthProbe(up)
    BY <1>4
  <2>2. \/ UNCHANGED portNode
        \/ portNode' = [portNode EXCEPT ![Default] =
                           Upsert(@, Least(h.todo), h.seen[Least(h.todo)].disabled)]
    BY <2>1, ProbeIs
  <2>3. nodes' = nodes
    BY <2>1 DEF HealthProbe
  <2> QED
    BY <1>3, <2>2, <2>3
<1>5. CASE DisableCommit
  <2>1. \/ UNCHANGED portNode
        \/ portNode' = [portNode EXCEPT ![a.port] = Upsert(@, a.node, a.op = "disable")]
    BY <1>5 DEF DisableCommit
  <2>2. nodes' = nodes
    BY <1>5 DEF DisableCommit
  <2>3. CASE UNCHANGED portNode
    BY <2>2, <2>3
  <2>4. CASE portNode' = [portNode EXCEPT ![a.port] = Upsert(@, a.node, a.op = "disable")]
    BY <1>3, <2>2, <2>4
  <2> QED
    BY <2>1, <2>3, <2>4
<1> QED
  BY <1>2, <1>4, <1>5, WhoWritesFlags

\* Ids are given out by the transaction that replaces the nodes, and only there.
LEMMA WhoGivesIds ==
    ASSUME [Next]_vars, \A list \in Lists : ~ RefreshReplaceNodes(list)
    PROVE  UNCHANGED <<nodes, nextId, given>>
<1>1. RefreshStep => UNCHANGED <<nodes, nextId, given>>
  BY DEF RefreshStep, RefreshBegin, RefreshReadPort, RefreshFetchFails, RefreshPortRow,
     RefreshDisables, RefreshLanes, RefreshFails, ApplyCheck, ApplyStop, ApplyStart,
     ApplyStartFails, RefreshLanesRead, RefreshLanesWrite, RefreshReturn, db
<1>2. HealthStep => UNCHANGED <<nodes, nextId, given>>
  BY DEF HealthStep, HealthBegin, HealthProbe, HealthReadPort, HealthLanesRead, HealthSwitch,
     HealthWriteRow, HealthWriteFails, HealthLanesWrite, HealthLanesFail, HealthReturn, db
<1>3. AdminStep => UNCHANGED <<nodes, nextId, given>>
  BY DEF AdminStep, SwitchCheck, DisableCheck, UnlockCheck, Request, SwitchSelector,
     AdminReadRow, AdminWriteRow, DisableCommit, AdminFails, db
<1>4. SingBoxExits \/ UNCHANGED vars => UNCHANGED <<nodes, nextId, given>>
  BY DEF SingBoxExits, vars, db
<1>5. Restart => UNCHANGED <<nodes, nextId, given>>
  BY DEF Restart
<1> QED
  BY <1>1, <1>2, <1>3, <1>4, <1>5 DEF Next

LEMMA GivenStep ==
    ASSUME Typed, IdsGiven, [Next]_vars
    PROVE  IdsGiven'
<1>1. ASSUME NEW list \in Lists, RefreshReplaceNodes(list) PROVE IdsGiven'
  <2> DEFINE new == DOMAIN nodes'
  <2>1. given' = given \cup {<<n, nodes'[n]>> : n \in new}
    BY <1>1, ReplacedNodes DEF RefreshReplaceNodes
  <2>2. \A n \in new : n \in Nat /\ nextId <= n /\ n < nextId'
    BY <1>1, ReplacedNodes DEF Ids
  <2>3. nextId \in Nat /\ nextId' \in Nat /\ nextId <= nextId'
    <3>1. nextId \in new
      BY <1>1, ReplacedNodes
    <3>2. nextId \in Nat /\ nextId' \in Nat
      BY <1>1, ReplacedNodes DEF Typed, TypeOK, Ids
    <3>3. nextId < nextId'
      BY <2>2, <3>1
    <3> QED
      BY <3>2, <3>3
  <2>4. \A x \in given : x[1] \in Nat /\ x[1] < nextId
    BY DEF IdsGiven, Typed, TypeOK, Ids
  <2> HIDE DEF new
  <2>5. \A x \in given' : x \in given \/ (x[1] \in new /\ x[2] = nodes'[x[1]])
    BY <2>1
  <2>6. \A x, y \in given' : x[1] = y[1] => x[2] = y[2]
    <3> SUFFICES ASSUME NEW x \in given', NEW y \in given', x[1] = y[1] PROVE x[2] = y[2]
      OBVIOUS
    <3>1. CASE x \in given
      <4>1. y[1] \notin new
        BY <2>2, <2>3, <2>4, <3>1
      <4> QED
        BY <2>5, <3>1, <4>1 DEF IdsGiven, IdsNameOneKey
    <3>2. CASE x \notin given
      <4>1. x[1] \in new /\ x[2] = nodes'[x[1]]
        BY <2>5, <3>2
      <4>2. y \notin given
        BY <2>2, <2>3, <2>4, <4>1
      <4> QED
        BY <2>5, <4>1, <4>2
    <3> QED
      BY <3>1, <3>2
  <2>7. \A n \in new : <<n, nodes'[n]>> \in given'
    BY <2>1
  <2>8. \A x \in given' : x[1] < nextId'
    BY <2>2, <2>3, <2>4, <2>5
  <2> QED
    BY <2>6, <2>7, <2>8 DEF IdsGiven, IdsNameOneKey, new
<1>2. CASE \A list \in Lists : ~ RefreshReplaceNodes(list)
  BY <1>2, WhoGivesIds DEF IdsGiven, IdsNameOneKey
<1> QED
  BY <1>1, <1>2

\* A refresh that has renewed the rows has replaced the nodes.
LEMMA RenewedStep ==
    ASSUME Typed, RowsRenewed, [Next]_vars
    PROVE  RowsRenewed'
<1>1. r \in Refreshes /\ GivenUp.pc \in {"idle", "down"} /\ IdleRefresh.pc = "idle"
  BY IdleTyped DEF Typed, CallersTyped, RefreshTyped
<1>2. ASSUME NEW list \in Lists, RefreshReplaceNodes(list) PROVE RowsRenewed'
  BY <1>2, ReplacedNodes DEF RowsRenewed
<1>3. CASE Restart
  <2>1. r'.pc \in {"read", "build"} /\ (r'.pc = "build" => ~ r'.calm)
    BY <1>3, RestartTyped
  <2> QED
    BY <2>1 DEF RowsRenewed, Renewed, Carrying, Reloaded
<1>4. ASSUME ~ Restart, \A list \in Lists : ~ RefreshReplaceNodes(list), Renewed' => Renewed
      PROVE  RowsRenewed'
  BY <1>4, RowsOnlyGrow DEF RowsRenewed
<1>5. ASSUME RefreshStep, \A list \in Lists : ~ RefreshReplaceNodes(list), Renewed'
      PROVE  Renewed
  <2>1. Begun("api", row).pc = "read"
    BY BegunTyped DEF Typed, TypeOK
  <2>2. r'.pc \in Carrying \cup Reloaded
    BY <1>5 DEF Renewed, Carrying
  <2>3. r' # GivenUp /\ r' # IdleRefresh /\ r' # Begun("api", row)
    BY <1>1, <2>1, <2>2 DEF Carrying, Reloaded
  <2>4. /\ r'.pc \in {"row", "disable", "lanes"} => r.pc \in {"row", "disable", "lanes"}
        /\ r'.calm = r.calm /\ r.pc \in Carrying \cup Reloaded
    <3>1. \A p \in Ports : ~ RefreshReadPort(p)
      BY <1>1, <2>2 DEF RefreshReadPort, Carrying, Reloaded, Refreshes
    <3>2. ~ (RefreshBegin \/ RefreshFetchFails \/ RefreshFails \/ ApplyStartFails \/ RefreshReturn)
      BY <2>3 DEF RefreshBegin, RefreshFetchFails, RefreshFails, ApplyStartFails, RefreshReturn
    <3>3. CASE \E p \in Ports : RefreshPortRow(p) \/ RefreshLanesRead(p)
      BY <1>1, <3>3 DEF RefreshPortRow, RefreshLanesRead, Refreshes, Carrying, Reloaded
    <3>4. CASE RefreshDisables \/ ApplyCheck \/ ApplyStop \/ ApplyStart \/ RefreshLanesWrite
      BY <1>1, <2>3, <3>4 DEF RefreshDisables, ApplyCheck, ApplyStop, ApplyStart,
         RefreshLanesWrite, Refreshes, Carrying, Reloaded
    <3>5. CASE RefreshLanes
      <4>1. r.pc = "lanes" /\ r'.calm = r.calm
        BY <1>1, <2>3, <3>5 DEF RefreshLanes, Refreshes
      <4> QED
        BY <4>1 DEF Carrying
    <3> QED
      BY <1>5, <3>1, <3>2, <3>3, <3>4, <3>5 DEF RefreshStep
  <2> QED
    BY <1>5, <2>4 DEF Renewed
<1>6. r' = Noticed(r) => (Renewed' => Renewed)
  BY NoticedRefresh DEF Renewed, Typed, CallersTyped
<1>7. UNCHANGED vars => (Renewed' => Renewed)
  BY DEF vars, Renewed
<1> QED
  BY <1>2, <1>3, <1>4, <1>5, <1>6, <1>7 DEF Next

\* Ports get lane rows with their lanes, and lose them only in a start.
LEMMA ListedStep ==
    ASSUME Typed, LanesListed, [Next]_vars
    PROVE  LanesListed'
<1> DEFINE Midway == {"row", "disable", "lanes"}
<1>1. /\ r \in Refreshes /\ GivenUp.pc \in {"idle", "down"} /\ IdleRefresh.pc = "idle"
      /\ \A p \in Ports : ~ IdleRefresh.want[p].laned /\ ~ GivenUp.want[p].laned
  <2>1. \A p \in Ports : ~ IdleRefresh.want[p].laned
    BY DEF IdleRefresh
  <2>2. \A p \in Ports : ~ GivenUp.want[p].laned
    BY DEF IdleRefresh, GivenUp
  <2> QED
    BY <2>1, <2>2, IdleTyped DEF Typed, CallersTyped, RefreshTyped
<1>2. ASSUME UNCHANGED <<lanes, laned>>, r'.want = r.want, r'.calm => r.calm,
             r'.calm /\ r'.pc = "read" => r.pc = "read" /\ r'.todo = r.todo,
             r'.calm /\ r'.pc \in Midway => r.pc \in Midway \/ (r.pc = "read" /\ r.todo = {})
      PROVE  LanesListed'
  BY <1>2 DEF LanesListed, LanesRead
<1>3. ASSUME UNCHANGED <<lanes, laned>>, \A p \in Ports : ~ r'.want[p].laned,
             r'.pc = "read" => r'.todo = Ports, r'.pc \notin Midway
      PROVE  LanesListed'
  BY <1>3 DEF LanesListed
<1>4. ASSUME NEW p \in Ports, NEW assigned, PutLanes(p, assigned), r'.want = r.want,
             ~ r'.calm \/ r'.pc \notin Midway \cup {"read"}
      PROVE  LanesListed'
  <2>1. laned' = laned \cup {p} /\ \A q \in Ports \ {p} : lanes'[q] = lanes[q]
    BY <1>4 DEF PutLanes, Typed, TypeOK
  <2> QED
    BY <1>4, <2>1 DEF LanesListed
<1>5. CASE r' = Noticed(r) /\ (HealthStep \/ AdminStep \/ SingBoxExits)
  <2>1. /\ r'.pc = r.pc /\ r'.todo = r.todo /\ r'.want = r.want
        /\ r'.calm => r.calm /\ UNCHANGED <<db, box>>
    BY <1>5, NoticedRefresh DEF Typed, CallersTyped
  <2>2. CASE UNCHANGED <<lanes, laned>>
    BY <1>2, <2>1, <2>2
  <2>3. CASE ~ UNCHANGED <<lanes, laned>>
    <3>1. ~ r'.calm
      BY <2>1, <2>3 DEF db
    <3>2. HealthLanesWrite
      BY <1>5, <2>3 DEF HealthStep, AdminStep, SingBoxExits, HealthBegin, HealthProbe,
         HealthReadPort, HealthLanesRead, HealthSwitch, HealthWriteRow, HealthWriteFails,
         HealthLanesFail, HealthReturn, SwitchCheck, DisableCheck, UnlockCheck, Request,
         SwitchSelector, AdminReadRow, AdminWriteRow, DisableCommit, AdminFails, db
    <3>3. h.port \in Ports /\ PutLanes(h.port, h.lanes)
      BY <3>2 DEF HealthLanesWrite, Typed, CallersTyped, HealthTyped
    <3> QED
      BY <1>4, <2>1, <3>1, <3>3
  <2> QED
    BY <2>2, <2>3
<1>6. CASE UNCHANGED vars
  BY <1>2, <1>6 DEF vars, db
<1>7. CASE Restart
  <2>1. PICK fresh \in SUBSET (Ports \ {Default}) :
          /\ lanes' = [p \in Ports |-> IF p \in fresh THEN NoLanes ELSE lanes[p]]
          /\ laned' = laned \ fresh
          /\ r' \in {Begun("boot", Relisted(row, fresh, row[Default])),
                    [IdleRefresh EXCEPT !.pc = "build", !.kind = "stored"]}
    <3> HIDE DEF Midway
    <3> QED
      BY <1>7 DEF Restart, Relisted
  <2>2. \A p \in Ports \ laned' : lanes'[p] = NoLanes
    BY <2>1 DEF LanesListed
  <2>3. CASE r' = [IdleRefresh EXCEPT !.pc = "build", !.kind = "stored"]
    <3>1. r'.pc = "build" /\ r'.want = IdleRefresh.want
      BY <2>3, IdleTyped DEF Refreshes
    <3> QED
      BY <1>1, <2>2, <3>1 DEF LanesListed
  <2>4. CASE r' = Begun("boot", Relisted(row, fresh, row[Default]))
    <3>1. r'.pc = "read" /\ r'.todo = Ports /\ \A p \in Ports : ~ r'.want[p].laned
      BY <2>4 DEF Begun, IdleRefresh
    <3> QED
      BY <2>2, <3>1 DEF LanesListed
  <2> QED
    BY <2>1, <2>3, <2>4
<1>8. CASE RefreshBegin
  <2>1. /\ r' = Begun("api", row) /\ UNCHANGED <<lanes, laned>>
    BY <1>8 DEF RefreshBegin, db
  <2>2. r'.pc = "read" /\ r'.todo = Ports /\ \A p \in Ports : ~ r'.want[p].laned
    BY <2>1 DEF Begun, IdleRefresh
  <2> QED
    BY <1>3, <2>1, <2>2
<1>9. CASE r' \in {GivenUp, IdleRefresh} /\ UNCHANGED <<lanes, laned>>
  BY <1>1, <1>3, <1>9
<1>10. CASE RefreshFetchFails \/ RefreshFails \/ ApplyStartFails \/ RefreshReturn
  BY <1>9, <1>10 DEF RefreshFetchFails, RefreshFails, ApplyStartFails, RefreshReturn, db
<1>11. ASSUME NEW p \in Ports, RefreshReadPort(p) PROVE LanesListed'
  <2> DEFINE off == KeysOf(DisabledIn(p))
             keys == [l \in Lanes |-> KeyOf(lanes[p][l])]
             known == p \in laned
  <2>1. /\ r' = [r EXCEPT !.todo = @ \ {p}, !.want[p].off = off, !.want[p].laned = known,
                          !.want[p].lanes = keys]
        /\ r.pc = "read" /\ UNCHANGED <<lanes, laned>>
    BY <1>11 DEF RefreshReadPort, db
  <2> HIDE DEF off, keys, known
  <2>2. /\ r'.pc = "read" /\ r'.calm = r.calm /\ r'.todo = r.todo \ {p}
        /\ r'.want[p].laned = known /\ r'.want[p].lanes = keys
        /\ \A q \in Ports \ {p} : r'.want[q] = r.want[q]
    BY <1>1, <2>1 DEF Refreshes, Wants
  <2>3. p \notin laned => lanes[p] = NoLanes /\ \A l \in Lanes : keys[l] = NoKey
    <3>1. NoNode \notin DOMAIN nodes
      BY DEF Typed, TypeOK, IsTable, Ids, NoNode
    <3> QED
      BY <3>1 DEF LanesListed, keys, KeyOf, NoLanes
  <2>4. LanesRead(p)'
    BY <2>1, <2>2, <2>3 DEF LanesRead, known
  <2>5. \A q \in Ports \ {p} : LanesRead(q) => LanesRead(q)'
    BY <2>1, <2>2 DEF LanesRead
  <2>6. \A q \in Ports : r'.want[q].laned => q \in laned
    BY <2>2 DEF LanesListed, known
  <2> QED
    BY <2>1, <2>2, <2>4, <2>5, <2>6 DEF LanesListed
<1>12. ASSUME NEW list \in Lists, RefreshReplaceNodes(list) PROVE LanesListed'
  <2>1. /\ r' = [r EXCEPT !.pc = "row", !.todo = Ports] /\ UNCHANGED <<lanes, laned>>
        /\ r.pc = "read" /\ r.todo = {}
    BY <1>12 DEF RefreshReplaceNodes
  <2>2. r'.pc = "row" /\ r'.want = r.want /\ r'.calm = r.calm
    BY <1>1, <2>1 DEF Refreshes
  <2> QED
    BY <1>2, <2>1, <2>2
<1>13. ASSUME NEW p \in Ports, RefreshPortRow(p) \/ RefreshLanesRead(p) PROVE LanesListed'
  <2>1. /\ UNCHANGED <<lanes, laned>> /\ r'.want = r.want /\ r'.calm = r.calm
        /\ \/ r.pc = "row" /\ r'.pc = "disable"
           \/ r'.pc = "lanesWrite"
    BY <1>1, <1>13 DEF RefreshPortRow, RefreshLanesRead, Refreshes, db
  <2> QED
    BY <1>2, <2>1
<1>14. CASE RefreshDisables \/ ApplyCheck \/ ApplyStop \/ ApplyStart
  <2>1. UNCHANGED <<lanes, laned>>
    BY <1>14 DEF RefreshDisables, ApplyCheck, ApplyStop, ApplyStart, db
  <2>2. CASE r' \notin {GivenUp, IdleRefresh}
    <3>1. /\ r'.want = r.want /\ r'.calm = r.calm
          /\ \/ r.pc = "disable" /\ r'.pc = "lanes"
             \/ r'.pc \in {"stop", "start", "lanesRead"}
      BY <1>1, <1>14, <2>2 DEF RefreshDisables, ApplyCheck, ApplyStop, ApplyStart, Refreshes
    <3> QED
      BY <1>2, <2>1, <3>1
  <2> QED
    BY <1>9, <2>1, <2>2
<1>15. CASE RefreshLanes
  <2>1. PICK p \in Ports : p = r.port
    BY <1>1 DEF Refreshes
  <2> DEFINE read == IF r.want[p].laned THEN Lanes ELSE {}
             pc == IF r.todo = {p} THEN "build" ELSE "row"
  <2>2. PICK done \in SUBSET read :
          /\ lanes' = [lanes EXCEPT ![p] =
                [l \in Lanes |-> IF l \in done THEN IdOf(r.want[p].lanes[l]) ELSE lanes[p][l]]]
          /\ r' = IF done # read THEN GivenUp ELSE [r EXCEPT !.pc = pc, !.todo = @ \ {p}]
    BY <1>15, <2>1 DEF RefreshLanes
  <2>3. laned' = laned /\ r.pc = "lanes"
    BY <1>15 DEF RefreshLanes
  <2>4. ~ r.want[p].laned => lanes'[p] = lanes[p]
    <3>1. lanes[p] = [l \in Lanes |-> lanes[p][l]] /\ DOMAIN lanes = Ports
      BY DEF Typed, TypeOK
    <3>2. lanes'[p] = [l \in Lanes |->
                          IF l \in done THEN IdOf(r.want[p].lanes[l]) ELSE lanes[p][l]]
      BY <2>2, <3>1
    <3> QED
      BY <3>1, <3>2
  <2>5. \A q \in Ports \ {p} : lanes'[q] = lanes[q]
    BY <2>2 DEF Typed, TypeOK
  <2>6. \A q \in Ports \ laned' : lanes'[q] = NoLanes
    BY <2>3, <2>4, <2>5 DEF LanesListed
  <2> HIDE DEF read
  <2>7. CASE r' = GivenUp
    BY <1>1, <2>6, <2>7 DEF LanesListed
  <2>8. CASE r' = [r EXCEPT !.pc = pc, !.todo = @ \ {p}]
    <3>1. pc \in {"build", "row"}
      OBVIOUS
    <3>2. r'.want = r.want /\ r'.calm = r.calm /\ r'.pc = pc
      BY <1>1, <2>8 DEF Refreshes
    <3>3. \A q \in Ports : LanesRead(q) => LanesRead(q)'
      BY <2>4, <2>5, <3>2 DEF LanesRead
    <3> QED
      BY <2>3, <2>6, <3>1, <3>2, <3>3 DEF LanesListed
  <2> QED
    BY <2>2, <2>7, <2>8
<1>16. CASE RefreshLanesWrite
  <2>1. /\ PutLanes(r.port, r.lanes) /\ r.port \in Ports /\ r'.want = r.want
        /\ r'.pc \in {"done", "lanesRead"}
    BY <1>1, <1>16 DEF RefreshLanesWrite, Refreshes
  <2> QED
    BY <1>4, <2>1
<1>17. RefreshStep => LanesListed'
  BY <1>8, <1>10, <1>11, <1>12, <1>13, <1>14, <1>15, <1>16 DEF RefreshStep
<1> QED
  BY <1>5, <1>6, <1>7, <1>17 DEF Next

-----------------------------------------------------------------------------
(* What sing-box is started with, and where its selectors point              *)

\* Only a refresh replaces the nodes, and sing-box gets new ones only from it.
LEMMA OthersKeepNodes ==
    ASSUME HealthStep \/ AdminStep \/ SingBoxExits
    PROVE  UNCHANGED <<nodes, nextId>>
BY DEF HealthStep, AdminStep, SingBoxExits, db, HealthBegin, HealthProbe, HealthReadPort,
       HealthLanesRead, HealthSwitch, HealthWriteRow, HealthWriteFails, HealthLanesWrite,
       HealthLanesFail, HealthReturn, SwitchCheck, DisableCheck, UnlockCheck, Request,
       SwitchSelector, AdminReadRow, AdminWriteRow, DisableCommit, AdminFails

LEMMA OthersKeepSelectors ==
    ASSUME TypeOK, SelectorsAreRegistered, HealthStep \/ AdminStep \/ SingBoxExits
    PROVE  SelectorsAreRegistered'
<1>1. CASE HealthSwitch
  <2>1. UNCHANGED <<running, tags, laneSel>>
    BY <1>1 DEF HealthSwitch
  <2>2. sel' = sel \/ (h.next \in tags /\ sel' = [sel EXCEPT ![h.port] = h.next])
    BY <1>1 DEF HealthSwitch, SelectorTakes
  <2> QED
    BY <2>1, <2>2 DEF TypeOK, SelectorsAreRegistered
<1>2. CASE SwitchSelector
  <2>1. UNCHANGED <<running, tags, laneSel>>
    BY <1>2 DEF SwitchSelector
  <2>2. sel' = sel \/ (a.node \in tags /\ sel' = [sel EXCEPT ![a.port] = a.node])
    BY <1>2 DEF SwitchSelector, SelectorTakes
  <2> QED
    BY <2>1, <2>2 DEF TypeOK, SelectorsAreRegistered
<1>3. CASE SingBoxExits
  BY <1>3 DEF SingBoxExits, SelectorsAreRegistered, NoLanes
<1>4. CASE UNCHANGED box
  BY <1>4 DEF box, SelectorsAreRegistered
<1>5. HealthStep \/ AdminStep => HealthSwitch \/ SwitchSelector \/ UNCHANGED box
  BY DEF HealthStep, AdminStep, HealthBegin, HealthProbe, HealthReadPort,
       HealthLanesRead, HealthWriteRow, HealthWriteFails, HealthLanesWrite,
       HealthLanesFail, HealthReturn, SwitchCheck, DisableCheck, UnlockCheck, Request,
       AdminReadRow, AdminWriteRow, DisableCommit, AdminFails
<1> QED
  BY <1>1, <1>2, <1>3, <1>4, <1>5

\* A refresh that goes on to stop and start sing-box has passed the check.
LEMMA RefreshKeepsSelectors ==
    ASSUME Typed, PlanIsRegistered, SelectorsAreRegistered, RefreshStep
    PROVE  PlanIsRegistered' /\ SelectorsAreRegistered'
<1>1. r \in Refreshes /\ GivenUp.pc \in {"idle", "down"} /\ IdleRefresh.pc = "idle"
  BY IdleTyped DEF Typed, CallersTyped, RefreshTyped
<1>2. CASE ApplyCheck
  <2>1. UNCHANGED <<nodes, box>>
    BY <1>2 DEF ApplyCheck, db
  <2>2. CASE PlannedNodes(Plan) \subseteq DOMAIN nodes
    <3>1. r' = [r EXCEPT !.pc = "stop", !.plan = Plan]
      BY <1>2, <2>2 DEF ApplyCheck
    <3>2. r'.plan = Plan
      BY <1>1, <3>1 DEF Refreshes
    <3>3. \A p \in Ports : Plan[p].sel \in DOMAIN nodes
      BY <2>2 DEF PlannedNodes
    <3>4. ASSUME NEW p \in Ports, NEW l \in Lanes
          PROVE  Plan[p].lanes[l] \in DOMAIN nodes \cup {NoNode}
      <4>1. CASE p \in laned
        BY <2>2, <4>1 DEF PlannedNodes
      <4>2. CASE p \notin laned
        BY <4>2 DEF Plan
      <4> QED
        BY <4>1, <4>2
    <3> QED
      BY <2>1, <3>2, <3>3, <3>4 DEF PlanIsRegistered, SelectorsAreRegistered, box
  <2>3. CASE ~ PlannedNodes(Plan) \subseteq DOMAIN nodes
    <3>1. r' = GivenUp
      BY <1>2, <2>3 DEF ApplyCheck
    <3> QED
      BY <1>1, <2>1, <3>1 DEF PlanIsRegistered, SelectorsAreRegistered, box
  <2> QED
    BY <2>2, <2>3
<1>3. CASE ApplyStop
  <2>1. /\ running' = FALSE /\ laneSel' = [p \in Ports |-> NoLanes] /\ nodes' = nodes
        /\ r.pc = "stop" /\ r'.plan = r.plan
    BY <1>1, <1>3 DEF ApplyStop, db, Refreshes
  <2>2. SelectorsAreRegistered'
    BY <2>1 DEF SelectorsAreRegistered, NoLanes
  <2> QED
    BY <2>1, <2>2 DEF PlanIsRegistered
<1>4. CASE ApplyStart
  <2>1. /\ tags' = DOMAIN nodes /\ sel' = [p \in Ports |-> r.plan[p].sel]
        /\ laneSel' = [p \in Ports |-> r.plan[p].lanes] /\ r.pc = "start"
    BY <1>4 DEF ApplyStart
  <2>2. /\ \A p \in Ports : r.plan[p].sel \in DOMAIN nodes
        /\ \A p \in Ports, l \in Lanes : r.plan[p].lanes[l] \in DOMAIN nodes \cup {NoNode}
    BY <2>1 DEF PlanIsRegistered
  <2>3. SelectorsAreRegistered'
    BY <2>1, <2>2 DEF SelectorsAreRegistered
  <2>4. r'.pc \in {"idle", "lanesRead"}
    BY <1>1, <1>4 DEF ApplyStart, Refreshes
  <2> QED
    BY <2>3, <2>4 DEF PlanIsRegistered
<1>5. CASE ~ (ApplyCheck \/ ApplyStop \/ ApplyStart)
  <2>1. UNCHANGED box
    BY <1>5 DEF RefreshStep, RefreshBegin, RefreshReadPort, RefreshFetchFails, RefreshReplaceNodes,
         RefreshPortRow, RefreshDisables, RefreshLanes, RefreshFails, ApplyStartFails,
         RefreshLanesRead, RefreshLanesWrite, RefreshReturn
  <2>2. Begun("api", row).pc = "read"
    BY BegunTyped DEF Typed, TypeOK
  <2>3. r'.pc \notin {"stop", "start"}
    <3>1. CASE \/ RefreshBegin \/ RefreshFetchFails \/ RefreshFails \/ ApplyStartFails
               \/ RefreshReturn
      BY <1>1, <2>2, <3>1 DEF RefreshBegin, RefreshFetchFails, RefreshFails, ApplyStartFails,
           RefreshReturn
    <3>2. CASE \E p \in Ports : RefreshReadPort(p) \/ RefreshPortRow(p) \/ RefreshLanesRead(p)
      BY <1>1, <3>2 DEF RefreshReadPort, RefreshPortRow, RefreshLanesRead, Refreshes
    <3>3. CASE \E list \in Lists : RefreshReplaceNodes(list)
      BY <1>1, <3>3 DEF RefreshReplaceNodes, Refreshes
    <3>4. CASE RefreshDisables \/ RefreshLanes \/ RefreshLanesWrite
      BY <1>1, <3>4 DEF RefreshDisables, RefreshLanes, RefreshLanesWrite, Refreshes
    <3> QED
      BY <1>5, <3>1, <3>2, <3>3, <3>4 DEF RefreshStep
  <2> QED
    BY <2>1, <2>3 DEF PlanIsRegistered, SelectorsAreRegistered, box
<1> QED
  BY <1>2, <1>3, <1>4, <1>5

-----------------------------------------------------------------------------
(* Others take the calm away, or leave everything as it was                  *)

\* What a refresh carries over is in the tables alone.
LEMMA CarriedSame ==
    ASSUME UNCHANGED <<nodes, status, portNode, row, lanes, laned>>, r'.want = r.want
    PROVE  /\ Plan' = Plan
           /\ \A p : Assigned(p)' = Assigned(p)
           /\ \A p : /\ RowKept(p)' <=> RowKept(p)
                     /\ OffKept(p)' <=> OffKept(p)
                     /\ OffFresh(p)' <=> OffFresh(p)
                     /\ LanesKept(p)' <=> LanesKept(p)
                     /\ LanesIn(p, DOMAIN nodes)' <=> LanesIn(p, DOMAIN nodes)
                     /\ LanesIn(p, DOMAIN status)' <=> LanesIn(p, DOMAIN status)
<1>1. Plan' = Plan /\ \A p : Assigned(p)' = Assigned(p)
  BY DEF Plan, Assigned, View
<1>2. ASSUME NEW p
      PROVE  /\ RowKept(p)' <=> RowKept(p)
             /\ OffKept(p)' <=> OffKept(p)
             /\ OffFresh(p)' <=> OffFresh(p)
             /\ LanesKept(p)' <=> LanesKept(p)
             /\ LanesIn(p, DOMAIN nodes)' <=> LanesIn(p, DOMAIN nodes)
             /\ LanesIn(p, DOMAIN status)' <=> LanesIn(p, DOMAIN status)
  BY DEF RowKept, OffKept, OffFresh, LanesKept, LanesIn, KeyOf, Range
<1> QED
  BY <1>1, <1>2

LEMMA NoticedCalmRefresh ==
    ASSUME RefreshTyped, CalmRefresh, r' = Noticed(r)
    PROVE  CalmRefresh'
<1> SUFFICES ASSUME r'.calm, r'.pc \in Carrying \cup Reloaded PROVE CarriedOver'
  BY DEF CalmRefresh, Carrying, Reloaded
<1>1. /\ UNCHANGED <<nodes, status, portNode, row, lanes, laned, running, tags, sel>>
      /\ r'.pc = r.pc /\ r'.todo = r.todo /\ r'.port = r.port /\ r'.want = r.want
      /\ r'.plan = r.plan /\ r'.lanes = r.lanes
      /\ CarriedOver
  BY NoticedRefresh DEF CalmRefresh, db, box
<1>2. Carried' = Carried /\ RowsDone' = RowsDone /\ OffDone' = OffDone
  BY <1>1 DEF Carried, RowsDone, OffDone
<1> QED
  BY <1>1, <1>2, CarriedSame DEF CarriedOver

LEMMA NoticedCalmHealth ==
    ASSUME HealthTyped, CalmHealthCheck, h' = Noticed(h)
    PROVE  CalmHealthCheck'
<1> SUFFICES ASSUME h'.calm PROVE Healing'
  BY DEF CalmHealthCheck
<1>1. /\ UNCHANGED <<status, portNode, row, lanes, running, tags>>
      /\ h'.pc = h.pc /\ h'.todo = h.todo /\ h'.port = h.port /\ h'.seen = h.seen
      /\ h'.next = h.next /\ h'.lanes = h.lanes
      /\ Healing
  BY NoticedHealth DEF CalmHealthCheck, db, box
<1>2. \A p : View(p)' = View(p) /\ Assigned(p)' = Assigned(p)
  BY <1>1 DEF Assigned, View
<1>3. Unprobed' = Unprobed /\ Healed' = Healed /\ LanesDone' = LanesDone
  BY <1>1 DEF Unprobed, Healed, LanesDone
<1>4. \A p : (PortHealed(p) => PortHealed(p)') /\ (LanesHealed(p) => LanesHealed(p)')
  BY <1>1, <1>2 DEF PortHealed, LanesHealed
<1> QED
  BY <1>1, <1>2, <1>3, <1>4 DEF Healing

-----------------------------------------------------------------------------
(* A calm health check, from call to call                                    *)

\* A port is healed and the next one is due.
LEMMA PortDoneHealing ==
    ASSUME HealthTyped, Healing, h.pc \in {"ports", "switch", "write"}, NEW p \in h.todo,
           h' = PortDone(p), UNCHANGED <<status, portNode, running, tags>>,
           PortHealed(p)', \A q \in Ports \ {p} : PortHealed(q) => PortHealed(q)'
    PROVE  Healing'
<1>1. /\ h'.pc = IF h.todo = {p} THEN "lanesRead" ELSE "ports"
      /\ h'.todo = IF h.todo = {p} THEN Ports ELSE h.todo \ {p}
  BY PortDoneIs
<1>2. Unprobed' = {} /\ Unprobed = {}
  BY <1>1 DEF Unprobed
<1>3. Healed' = Healed \cup {p} /\ h.todo \subseteq Ports
  BY <1>1 DEF Healed, HealthTyped
<1>4. LanesDone' = {}
  BY <1>1 DEF LanesDone
<1>5. \A q \in Healed' : PortHealed(q)'
  <2>1. Healed \subseteq Ports
    BY DEF Healed
  <2>2. \A q \in Healed : PortHealed(q)
    BY DEF Healing
  <2> QED
    BY <1>3, <2>1, <2>2
<1> QED
  BY <1>1, <1>2, <1>4, <1>5 DEF Healing

LEMMA ProbeHealing ==
    ASSUME Typed, Healing, NEW up \in BOOLEAN, HealthProbe(up), h'.calm
    PROVE  Healing'
<1> DEFINE n == Least(h.todo)
           st == [state |-> IF up THEN "active" ELSE "cooldown", disabled |-> h.seen[n].disabled]
<1>1. /\ n \in h.todo /\ st \in NodeRow
      /\ h'.todo = IF h.todo = {n} THEN Ports ELSE h.todo \ {n}
      /\ h'.pc = IF h.todo = {n} THEN "ports" ELSE "probe"
      /\ h'.seen = h.seen
      /\ \/ status' = Upsert(status, n, st)
         \/ /\ UNCHANGED <<status, portNode>>
            /\ up /\ h.seen[n].state = "active"
  BY ProbeIs
<1>2. /\ h.pc = "probe" /\ (up => n \in tags) /\ UNCHANGED <<running, tags>>
  BY DEF HealthProbe, SelectorTakes, box
<1>3. /\ running /\ DOMAIN status = DOMAIN h.seen /\ h.todo \subseteq DOMAIN status
      /\ \A m \in h.todo : status[m].state = h.seen[m].state
      /\ \A m \in DOMAIN status \ h.todo : status[m].state = "active" => m \in tags
  BY <1>2 DEF Healing, Unprobed, Typed, CallersTyped, HealthTyped
<1>4. up => st.state = "active"
  OBVIOUS
<1>5. ~ up => st.state # "active"
  OBVIOUS
<1> HIDE DEF n, st
<1>6. /\ DOMAIN status' = DOMAIN status
      /\ \A m \in DOMAIN status \ {n} : status'[m] = status[m]
      /\ status'[n].state = "active" => up
  BY <1>1, <1>3, <1>5 DEF Upsert
<1>7. Unprobed' = h.todo \ {n}
  BY <1>1 DEF Unprobed
<1>8. \A m \in Unprobed' : status'[m].state = h'.seen[m].state
  BY <1>1, <1>3, <1>6, <1>7
<1>9. \A m \in DOMAIN status' \ Unprobed' : status'[m].state = "active" => m \in tags'
  BY <1>1, <1>2, <1>3, <1>6, <1>7
<1>10. Healed' = {} /\ LanesDone' = {} /\ h'.pc \in {"probe", "ports"}
  BY <1>1 DEF Healed, LanesDone
<1> QED
  BY <1>1, <1>2, <1>3, <1>6, <1>8, <1>9, <1>10 DEF Healing

LEMMA HealthKeepsHealing ==
    ASSUME Typed, CalmHealthCheck, HealthStep
    PROVE  CalmHealthCheck'
<1> SUFFICES ASSUME h'.calm PROVE Healing'
  BY DEF CalmHealthCheck
<1>1. TypeOK /\ HealthTyped
  BY DEF Typed, CallersTyped
<1>2. CASE HealthBegin
  <2>1. /\ running' = TRUE /\ status' = status
        /\ h'.pc = "probe" /\ h'.todo = DOMAIN status /\ h'.seen = View(Default)
    BY <1>2 DEF HealthBegin, IdleHealth, db, box, TypeOK
  <2>2. /\ DOMAIN View(Default) = DOMAIN status
        /\ \A n \in DOMAIN status : View(Default)[n].state = status[n].state
    BY <1>1, PortsAssumption, ViewIs
  <2>3. Unprobed' = DOMAIN status /\ Healed' = {} /\ LanesDone' = {}
    BY <2>1 DEF Unprobed, Healed, LanesDone
  <2> QED
    BY <2>1, <2>2, <2>3 DEF Healing
<1>3. ASSUME ~ HealthBegin PROVE h.calm /\ Healing
  <2>1. h.calm
    BY <1>1, <1>3, ProbeIs, PortDoneIs, IdleHealthTyped
       DEF HealthStep, HealthReadPort, HealthLanesRead, HealthSwitch, HealthWriteRow,
           HealthWriteFails, HealthLanesWrite, HealthLanesFail, HealthReturn, HealthTyped
  <2> QED
    BY <2>1 DEF CalmHealthCheck
<1>4. ASSUME NEW up \in BOOLEAN, HealthProbe(up) PROVE Healing'
  <2>1. Healing
    BY <1>3, <1>4 DEF HealthBegin, HealthProbe
  <2> QED
    BY <1>4, <2>1, ProbeHealing
<1>5. ASSUME NEW p \in Ports, HealthReadPort(p) PROVE Healing'
  <2>1. /\ h.pc = "ports" /\ p \in h.todo
        /\ UNCHANGED <<status, portNode, row, lanes, running, tags>>
    BY <1>5 DEF HealthReadPort, db, box
  <2>2. Healing
    BY <1>3, <2>1 DEF HealthBegin
  <2>3. \A q : (PortHealed(q)' <=> PortHealed(q)) /\ View(q)' = View(q)
    BY <2>1 DEF PortHealed, View
  <2>4. CASE row[p].active \in Eligible(View(p)) \/ Eligible(View(p)) \ {row[p].active} = {}
    <3>1. h' = PortDone(p)
      BY <1>5, <2>4 DEF HealthReadPort
    <3>2. PortHealed(p)
      BY <2>4 DEF PortHealed
    <3> QED
      BY <1>1, <2>1, <2>2, <2>3, <3>1, <3>2, PortDoneHealing
  <2>5. CASE ~ (row[p].active \in Eligible(View(p)) \/ Eligible(View(p)) \ {row[p].active} = {})
    <3>1. PICK n \in Eligible(View(p)) :
            h' = [h EXCEPT !.pc = "switch", !.port = p, !.next = n, !.row = row[p]]
      BY <1>5, <2>5 DEF HealthReadPort
    <3>2. h'.pc = "switch" /\ h'.port = p /\ h'.next = n /\ h'.todo = h.todo
      BY <1>1, <3>1 DEF HealthTyped
    <3>3. Unprobed' = Unprobed /\ Healed' = Healed /\ LanesDone' = {}
      BY <2>1, <3>2 DEF Unprobed, Healed, LanesDone
    <3>4. h'.next \in Eligible(View(h.port))' <=> n \in Eligible(View(p))
      BY <2>3, <3>2
    <3> HIDE DEF Healing
    <3>5. /\ running' /\ \A m \in DOMAIN status' \ Unprobed' : status'[m].state = "active" => m \in tags'
          /\ Unprobed' = {}
      BY <2>1, <2>2, <3>3 DEF Healing, Unprobed
    <3>6. \A q \in Healed' : PortHealed(q)'
      BY <2>2, <2>3, <3>3 DEF Healing
    <3> QED
      BY <2>1, <2>3, <3>1, <3>2, <3>3, <3>5, <3>6 DEF Healing
  <2> QED
    BY <2>4, <2>5
<1>6. CASE HealthSwitch
  <2>1. /\ h.pc = "switch" /\ UNCHANGED <<status, portNode, row, lanes, running, tags>>
    BY <1>6 DEF HealthSwitch, db
  <2>2. Healing
    BY <1>3, <2>1 DEF HealthBegin
  <2>3. h.next \in Eligible(View(h.port)) /\ running
    BY <2>1, <2>2 DEF Healing
  <2>4. h.next \in tags
    <3>1. h.next \in DOMAIN status /\ status[h.next].state = "active"
      BY <1>1, <2>3, ViewIs DEF HealthTyped
    <3> QED
      BY <2>1, <2>2, <3>1 DEF Healing, Unprobed
  <2>5. h' = [h EXCEPT !.pc = "write"]
    BY <1>6, <2>3, <2>4 DEF HealthSwitch, SelectorTakes
  <2>6. h'.pc = "write" /\ h'.port = h.port /\ h'.next = h.next /\ h'.todo = h.todo
    BY <1>1, <2>5 DEF HealthTyped
  <2>7. Unprobed' = Unprobed /\ Healed' = Healed /\ LanesDone' = {}
    BY <2>1, <2>6 DEF Unprobed, Healed, LanesDone
  <2>8. \A q : (PortHealed(q)' <=> PortHealed(q)) /\ View(q)' = View(q)
    BY <2>1 DEF PortHealed, View
  <2> QED
    BY <2>1, <2>2, <2>6, <2>7, <2>8 DEF Healing, Unprobed
<1>7. CASE HealthWriteRow
  <2>1. PICK p \in Ports : p = h.port
    BY <1>1 DEF HealthTyped
  <2>2. /\ h.pc = "write" /\ UNCHANGED <<status, portNode, running, tags>> /\ h' = PortDone(p)
    BY <1>7, <2>1 DEF HealthWriteRow, box
  <2>3. Healing
    BY <1>3, <2>2 DEF HealthBegin
  <2>4. h.next \in Eligible(View(p)) /\ p \in h.todo
    BY <2>1, <2>2, <2>3 DEF Healing
  <2>5. row'[p].active = h.next /\ \A q \in Ports \ {p} : row'[q] = row[q]
    BY <1>1, <1>7, <2>1 DEF HealthWriteRow, PutRow, TypeOK
  <2>6. \A q : View(q)' = View(q)
    BY <2>2 DEF View
  <2>7. PortHealed(p)' /\ \A q \in Ports \ {p} : PortHealed(q) => PortHealed(q)'
    BY <2>4, <2>5, <2>6 DEF PortHealed
  <2> QED
    BY <1>1, <2>2, <2>3, <2>4, <2>7, PortDoneHealing
<1>8. ASSUME NEW p \in Ports, HealthLanesRead(p) PROVE Healing'
  <2>1. /\ h.pc = "lanesRead" /\ p \in h.todo
        /\ UNCHANGED <<status, portNode, row, lanes, running, tags>>
    BY <1>8 DEF HealthLanesRead, db, box
  <2>2. Healing
    BY <1>3, <2>1 DEF HealthBegin
  <2>3. h'.pc = "lanesWrite" /\ h'.port = p /\ h'.lanes = Assigned(p) /\ h'.todo = h.todo
    BY <1>1, <1>8 DEF HealthLanesRead, HealthTyped
  <2>4. Unprobed' = Unprobed /\ Healed' = Healed /\ LanesDone' = LanesDone
    BY <2>1, <2>3 DEF Unprobed, Healed, LanesDone
  <2>5. \A q : View(q)' = View(q) /\ Assigned(q)' = Assigned(q)
    BY <2>1 DEF View, Assigned
  <2>6. \A q : (PortHealed(q)' <=> PortHealed(q)) /\ (LanesHealed(q)' <=> LanesHealed(q))
    BY <2>1, <2>5 DEF PortHealed, LanesHealed
  <2>7. h'.lanes = Assigned(h.port)'
    BY <2>3, <2>5
  <2> QED
    BY <2>1, <2>2, <2>3, <2>4, <2>6, <2>7 DEF Healing, Unprobed
<1>9. CASE HealthLanesWrite
  <2>1. PICK p \in Ports : p = h.port
    BY <1>1 DEF HealthTyped
  <2>2. /\ h.pc = "lanesWrite" /\ UNCHANGED <<status, portNode, row, running, tags>>
    BY <1>9 DEF HealthLanesWrite, box
  <2>3. Healing
    BY <1>3, <2>2 DEF HealthBegin
  <2>4. p \in h.todo /\ h.lanes = Assigned(p) /\ h.todo \subseteq Ports
    BY <1>1, <2>1, <2>2, <2>3 DEF Healing, HealthTyped
  <2>5. lanes'[p] = Assigned(p) /\ \A q \in Ports \ {p} : lanes'[q] = lanes[q]
    BY <1>1, <1>9, <2>1, <2>4 DEF HealthLanesWrite, PutLanes, TypeOK
  <2>6. \A q : View(q)' = View(q) /\ (PortHealed(q)' <=> PortHealed(q))
    BY <2>2 DEF View, PortHealed
  <2>7. LanesHealed(p)'
    BY <1>1, <2>5, <2>6, AssignedIs DEF LanesHealed
  <2>8. \A q \in Ports \ {p} : LanesHealed(q) => LanesHealed(q)'
    BY <2>5, <2>6 DEF LanesHealed
  <2>9. /\ h'.pc = IF h.todo = {p} THEN "done" ELSE "lanesRead"
        /\ h'.todo = h.todo \ {p}
    BY <1>1, <1>9, <2>1 DEF HealthLanesWrite, HealthTyped
  <2>10. LanesDone' = LanesDone \cup {p} /\ LanesDone \subseteq Ports
    BY <2>2, <2>4, <2>9 DEF LanesDone
  <2>11. Unprobed' = Unprobed /\ Healed' = Healed
    BY <2>2, <2>9 DEF Unprobed, Healed
  <2>12. \A q \in LanesDone' : LanesHealed(q)'
    <3>1. \A q \in LanesDone : LanesHealed(q)
      BY <2>3 DEF Healing
    <3> QED
      BY <2>7, <2>8, <2>10, <3>1
  <2> QED
    BY <2>2, <2>3, <2>6, <2>9, <2>11, <2>12 DEF Healing, Unprobed
<1>10. ~ (HealthWriteFails \/ HealthLanesFail \/ HealthReturn)
  BY <1>1, PortDoneIs, IdleHealthTyped DEF HealthWriteFails, HealthLanesFail, HealthReturn,
     PortDone, HealthTyped
<1> QED
  BY <1>2, <1>4, <1>5, <1>6, <1>7, <1>8, <1>9, <1>10 DEF HealthStep

-----------------------------------------------------------------------------
(* A calm refresh, from call to call                                         *)

LEMMA ReplaceCarries ==
    ASSUME Typed, NEW list \in Lists, RefreshReplaceNodes(list)
    PROVE  CarriedOver'
<1>1. r'.pc = "row" /\ r'.todo = Ports
  BY DEF RefreshReplaceNodes, Typed, CallersTyped, RefreshTyped, Refreshes
<1>2. Carried' = {} /\ RowsDone' = {} /\ OffDone' = {}
  BY <1>1 DEF Carried, RowsDone, OffDone
<1>3. \A n \in DOMAIN nodes' : status'[n].state = "active"
  <2>1. \A n \in DOMAIN nodes' : status'[n] = [state |-> "active", disabled |-> FALSE]
    BY ReplacedNodes
  <2> QED
    BY <2>1
<1>4. \A p \in Ports : OffFresh(p)'
  BY ReplacedNodes DEF OffFresh
<1> QED
  BY <1>1, <1>2, <1>3, <1>4 DEF CarriedOver, Carrying, Reloaded

LEMMA PortRowCarries ==
    ASSUME Typed, CarriedOver, NEW p \in Ports, RefreshPortRow(p)
    PROVE  CarriedOver'
<1> DEFINE kept == IdOf(r.want[p].key)
           put == IF kept # NoNode THEN [active |-> kept, mode |-> r.want[p].mode]
                  ELSE [active |-> Least(DOMAIN nodes), mode |-> "auto"]
<1>1. /\ r.pc = "row" /\ p \in r.todo
      /\ row' = [row EXCEPT ![p] = put]
      /\ r' = [r EXCEPT !.pc = "disable", !.port = p]
      /\ UNCHANGED <<nodes, status, portNode, lanes>>
  BY DEF RefreshPortRow, PutRow
<1>2. kept # NoNode <=> r.want[p].key \in Range(nodes)
  BY IdOfIs DEF Typed, TypeOK
<1>3. kept # NoNode => kept \in DOMAIN nodes /\ nodes[kept] = r.want[p].key
  BY IdOfIs DEF Typed, TypeOK
<1>4. r'.pc = "disable" /\ r'.port = p /\ r'.todo = r.todo /\ r'.want = r.want
  BY <1>1 DEF Typed, CallersTyped, RefreshTyped, Refreshes
<1>5. row'[p] = put /\ \A q \in Ports \ {p} : row'[q] = row[q]
  BY <1>1 DEF Typed, TypeOK
<1>6. RowKept(p)'
  BY <1>1, <1>2, <1>3, <1>4, <1>5 DEF RowKept, KeyOf
<1>7. ASSUME NEW q \in Ports \ {p} PROVE RowKept(q)' <=> RowKept(q)
  BY <1>1, <1>4, <1>5 DEF RowKept, KeyOf
<1>8. ASSUME NEW q
      PROVE  /\ OffKept(q)' <=> OffKept(q)
             /\ OffFresh(q)' <=> OffFresh(q)
             /\ LanesKept(q)' <=> LanesKept(q)
             /\ LanesIn(q, DOMAIN nodes)' <=> LanesIn(q, DOMAIN nodes)
  BY <1>1, <1>4 DEF OffKept, OffFresh, LanesKept, LanesIn, KeyOf, Range
<1>9. /\ Carried' = Carried /\ RowsDone' = Carried \cup {p} /\ OffDone' = OffDone
      /\ RowsDone = Carried /\ p \notin Carried /\ Carried \subseteq Ports
  BY <1>1, <1>4 DEF Carried, RowsDone, OffDone
<1> HIDE DEF kept, put
<1>10. \A q \in RowsDone' : RowKept(q)'
  BY <1>6, <1>7, <1>9 DEF CarriedOver
<1> QED
  BY <1>1, <1>4, <1>8, <1>9, <1>10 DEF CarriedOver, Carrying, Reloaded

LEMMA DisablesCarry ==
    ASSUME Typed, RowsRenewed, CarriedOver, RefreshDisables, r'.calm
    PROVE  CarriedOver'
<1>1. PICK p \in Ports : p = r.port
  BY DEF Typed, CallersTyped, RefreshTyped, Refreshes
<1> DEFINE all == {IdOf(key) : key \in r.want[p].off} \ {NoNode}
<1>2. r.pc = "disable" /\ UNCHANGED <<nodes, row, lanes>>
  BY DEF RefreshDisables
<1>3. /\ portNode' = [portNode EXCEPT ![p] =
            [n \in DOMAIN portNode[p] \cup all |-> n \in all \/ portNode[p][n]]]
      /\ status' = [n \in DOMAIN status |->
            [status[n] EXCEPT !.disabled = @ \/ (p = Default /\ n \in all)]]
      /\ r' = [r EXCEPT !.pc = "lanes"]
  <2>1. r' # GivenUp
    BY IdleTyped
  <2> QED
    BY <1>1, <2>1 DEF RefreshDisables
<1>4. r'.pc = "lanes" /\ r'.port = p /\ r'.todo = r.todo /\ r'.want = r.want
  BY <1>1, <1>3 DEF Typed, CallersTyped, RefreshTyped, Refreshes
<1>5. \A n \in DOMAIN nodes : n \in DOMAIN portNode[p] /\ n \in DOMAIN status
  BY <1>2 DEF Typed, RowsOfNodes, RowsRenewed, Renewed
<1>6. ASSUME NEW n \in DOMAIN nodes PROVE n \in all <=> nodes[n] \in r.want[p].off
  <2>1. IsTable(nodes, Keys) /\ n # NoNode
    BY DEF Typed, TypeOK, IsTable, Ids, NoNode
  <2>2. ASSUME NEW key \in r.want[p].off, IdOf(key) = n PROVE nodes[n] \in r.want[p].off
    BY <2>1, <2>2, IdOfIs
  <2>3. ASSUME nodes[n] \in r.want[p].off PROVE IdOf(nodes[n]) = n
    <3>1. nodes[n] \in Range(nodes)
      BY DEF Range
    <3>2. IdOf(nodes[n]) \in DOMAIN nodes /\ nodes[IdOf(nodes[n])] = nodes[n]
      BY <2>1, <3>1, IdOfIs
    <3> QED
      BY <3>2 DEF Typed, RowsOfNodes
  <2> QED
    BY <2>1, <2>2, <2>3
<1> HIDE DEF all
<1>7. DOMAIN portNode = Ports
  BY DEF Typed, TypeOK
<1>8. \A n \in DOMAIN nodes : portNode'[p][n] <=> (n \in all \/ portNode[p][n])
  BY <1>3, <1>5, <1>7
<1>9. \A q \in Ports \ {p} : portNode'[q] = portNode[q]
  BY <1>3, <1>7
<1>10. \A n \in DOMAIN nodes : status'[n].state = status[n].state
  BY <1>3, <1>5 DEF Typed, TypeOK, IsTable, NodeRow
<1>11. /\ Carried' = Carried /\ RowsDone' = RowsDone /\ OffDone' = Carried \cup {p}
       /\ OffDone = Carried /\ Carried = Ports \ r.todo
  BY <1>1, <1>2, <1>4 DEF Carried, RowsDone, OffDone
<1>12. p \in r.todo
  BY <1>1, <1>2 DEF CarriedOver
<1>13. OffKept(p)'
  <2>1. OffFresh(p)
    BY <1>11, <1>12 DEF CarriedOver
  <2> QED
    BY <1>2, <1>4, <1>6, <1>8, <2>1 DEF OffKept, OffFresh
<1>14. ASSUME NEW q
       PROVE  /\ RowKept(q)' <=> RowKept(q)
              /\ LanesKept(q)' <=> LanesKept(q)
              /\ LanesIn(q, DOMAIN nodes)' <=> LanesIn(q, DOMAIN nodes)
  BY <1>2, <1>4 DEF RowKept, LanesKept, LanesIn, KeyOf, Range
<1>15. ASSUME NEW q \in Ports \ {p}
       PROVE  /\ OffKept(q)' <=> OffKept(q)
              /\ OffFresh(q)' <=> OffFresh(q)
  BY <1>2, <1>4, <1>9 DEF OffKept, OffFresh
<1>16. /\ \A q \in OffDone' : OffKept(q)'
       /\ \A q \in Ports \ OffDone' : OffFresh(q)'
  BY <1>11, <1>12, <1>13, <1>15 DEF CarriedOver
<1> QED
  BY <1>2, <1>4, <1>10, <1>11, <1>12, <1>14, <1>16 DEF CarriedOver, Carrying, Reloaded

LEMMA LanesCarry ==
    ASSUME Typed, LanesListed, CarriedOver, RefreshLanes, r'.calm
    PROVE  CarriedOver'
<1>1. PICK p \in Ports : p = r.port
  BY DEF Typed, CallersTyped, RefreshTyped, Refreshes
<1>2. r.pc = "lanes" /\ UNCHANGED <<nodes, status, portNode, row>>
  BY DEF RefreshLanes
<1> DEFINE read == IF r.want[p].laned THEN Lanes ELSE {}
<1>3. /\ lanes' = [lanes EXCEPT ![p] = [l \in Lanes |->
            IF l \in read THEN IdOf(r.want[p].lanes[l]) ELSE lanes[p][l]]]
      /\ r' = [r EXCEPT !.pc = IF r.todo = {p} THEN "build" ELSE "row", !.todo = @ \ {p}]
  <2>1. r' # GivenUp
    BY IdleTyped
  <2>2. PICK done \in SUBSET read :
          /\ lanes' = [lanes EXCEPT ![p] =
                [l \in Lanes |-> IF l \in done THEN IdOf(r.want[p].lanes[l]) ELSE lanes[p][l]]]
          /\ r' = IF done # read THEN GivenUp
                  ELSE [r EXCEPT !.pc = IF r.todo = {p} THEN "build" ELSE "row",
                                 !.todo = @ \ {p}]
    BY <1>1 DEF RefreshLanes
  <2> HIDE DEF read
  <2>3. done = read
    BY <2>1, <2>2
  <2> QED
    BY <2>2, <2>3
<1>4. /\ r'.pc = IF r.todo = {p} THEN "build" ELSE "row"
      /\ r'.todo = r.todo \ {p} /\ r'.want = r.want /\ r.todo \subseteq Ports
  BY <1>3 DEF Typed, CallersTyped, RefreshTyped, Refreshes
<1>5. /\ \A l \in Lanes : lanes'[p][l] = IdOf(r.want[p].lanes[l])
      /\ \A q \in Ports \ {p} : lanes'[q] = lanes[q]
  <2>1. /\ \A l \in Lanes : lanes'[p][l] = IF l \in read THEN IdOf(r.want[p].lanes[l])
                                          ELSE lanes[p][l]
        /\ \A q \in Ports \ {p} : lanes'[q] = lanes[q]
    BY <1>3 DEF Typed, TypeOK
  <2>2. CASE r.want[p].laned
    BY <2>1, <2>2
  <2>3. CASE ~ r.want[p].laned
    <3>1. r.calm
      BY <1>3 DEF Typed, CallersTyped, RefreshTyped, Refreshes
    <3>2. lanes[p] = NoLanes /\ \A l \in Lanes : r.want[p].lanes[l] = NoKey
      BY <1>2, <2>3, <3>1 DEF LanesListed, LanesRead
    <3>3. IdOf(NoKey) = NoNode
      BY KeysAssumption DEF IdOf, Typed, TypeOK, IsTable
    <3> QED
      BY <2>1, <2>3, <3>2, <3>3 DEF NoLanes
  <2> QED
    BY <2>2, <2>3
<1>6. p \in r.todo
  BY <1>1, <1>2 DEF CarriedOver
<1>7. /\ Carried' = Carried \cup {p} /\ RowsDone' = RowsDone /\ OffDone' = OffDone
      /\ Carried = Ports \ r.todo
  BY <1>1, <1>2, <1>4, <1>6 DEF Carried, RowsDone, OffDone
<1>8. LanesKept(p)' /\ LanesIn(p, DOMAIN nodes)'
  <2>1. IsTable(nodes, Keys)
    BY DEF Typed, TypeOK
  <2>2. LanesIn(p, DOMAIN nodes)'
    BY <1>2, <1>5, <2>1, IdOfIs DEF LanesIn
  <2>3. ASSUME NEW l \in Lanes, r.want[p].lanes[l] \in Range(nodes)
        PROVE  KeyOf(IdOf(r.want[p].lanes[l])) = r.want[p].lanes[l]
    BY <2>1, <2>3, IdOfIs DEF KeyOf
  <2>4. LanesKept(p)'
    BY <1>2, <1>4, <1>5, <2>3 DEF LanesKept, KeyOf
  <2> QED
    BY <2>2, <2>4
<1>9. ASSUME NEW q
      PROVE  /\ RowKept(q)' <=> RowKept(q)
             /\ OffKept(q)' <=> OffKept(q)
             /\ OffFresh(q)' <=> OffFresh(q)
  BY <1>2, <1>4 DEF RowKept, OffKept, OffFresh, KeyOf, Range
<1>10. ASSUME NEW q \in Ports \ {p}
       PROVE  /\ LanesKept(q)' <=> LanesKept(q)
              /\ LanesIn(q, DOMAIN nodes)' <=> LanesIn(q, DOMAIN nodes)
  BY <1>2, <1>4, <1>5 DEF LanesKept, LanesIn, KeyOf, Range
<1>11. \A q \in Carried' : LanesKept(q)' /\ LanesIn(q, DOMAIN nodes)'
  BY <1>2, <1>7, <1>8, <1>10 DEF CarriedOver, Carrying
<1> QED
  BY <1>2, <1>4, <1>7, <1>9, <1>11 DEF CarriedOver, Carrying, Reloaded

\* The configuration of a calm refresh is the registry's own.
LEMMA ApplyCarries ==
    ASSUME Typed, CarriedOver, ApplyCheck \/ ApplyStop \/ ApplyStart,
           r'.pc \in Carrying \cup Reloaded, r'.calm
    PROVE  CarriedOver'
<1>1. UNCHANGED <<nodes, status, portNode, row, lanes, laned>>
  BY DEF ApplyCheck, ApplyStop, ApplyStart, db
<1>2. r.pc \in {"build", "stop", "start"} /\ r \in Refreshes
  BY DEF ApplyCheck, ApplyStop, ApplyStart, Typed, CallersTyped, RefreshTyped
<1>3. \/ ApplyCheck /\ r' = [r EXCEPT !.pc = "stop", !.plan = Plan]
      \/ ApplyStop /\ r' = [r EXCEPT !.pc = "start"]
      \/ ApplyStart /\ r' = [r EXCEPT !.pc = "lanesRead", !.todo = Ports]
  <2>1. r' # GivenUp /\ r' # IdleRefresh
    BY IdleTyped
  <2> QED
    BY <2>1 DEF ApplyCheck, ApplyStop, ApplyStart
<1>4. r'.want = r.want /\ r'.pc \in {"stop", "start", "lanesRead"}
  BY <1>2, <1>3 DEF Refreshes
<1>5. /\ Carried' = Ports /\ RowsDone' = Ports /\ OffDone' = Ports
      /\ Carried = Ports /\ RowsDone = Ports /\ OffDone = Ports
  BY <1>2, <1>4 DEF Carried, RowsDone, OffDone
<1>6. r'.pc \in {"stop", "start"} => r'.plan = Plan
  <2>1. CASE r' = [r EXCEPT !.pc = "stop", !.plan = Plan]
    BY <1>2, <2>1 DEF Refreshes
  <2>2. CASE ApplyStop /\ r' = [r EXCEPT !.pc = "start"]
    <3>1. r.plan = Plan
      BY <2>2 DEF ApplyStop, CarriedOver
    <3> QED
      BY <1>2, <2>2, <3>1 DEF Refreshes
  <2>3. CASE r' = [r EXCEPT !.pc = "lanesRead", !.todo = Ports]
    BY <1>2, <2>3 DEF Refreshes
  <2> QED
    BY <1>3, <2>1, <2>2, <2>3
<1>7. r'.pc \in Reloaded =>
         /\ running' /\ tags' = DOMAIN nodes'
         /\ \A p \in Ports : sel'[p] = row'[p].active /\ LanesIn(p, DOMAIN status)'
  <2> SUFFICES ASSUME r'.pc \in Reloaded
               PROVE  /\ running' /\ tags' = DOMAIN nodes'
                      /\ \A p \in Ports : sel'[p] = row'[p].active /\ LanesIn(p, DOMAIN status)'
    OBVIOUS
  <2>1. ApplyStart /\ r.pc = "start"
    BY <1>2, <1>3 DEF ApplyStart, Reloaded, Refreshes
  <2>2. /\ running' = TRUE /\ tags' = DOMAIN nodes
        /\ sel' = [p \in Ports |-> r.plan[p].sel]
    BY <2>1 DEF ApplyStart
  <2>3. r.plan = Plan
    BY <2>1 DEF CarriedOver
  <2>4. \A p \in Ports : sel'[p] = row[p].active
    BY <2>2, <2>3 DEF Plan
  <2>5. \A p \in Ports : LanesIn(p, DOMAIN nodes)
    BY <1>5, <2>1 DEF CarriedOver, Carrying
  <2>6. \A p \in Ports : LanesIn(p, DOMAIN status)
    BY <2>5 DEF LanesIn, Typed, RowsOfNodes
  <2>7. \A p \in Ports : LanesIn(p, DOMAIN status)'
    BY <1>1, <2>6 DEF LanesIn
  <2> QED
    BY <1>1, <2>2, <2>4, <2>7
<1>8. /\ \A p \in Ports : LanesIn(p, DOMAIN nodes)
      /\ \A p \in Ports : RowKept(p) /\ OffKept(p) /\ LanesKept(p)
  BY <1>2, <1>5 DEF CarriedOver, Carrying
<1> QED
  BY <1>1, <1>4, <1>5, <1>6, <1>7, <1>8, CarriedSame DEF CarriedOver

\* The lanes are assigned again: one that has come back to its node keeps it,
\* unless it is disabled.
LEMMA LanesWriteCarries ==
    ASSUME Typed, RowsRenewed, CarriedOver, r.calm, RefreshLanesWrite
    PROVE  CarriedOver'
<1>1. PICK p \in Ports : p = r.port
  BY DEF Typed, CallersTyped, RefreshTyped, Refreshes
<1>2. r.pc = "lanesWrite" /\ UNCHANGED <<nodes, status, portNode, row, running, tags, sel>>
  BY DEF RefreshLanesWrite, box
<1>3. /\ r'.pc = IF r.todo = {p} THEN "done" ELSE "lanesRead"
      /\ r'.todo = r.todo \ {p} /\ r'.want = r.want
  BY <1>1 DEF RefreshLanesWrite, Typed, CallersTyped, RefreshTyped, Refreshes
<1>4. lanes'[p] = r.lanes /\ \A q \in Ports \ {p} : lanes'[q] = lanes[q]
  BY <1>1 DEF RefreshLanesWrite, PutLanes, Typed, TypeOK
<1>5. r.lanes = Assigned(p) /\ OffKept(p) /\ LanesKept(p) /\ running /\ tags = DOMAIN nodes
  BY <1>1, <1>2 DEF CarriedOver, Carried, OffDone, Reloaded
<1>6. LanesIn(p, DOMAIN status)'
  BY <1>2, <1>4, <1>5, AssignedIs DEF LanesIn, Typed
<1>7. LanesKept(p)'
  <2>1. ASSUME NEW l \in Lanes, r.want[p].lanes[l] \in Range(nodes) \ r.want[p].off
        PROVE  Assigned(p)[l] = lanes[p][l] /\ KeyOf(lanes[p][l]) = r.want[p].lanes[l]
    <3> DEFINE n == lanes[p][l]
    <3>1. KeyOf(n) = r.want[p].lanes[l]
      BY <1>5, <2>1 DEF LanesKept
    <3>2. n \in DOMAIN nodes /\ nodes[n] = r.want[p].lanes[l]
      <4>1. IsTable(nodes, Keys) /\ r.want[p].lanes[l] \in Keys
        BY <2>1 DEF Typed, TypeOK, IsTable, Range
      <4> QED
        BY <3>1, <4>1, KeyOfIs
    <3>3. /\ status[n].state = "active" /\ ~ portNode[p][n]
          /\ n \in DOMAIN status /\ n \in DOMAIN portNode[p]
      <4>1. n \in DOMAIN portNode[p]
        BY <1>2, <3>2 DEF RowsRenewed, Renewed, Carrying, Reloaded
      <4> QED
        BY <1>5, <2>1, <3>2, <4>1 DEF CarriedOver, OffKept, Typed, RowsOfNodes
    <3>4. View(p)[n].state = "active" /\ ~ View(p)[n].disabled /\ n \in DOMAIN View(p)
      BY <3>3, ViewIs DEF Typed
    <3>5. n \in Eligible(View(p))
      BY <3>4 DEF Eligible, Healthy
    <3> QED
      BY <3>1, <3>5, AssignedIs DEF Typed
  <2> QED
    BY <1>2, <1>3, <1>4, <1>5, <2>1 DEF LanesKept, KeyOf
<1>8. /\ Carried' = Ports /\ RowsDone' = Ports /\ OffDone' = Ports
      /\ Carried = Ports /\ RowsDone = Ports /\ OffDone = Ports
  BY <1>2, <1>3 DEF Carried, RowsDone, OffDone
<1>9. ASSUME NEW q
      PROVE  /\ RowKept(q)' <=> RowKept(q)
             /\ OffKept(q)' <=> OffKept(q)
  BY <1>2, <1>3 DEF RowKept, OffKept, KeyOf, Range
<1>10. ASSUME NEW q \in Ports \ {p}
       PROVE  /\ LanesKept(q)' <=> LanesKept(q)
              /\ LanesIn(q, DOMAIN status)' <=> LanesIn(q, DOMAIN status)
  BY <1>2, <1>3, <1>4 DEF LanesKept, LanesIn, KeyOf, Range
<1>11. /\ \A q \in Ports : LanesKept(q)'
       /\ \A q \in Ports : sel'[q] = row'[q].active /\ LanesIn(q, DOMAIN status)'
  BY <1>2, <1>6, <1>7, <1>8, <1>10 DEF CarriedOver, Reloaded
<1> QED
  BY <1>2, <1>3, <1>5, <1>8, <1>9, <1>11 DEF CarriedOver, Carrying, Reloaded

LEMMA LanesReadCarries ==
    ASSUME Typed, CarriedOver, NEW p \in Ports, RefreshLanesRead(p)
    PROVE  CarriedOver'
<1>1. /\ r.pc = "lanesRead" /\ p \in r.todo
      /\ UNCHANGED <<nodes, status, portNode, row, lanes, laned, running, tags, sel>>
  BY DEF RefreshLanesRead, db, box
<1>2. /\ r'.pc = "lanesWrite" /\ r'.port = p /\ r'.lanes = Assigned(p)
      /\ r'.todo = r.todo /\ r'.want = r.want
  BY DEF RefreshLanesRead, Typed, CallersTyped, RefreshTyped, Refreshes
<1>3. /\ Carried' = Ports /\ RowsDone' = Ports /\ OffDone' = Ports
      /\ Carried = Ports /\ RowsDone = Ports /\ OffDone = Ports
  BY <1>1, <1>2 DEF Carried, RowsDone, OffDone
<1>4. /\ \A q \in Ports : RowKept(q) /\ OffKept(q) /\ LanesKept(q)
      /\ running /\ tags = DOMAIN nodes
      /\ \A q \in Ports : sel[q] = row[q].active /\ LanesIn(q, DOMAIN status)
  BY <1>1, <1>3 DEF CarriedOver, Reloaded
<1>5. r'.lanes = Assigned(r.port)'
  BY <1>1, <1>2, CarriedSame
<1> QED
  BY <1>1, <1>2, <1>3, <1>4, <1>5, CarriedSame DEF CarriedOver, Carrying

LEMMA RefreshKeepsCalm ==
    ASSUME Typed, LanesListed, RowsRenewed, CalmRefresh, RefreshStep
    PROVE  CalmRefresh'
<1> SUFFICES ASSUME r'.calm, r'.pc \in Carrying \cup Reloaded PROVE CarriedOver'
  BY DEF CalmRefresh, Carrying, Reloaded
<1>1. r' # GivenUp /\ r' # IdleRefresh /\ r \in Refreshes
  BY IdleTyped DEF Typed, CallersTyped, RefreshTyped
<1>2. ~ (RefreshBegin \/ RefreshFetchFails \/ RefreshFails \/ ApplyStartFails \/ RefreshReturn)
  BY <1>1, BegunTyped DEF RefreshBegin, RefreshFetchFails, RefreshFails, ApplyStartFails,
     RefreshReturn, Carrying, Reloaded, Typed, TypeOK
<1>3. \A p \in Ports : ~ RefreshReadPort(p)
  BY <1>1 DEF RefreshReadPort, Carrying, Reloaded, Refreshes
<1>4. CASE \E list \in Lists : RefreshReplaceNodes(list)
  BY <1>4, ReplaceCarries
<1>5. CASE \/ \E p \in Ports : RefreshPortRow(p) \/ RefreshLanesRead(p)
           \/ RefreshDisables \/ RefreshLanes \/ ApplyCheck \/ ApplyStop \/ ApplyStart
           \/ RefreshLanesWrite
  <2>1. r.pc \in Carrying \cup Reloaded
    BY <1>5 DEF RefreshPortRow, RefreshLanesRead, RefreshDisables, RefreshLanes, ApplyCheck,
       ApplyStop, ApplyStart, RefreshLanesWrite, Carrying, Reloaded
  <2>2. r.calm
    BY <1>1, <1>5 DEF RefreshPortRow, RefreshLanesRead, RefreshDisables, RefreshLanes, ApplyCheck,
       ApplyStop, ApplyStart, RefreshLanesWrite, Refreshes
  <2>3. CarriedOver
    BY <2>1, <2>2 DEF CalmRefresh
  <2> QED
    BY <1>5, <2>2, <2>3, PortRowCarries, LanesReadCarries, DisablesCarry, LanesCarry, ApplyCarries,
       LanesWriteCarries
<1> QED
  BY <1>2, <1>3, <1>4, <1>5 DEF RefreshStep

-----------------------------------------------------------------------------
(* The inductive invariant                                                   *)

LEMMA InitInv == Init => IInv
<1> SUFFICES ASSUME Init PROVE IInv
  OBVIOUS
<1>1. Typed
  BY InitTyped
<1>2. r.pc = "idle" /\ r.calm = FALSE /\ h.calm = FALSE
  BY IdleTyped DEF Init
<1> DEFINE k == Cardinality(Keys)
<1>3. PICK fresh \in SUBSET (Ports \ {Default}) :
        /\ portNode = [p \in Ports |-> IF p \in fresh THEN NoRows ELSE [n \in 1..k |-> FALSE]]
        /\ laned = Ports \ fresh
        /\ lanes = [p \in Ports |-> IF p \in fresh THEN NoLanes ELSE
                       [l \in Lanes |-> IF l = "lane-http-1" \/ k = 1 THEN 1 ELSE 2]]
        /\ laneSel = lanes \/ laneSel = [p \in Ports |-> NoLanes]
  BY DEF Init
<1>4. k \in Nat \ {0}
  BY KeysAssumption, FS_CardinalityType, FS_EmptySet
<1>5. /\ tags = 1..k /\ sel = [p \in Ports |-> 1]
      /\ status = [n \in 1..k |-> [state |-> "active", disabled |-> FALSE]]
      /\ r = IdleRefresh
  BY DEF Init
<1> HIDE DEF k
<1>6. SelectorsAreRegistered
  <2>1. 1 \in 1..k /\ (k # 1 => 2 \in 1..k)
    BY <1>4
  <2>2. \A p \in Ports, l \in Lanes : lanes[p][l] \in tags \cup {NoNode}
    BY <1>3, <1>5, <2>1 DEF NoLanes
  <2>3. \A p \in Ports, l \in Lanes : laneSel[p][l] \in tags \cup {NoNode}
    BY <1>3, <2>2 DEF NoLanes
  <2> QED
    BY <1>5, <2>1, <2>3 DEF SelectorsAreRegistered
<1>7. LeftTyped
  BY BudgetsAssumption DEF Init, LeftTyped
<1>8. DefaultMirrored
  BY <1>3, <1>5, PortsAssumption DEF DefaultMirrored
<1>9. IdsGiven
  BY <1>1 DEF Init, IdsGiven, IdsNameOneKey, Typed, RowsOfNodes
<1>10. LanesListed
  <2>1. \A p \in Ports : ~ r.want[p].laned
    BY <1>5 DEF IdleRefresh
  <2> QED
    BY <1>2, <1>3, <2>1 DEF LanesListed
<1>11. RowsRenewed
  BY <1>2 DEF RowsRenewed, Renewed
<1> QED
  BY <1>1, <1>2, <1>6, <1>7, <1>8, <1>9, <1>10, <1>11
     DEF IInv, Typed, PlanIsRegistered, CalmRefresh, CalmHealthCheck

LEMMA StepInv == IInv /\ [Next]_vars => IInv'
<1> SUFFICES ASSUME IInv, [Next]_vars PROVE IInv'
  OBVIOUS
<1>1. /\ Typed /\ RefreshTyped /\ HealthTyped /\ TypeOK
      /\ LeftTyped /\ DefaultMirrored /\ IdsGiven /\ LanesListed /\ RowsRenewed
      /\ PlanIsRegistered /\ SelectorsAreRegistered /\ CalmRefresh /\ CalmHealthCheck
  BY DEF IInv, Typed, CallersTyped
<1>2. Typed' /\ LeftTyped' /\ DefaultMirrored' /\ IdsGiven' /\ LanesListed' /\ RowsRenewed'
  BY <1>1, StepTyped, LeftStep, MirrorStep, GivenStep, ListedStep, RenewedStep
<1>3. SUFFICES PlanIsRegistered' /\ SelectorsAreRegistered' /\ CalmRefresh' /\ CalmHealthCheck'
  BY <1>2 DEF IInv, Typed
<1>4. CASE RefreshStep /\ a' = a /\ h' = Noticed(h)
  BY <1>1, <1>4, RefreshKeepsSelectors, RefreshKeepsCalm, NoticedCalmHealth
<1>5. ASSUME HealthStep \/ AdminStep \/ SingBoxExits, r' = Noticed(r)
      PROVE  PlanIsRegistered' /\ SelectorsAreRegistered' /\ CalmRefresh'
  <2>1. PlanIsRegistered'
    BY <1>1, <1>5, OthersKeepNodes, NoticedRefresh DEF PlanIsRegistered
  <2> QED
    BY <1>1, <1>5, <2>1, OthersKeepSelectors, NoticedCalmRefresh
<1>6. CASE HealthStep /\ a' = a /\ r' = Noticed(r)
  BY <1>1, <1>5, <1>6, HealthKeepsHealing
<1>7. CASE AdminStep /\ r' = Noticed(r) /\ h' = Noticed(h)
  BY <1>1, <1>5, <1>7, NoticedCalmHealth
<1>8. CASE SingBoxExits /\ a' = a /\ r' = Noticed(r) /\ h' = Noticed(h)
  BY <1>1, <1>5, <1>8, NoticedCalmHealth
<1>9. CASE Restart
  <2>1. h'.calm = FALSE /\ r'.pc \in {"read", "build"} /\ (r'.pc = "build" => ~ r'.calm)
    BY <1>1, <1>9, RestartTyped
  <2>2. running' = FALSE /\ laneSel' = [p \in Ports |-> NoLanes]
    BY <1>9 DEF Restart
  <2> QED
    BY <2>1, <2>2 DEF PlanIsRegistered, SelectorsAreRegistered, NoLanes, CalmRefresh,
       CalmHealthCheck, Carrying, Reloaded
<1>10. CASE UNCHANGED vars
  <2>1. UNCHANGED <<nodes, nextId, status, portNode, row, lanes, laned, running, tags, sel, laneSel,
                    r, h, given>>
    BY <1>10 DEF vars, db, box
  <2>2. PlanIsRegistered' /\ SelectorsAreRegistered'
    BY <1>1, <2>1 DEF PlanIsRegistered, SelectorsAreRegistered
  <2>3. CalmRefresh'
    <3>1. Carried' = Carried /\ RowsDone' = RowsDone /\ OffDone' = OffDone
      BY <2>1 DEF Carried, RowsDone, OffDone
    <3> QED
      BY <1>1, <2>1, <3>1, CarriedSame DEF CalmRefresh, CarriedOver, Carrying, Reloaded
  <2>4. CalmHealthCheck'
    <3>1. \A p : View(p)' = View(p) /\ Assigned(p)' = Assigned(p)
      BY <2>1 DEF Assigned, View
    <3>2. Unprobed' = Unprobed /\ Healed' = Healed /\ LanesDone' = LanesDone
      BY <2>1 DEF Unprobed, Healed, LanesDone
    <3>3. \A p : (PortHealed(p) => PortHealed(p)') /\ (LanesHealed(p) => LanesHealed(p)')
      BY <2>1, <3>1 DEF PortHealed, LanesHealed
    <3> QED
      BY <1>1, <2>1, <3>1, <3>2, <3>3 DEF CalmHealthCheck, Healing
  <2> QED
    BY <2>2, <2>3, <2>4
<1> QED
  BY <1>4, <1>6, <1>7, <1>8, <1>9, <1>10 DEF Next

\* However the activities overlap, from the first start on.
THEOREM Invariance == Spec => []IInv
<1>1. Init => IInv
  BY InitInv
<1>2. IInv /\ [Next]_vars => IInv'
  BY StepInv
<1> QED
  BY <1>1, <1>2, PTL DEF Spec

-----------------------------------------------------------------------------
(* What follows from it                                                      *)

\* The tables, sing-box and the callers' records are well typed.
THEOREM TypeCorrect == Spec => []TypeOK
<1>1. IInv => TypeOK
  BY DEF IInv
<1> QED
  BY <1>1, Invariance, PTL

\* sing-box never points a port or a lane at a node it has no outbound for.
THEOREM SelectorsRegistered == Spec => []SelectorsAreRegistered
<1>1. IInv => SelectorsAreRegistered
  BY DEF IInv
<1> QED
  BY <1>1, Invariance, PTL

\* If the port has a row for every node, that row alone says whether it is disabled.
LEMMA DisabledAre ==
    ASSUME TypeOK, RowsOfNodes, NEW p \in Ports, DOMAIN nodes \subseteq DOMAIN portNode[p]
    PROVE  DisabledIn(p) = {n \in DOMAIN nodes : portNode[p][n]}
<1>1. DOMAIN nodes \subseteq DOMAIN status /\ DOMAIN nodes \subseteq DOMAIN portNode[p]
  BY DEF RowsOfNodes
<1>2. \A n \in DOMAIN nodes : View(p)[n].disabled = portNode[p][n]
  BY <1>1, ViewIs
<1> QED
  BY <1>1, <1>2 DEF DisabledIn

\* A refresh nobody interferes with carries everything over by source key.
THEOREM CalmRefreshCarries == Spec => []CalmRefreshPreserves
<1>1. ASSUME IInv, r.pc = "done", r.calm, NEW p \in Ports
      PROVE  LET want == r.want[p]
                 now == Range(nodes)
             IN  /\ IF want.key \in now
                    THEN KeyOf(row[p].active) = want.key /\ row[p].mode = want.mode
                    ELSE row[p] = [active |-> Least(DOMAIN nodes), mode |-> "auto"]
                 /\ KeysOf(DisabledIn(p)) = want.off \cap now
                 /\ \A l \in Lanes : want.lanes[l] \in now \ want.off
                                       => KeyOf(lanes[p][l]) = want.lanes[l]
  <2>1. CarriedOver
    BY <1>1 DEF IInv, CalmRefresh, Reloaded
  <2>2. RowKept(p) /\ OffKept(p) /\ LanesKept(p)
    BY <1>1, <2>1 DEF CarriedOver, RowsDone, OffDone, Carried
  <2>3. KeysOf(DisabledIn(p)) = r.want[p].off \cap Range(nodes)
    <3>1. DOMAIN nodes \subseteq DOMAIN portNode[p]
      BY <1>1 DEF IInv, RowsRenewed, Renewed, Reloaded
    <3>2. DisabledIn(p) = {n \in DOMAIN nodes : nodes[n] \in r.want[p].off}
      BY <1>1, <2>2, <3>1, DisabledAre DEF IInv, OffKept
    <3> QED
      BY <3>2 DEF KeysOf, Range
  <2> QED
    BY <2>2, <2>3 DEF RowKept, LanesKept
<1>2. IInv => CalmRefreshPreserves
  BY <1>1 DEF CalmRefreshPreserves
<1> QED
  BY <1>2, Invariance, PTL

\* It leaves sing-box and the registry in agreement.
THEOREM CalmRefreshInAgreement == Spec => []CalmRefreshAgrees
<1>1. ASSUME IInv, r.pc = "done", r.calm
      PROVE  /\ running /\ tags = DOMAIN nodes
             /\ \A p \in Ports : sel[p] = row[p].active
             /\ DOMAIN status = DOMAIN nodes =>
                   \A p \in Ports, l \in Lanes : lanes[p][l] \in tags \cup {NoNode}
  <2>1. CarriedOver
    BY <1>1 DEF IInv, CalmRefresh, Reloaded
  <2> QED
    BY <1>1, <2>1 DEF CarriedOver, Reloaded, LanesIn
<1>2. IInv => CalmRefreshAgrees
  BY <1>1 DEF CalmRefreshAgrees
<1> QED
  BY <1>2, Invariance, PTL

\* sing-box accepts its configuration, whatever was interrupted before it.
THEOREM CalmRefreshAccepted == Spec => []CalmRefreshIsAccepted
<1>1. ASSUME IInv, r.pc = "build", r.calm
      PROVE  PlannedNodes(Plan) \subseteq DOMAIN nodes
  <2>1. CarriedOver
    BY <1>1 DEF IInv, CalmRefresh, Carrying
  <2>2. \A p \in Ports : RowKept(p) /\ LanesIn(p, DOMAIN nodes)
    BY <1>1, <2>1 DEF CarriedOver, RowsDone, Carried, Carrying
  <2>3. ASSUME NEW p \in Ports PROVE row[p].active \in DOMAIN nodes
    <3>1. IsTable(nodes, Keys) /\ DOMAIN nodes # {}
      BY <1>1 DEF IInv, TypeOK, RowsOfNodes
    <3>2. CASE r.want[p].key \in Range(nodes)
      <4>1. KeyOf(row[p].active) = r.want[p].key /\ r.want[p].key \in Keys
        BY <2>2, <3>1, <3>2 DEF RowKept, Range, IsTable
      <4> QED
        BY <3>1, <4>1, KeyOfIs
    <3>3. CASE r.want[p].key \notin Range(nodes)
      BY <2>2, <3>1, <3>3, FirstNodeIs DEF RowKept
    <3> QED
      BY <3>2, <3>3
  <2>4. \A p \in Ports : Plan[p].sel = row[p].active
    BY DEF Plan
  <2>5. \A p \in laned, l \in Lanes : Plan[p].lanes[l] \in DOMAIN nodes
    <3>1. laned \subseteq Ports
      BY <1>1 DEF IInv, TypeOK
    <3> QED
      BY <2>2, <2>3, <3>1 DEF Plan, LanesIn
  <2> QED
    BY <2>3, <2>4, <2>5 DEF PlannedNodes
<1>2. IInv => CalmRefreshIsAccepted
  BY <1>1 DEF CalmRefreshIsAccepted
<1> QED
  BY <1>2, Invariance, PTL

\* A health check nobody interferes with heals every port and every lane.
THEOREM HealthCheckHeals == Spec => []CalmHealthCheckHeals
<1>1. ASSUME IInv, h.pc = "done", h.calm, NEW p \in Ports
      PROVE  LET healthy == Eligible(View(p))
             IN  /\ healthy \subseteq tags
                 /\ healthy # {} => row[p].active \in healthy
                 /\ \A l \in Lanes : lanes[p][l] \in IF healthy # {} THEN healthy ELSE {NoNode}
  <2>1. Healing
    BY <1>1 DEF IInv, CalmHealthCheck
  <2>2. PortHealed(p) /\ LanesHealed(p)
    BY <1>1, <2>1 DEF Healing, Healed, LanesDone
  <2>3. Eligible(View(p)) \subseteq tags
    <3>1. \A n \in Eligible(View(p)) : n \in DOMAIN status /\ status[n].state = "active"
      BY <1>1, ViewIs DEF IInv
    <3> QED
      BY <1>1, <2>1, <3>1 DEF Healing, Unprobed
  <2> QED
    BY <2>2, <2>3 DEF PortHealed, LanesHealed
<1>2. IInv => CalmHealthCheckHeals
  BY <1>1 DEF CalmHealthCheckHeals
<1> QED
  BY <1>2, Invariance, PTL

\* An id is never given to a second key, however many refreshes lie between.
THEOREM IdsKeepKeys == Spec => []IdsNameOneKey
<1>1. IInv => IdsNameOneKey
  BY DEF IInv, IdsGiven
<1> QED
  BY <1>1, Invariance, PTL

\* Where the port has a row for a node, that row says whether it is disabled, and else
\* the default port's does.
LEMMA FlagIs ==
    ASSUME Typed, NEW p \in Ports, NEW n \in DOMAIN nodes
    PROVE  n \in DisabledIn(p) <=> IF n \in DOMAIN portNode[p] THEN portNode[p][n]
                                   ELSE status[n].disabled
BY DEF Typed, RowsOfNodes, DisabledIn, View

LEMMA NextFlagIs ==
    ASSUME Typed', NEW p \in Ports, NEW n \in DOMAIN nodes'
    PROVE  n \in DisabledIn(p)' <=> IF n \in DOMAIN portNode'[p] THEN portNode'[p][n]
                                    ELSE status'[n].disabled
BY DEF Typed, RowsOfNodes, DisabledIn, View

\* A port whose own row for the node is as it was follows the default port, or has not
\* changed at all.
LEMMA RowKeptFollows ==
    ASSUME Typed, Typed', DefaultMirrored, DefaultMirrored', NEW p \in Ports, NEW n \in Flipped(p),
           n \in DOMAIN portNode'[p] <=> n \in DOMAIN portNode[p],
           n \in DOMAIN portNode[p] => portNode'[p][n] = portNode[p][n]
    PROVE  n \in Follows(p) /\ n \in Flipped(Default)
<1>1. n \in DOMAIN nodes /\ n \in DOMAIN nodes' /\ (n \in DisabledIn(p)) # (n \in DisabledIn(p)')
  BY DEF Flipped
<1>2. n \notin DOMAIN portNode[p] /\ n \notin DOMAIN portNode'[p]
  BY <1>1, FlagIs, NextFlagIs
<1>3. ~ (status[n].disabled <=> status'[n].disabled)
  BY <1>1, <1>2, FlagIs, NextFlagIs
<1>4. n \in DisabledIn(Default) <=> status[n].disabled
  BY <1>1, FlagIs, PortsAssumption DEF DefaultMirrored
<1>5. n \in DisabledIn(Default)' <=> status'[n].disabled
  BY <1>1, NextFlagIs, PortsAssumption DEF DefaultMirrored
<1> QED
  BY <1>1, <1>2, <1>3, <1>4, <1>5 DEF Follows, Flipped

\* A node is disabled or enabled for a port by that port's request, by a refresh at
\* that port or, on the default port, by a health check; or else the port is newly
\* listed, or has no row for the node and follows the default port.
THEOREM DisablingPerPort == Spec => DisablingIsPerPort
<1>1. IInv /\ IInv' /\ [Next]_vars => [DisabledByItsPort]_vars
  <2> SUFFICES ASSUME IInv, IInv', [Next]_vars, NEW p \in Ports, NEW n \in Flipped(p)
               PROVE  \/ a.pc = "commit" /\ a.port = p /\ a.node = n
                      \/ r.pc = "disable" /\ r.port = p
                      \/ h.pc = "probe" /\ p = Default
                      \/ n \in Follows(p) /\ n \in Flipped(Default)
                      \/ p # Default /\ Follows(p)' = DOMAIN nodes' /\ left'.restart < left.restart
    BY DEF DisabledByItsPort
  <2>1. Typed /\ Typed' /\ DefaultMirrored /\ DefaultMirrored' /\ DOMAIN portNode = Ports
    BY DEF IInv, Typed, TypeOK
  <2>2. CASE portNode'[p] = portNode[p]
    BY <2>1, <2>2, RowKeptFollows
  <2>3. ASSUME NEW list \in Lists, RefreshReplaceNodes(list)
        PROVE  FALSE
    <3>1. nextId \in Nat /\ n \in Nat /\ n < nextId
      BY <2>1 DEF Typed, TypeOK, RowsOfNodes, IsTable, Ids, Flipped
    <3>2. nextId <= n
      BY <2>1, <2>3, ReplacedNodes DEF Flipped
    <3> QED
      BY <3>1, <3>2
  <2>4. CASE RefreshDisables
    <3>1. r.pc = "disable" /\ (p # r.port => portNode'[p] = portNode[p])
      BY <2>1, <2>4 DEF RefreshDisables
    <3> QED
      BY <2>2, <3>1
  <2>5. CASE \E up \in BOOLEAN : HealthProbe(up)
    <3>1. h.pc = "probe" /\ (p # Default => portNode'[p] = portNode[p])
      BY <2>1, <2>5 DEF HealthProbe
    <3> QED
      BY <2>2, <3>1
  <2>6. CASE DisableCommit
    <3>1. \/ UNCHANGED portNode
          \/ portNode' = [portNode EXCEPT ![a.port] = Upsert(@, a.node, a.op = "disable")]
      BY <2>6 DEF DisableCommit
    <3>2. CASE p = a.port /\ ~ UNCHANGED portNode
      <4>1. portNode'[p] = Upsert(portNode[p], a.node, a.op = "disable")
        BY <2>1, <3>1, <3>2
      <4>2. CASE n # a.node
        <5>1. /\ n \in DOMAIN portNode'[p] <=> n \in DOMAIN portNode[p]
              /\ n \in DOMAIN portNode[p] => portNode'[p][n] = portNode[p][n]
          BY <4>1, <4>2 DEF Upsert
        <5> QED
          BY <2>1, <5>1, RowKeptFollows
      <4> QED
        BY <2>6, <3>2, <4>2 DEF DisableCommit
    <3>3. p # a.port \/ UNCHANGED portNode => portNode'[p] = portNode[p]
      BY <2>1, <3>1
    <3> QED
      BY <2>2, <3>2, <3>3
  <2>7. CASE Restart
    <3>1. PICK fresh \in SUBSET (Ports \ {Default}) :
            portNode' = [q \in Ports |-> IF q \in fresh THEN NoRows ELSE portNode[q]]
      BY <2>7 DEF Restart, Relisted
    <3>2. CASE p \notin fresh
      BY <2>2, <3>1, <3>2
    <3>3. CASE p \in fresh
      <4>1. portNode'[p] = NoRows
        BY <3>1, <3>3
      <4>2. Follows(p)' = DOMAIN nodes'
        BY <4>1 DEF Follows, NoRows
      <4>3. left'.restart < left.restart
        BY <2>7 DEF Restart, IInv, LeftTyped
      <4> QED
        BY <3>3, <4>2, <4>3
    <3> QED
      BY <3>2, <3>3
  <2>8. CASE UNCHANGED <<nodes, status, portNode>>
    BY <2>2, <2>8
  <2> QED
    BY <2>3, <2>4, <2>5, <2>6, <2>7, <2>8, WhoWritesFlags
<1> QED
  BY <1>1, Invariance, PTL DEF Spec, DisablingIsPerPort
=============================================================================
