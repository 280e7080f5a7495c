------------------------- MODULE ConnectionsProofs -------------------------
(***************************************************************************)
(* Proofs about Connections for any devices, any number of connections and *)
(* any bounds.                                                             *)
(***************************************************************************)
EXTENDS Connections, TLAPS

Ends == [Conns -> [Devices -> End]]
ConnTable == [Conns -> Connection]

\* A connection that is in use joins two different devices.
Joins(cn) ==
  \A c \in Conns :
    \/ cn[c] = Idle
    \/ cn[c].from \in Devices /\ cn[c].to \in Devices /\ cn[c].from # cn[c].to

TypeInv == TypeOK /\ Joins(conn)

----------------------------------------------------------------------------
(* What the actor does to tasks keeps the types. *)

LEMMA NoEndType == NoEnd \in End
  BY DEF NoEnd, End, EndStates

\* Close, Abort, Taken and Ended change an end of a connection and no more.
LEMMA CloseType ==
  ASSUME NEW e \in Ends, NEW c \in Conns \cup {NoConn}, NEW d \in Devices,
         NEW r \in Reasons
  PROVE  Close(e, c, d, r) \in Ends
<1>1. CASE c # NoConn /\ e[c][d].st = "open" /\ e[c][d].reason = "none"
  <2> DEFINE x == [e[c][d] EXCEPT !.reason = r]
  <2>1. c \in Conns BY <1>1
  <2>2. e[c][d] \in End BY <2>1 DEF Ends
  <2>3. x \in End BY <2>2 DEF End
  <2>4. Close(e, c, d, r) = [e EXCEPT ![c][d] = x] BY <1>1 DEF Close
  <2> HIDE DEF x
  <2> QED BY <2>1, <2>3, <2>4 DEF Ends
<1>2. CASE ~(c # NoConn /\ e[c][d].st = "open" /\ e[c][d].reason = "none")
  BY <1>2 DEF Close
<1> QED BY <1>1, <1>2

LEMMA AbortType ==
  ASSUME NEW e \in Ends, NEW c \in Conns \cup {NoConn}, NEW d \in Devices
  PROVE  Abort(e, c, d) \in Ends
  BY NoEndType DEF Abort, Ends

LEMMA TakenType ==
  ASSUME NEW e \in Ends, NEW c \in Conns, NEW d \in Devices
  PROVE  Taken(e, c, d) \in Ends
<1> DEFINE x == [e[c][d] EXCEPT !.st = IF @ = "est" THEN "open" ELSE "closed"]
<1>1. e[c][d] \in End BY DEF Ends
<1>2. x \in End BY <1>1 DEF End, EndStates
<1>3. Taken(e, c, d) = [e EXCEPT ![c][d] = x] BY DEF Taken
<1> HIDE DEF x
<1> QED BY <1>2, <1>3 DEF Ends

LEMMA EndedType ==
  ASSUME NEW e \in Ends, NEW c \in Conns, NEW d \in Devices,
         NEW r \in Reasons \cup {"none"}
  PROVE  Ended(e, c, d, r) \in Ends
<1> DEFINE st == IF e[c][d].st = "est" THEN "estclosed" ELSE "closed"
           x == [e[c][d] EXCEPT !.st = st]
           y == [x EXCEPT !.reason = r]
           f == [e EXCEPT ![c][d] = x]
<1>1. e[c][d] \in End BY DEF Ends
<1>2. x \in End BY <1>1 DEF End, EndStates
<1>3. y \in End BY <1>2 DEF End
<1>4. f \in Ends
  <2> HIDE DEF x
  <2> QED BY <1>2 DEF Ends
<1>5. f[c][d] = x BY DEF Ends
<1>6. Ended(e, c, d, r) = [f EXCEPT ![c][d] = y] BY <1>5 DEF Ended
<1> HIDE DEF f, y
<1> QED BY <1>3, <1>4, <1>6 DEF Ends

LEMMA IdleType == Idle \in Connection
  BY DEF Idle, Connection

\* Giving slots back keeps the table well formed.
LEMMA ReclaimType ==
  ASSUME NEW cn \in ConnTable, NEW e, Joins(cn)
  PROVE  Reclaim(cn, e) \in ConnTable /\ Joins(Reclaim(cn, e))
  BY IdleType DEF Reclaim, ConnTable, Joins

\* The device at the other end of one of d's connections.
LEMMA PeerType ==
  ASSUME Joins(conn), NEW c \in Conns, NEW d \in Devices,
         d \in {conn[c].from, conn[c].to}
  PROVE  Peer(c, d) \in Devices /\ Peer(c, d) # d /\ ~Free(c)
  BY DevicesAssumption DEF Joins, Peer, Free, Idle, NoDevice

\* One field of an end or of a connection changes.
SetSt(e, c, d, x) == [e EXCEPT ![c][d].st = x]
SetBye(e, c, d, x) == [e EXCEPT ![c][d].bye = x]
SetEnd(e, c, d, x) == [e EXCEPT ![c][d] = x]
AddHello(cn, c, d) == [cn EXCEPT ![c].hello = @ \cup {d}]
SetAccepted(cn, c) == [cn EXCEPT ![c].accepted = TRUE]
SetCut(cn, c) == [cn EXCEPT ![c].cut = TRUE]
AddTicket(cn, c, d) == [cn EXCEPT ![c].ticket = @ \cup {d}]

LEMMA SetStType ==
  ASSUME NEW e \in Ends, NEW c \in Conns, NEW d \in Devices, NEW x \in EndStates
  PROVE  SetSt(e, c, d, x) \in Ends
<1> DEFINE y == [e[c][d] EXCEPT !.st = x]
<1>1. e[c][d] \in End BY DEF Ends
<1>2. y \in End BY <1>1 DEF End
<1>3. SetSt(e, c, d, x) = [e EXCEPT ![c][d] = y] BY DEF SetSt
<1> HIDE DEF y
<1> QED BY <1>2, <1>3 DEF Ends

LEMMA SetByeType ==
  ASSUME NEW e \in Ends, NEW c \in Conns, NEW d \in Devices,
         NEW x \in Reasons \cup {"none"}
  PROVE  SetBye(e, c, d, x) \in Ends
<1> DEFINE y == [e[c][d] EXCEPT !.bye = x]
<1>1. e[c][d] \in End BY DEF Ends
<1>2. y \in End BY <1>1 DEF End
<1>3. SetBye(e, c, d, x) = [e EXCEPT ![c][d] = y] BY DEF SetBye
<1> HIDE DEF y
<1> QED BY <1>2, <1>3 DEF Ends

LEMMA SetEndType ==
  ASSUME NEW e \in Ends, NEW c \in Conns, NEW d \in Devices, NEW x \in End
  PROVE  SetEnd(e, c, d, x) \in Ends
  BY DEF Ends, SetEnd

LEMMA AddHelloType ==
  ASSUME NEW cn \in ConnTable, NEW c \in Conns, NEW d \in Devices,
         Joins(cn), cn[c] # Idle
  PROVE  AddHello(cn, c, d) \in ConnTable /\ Joins(AddHello(cn, c, d))
<1> DEFINE y == [cn[c] EXCEPT !.hello = @ \cup {d}]
<1>1. cn[c] \in Connection BY DEF ConnTable
<1>2. y \in Connection /\ y.from = cn[c].from /\ y.to = cn[c].to
  BY <1>1 DEF Connection
<1>3. AddHello(cn, c, d) = [cn EXCEPT ![c] = y] BY DEF AddHello
<1> HIDE DEF y
<1> QED BY <1>2, <1>3 DEF ConnTable, Joins

LEMMA AddTicketType ==
  ASSUME NEW cn \in ConnTable, NEW c \in Conns, NEW d \in Devices,
         Joins(cn), cn[c] # Idle
  PROVE  AddTicket(cn, c, d) \in ConnTable /\ Joins(AddTicket(cn, c, d))
<1> DEFINE y == [cn[c] EXCEPT !.ticket = @ \cup {d}]
<1>1. cn[c] \in Connection BY DEF ConnTable
<1>2. y \in Connection /\ y.from = cn[c].from /\ y.to = cn[c].to
  BY <1>1 DEF Connection
<1>3. AddTicket(cn, c, d) = [cn EXCEPT ![c] = y] BY DEF AddTicket
<1> HIDE DEF y
<1> QED BY <1>2, <1>3 DEF ConnTable, Joins

LEMMA SetAcceptedType ==
  ASSUME NEW cn \in ConnTable, NEW c \in Conns, Joins(cn), cn[c] # Idle
  PROVE  SetAccepted(cn, c) \in ConnTable /\ Joins(SetAccepted(cn, c))
<1> DEFINE y == [cn[c] EXCEPT !.accepted = TRUE]
<1>1. cn[c] \in Connection BY DEF ConnTable
<1>2. y \in Connection /\ y.from = cn[c].from /\ y.to = cn[c].to
  BY <1>1 DEF Connection
<1>3. SetAccepted(cn, c) = [cn EXCEPT ![c] = y] BY DEF SetAccepted
<1> HIDE DEF y
<1> QED BY <1>2, <1>3 DEF ConnTable, Joins

LEMMA SetCutType ==
  ASSUME NEW cn \in ConnTable, NEW c \in Conns, Joins(cn), cn[c] # Idle
  PROVE  SetCut(cn, c) \in ConnTable /\ Joins(SetCut(cn, c))
<1> DEFINE y == [cn[c] EXCEPT !.cut = TRUE]
<1>1. cn[c] \in Connection BY DEF ConnTable
<1>2. y \in Connection /\ y.from = cn[c].from /\ y.to = cn[c].to
  BY <1>1 DEF Connection
<1>3. SetCut(cn, c) = [cn EXCEPT ![c] = y] BY DEF SetCut
<1> HIDE DEF y
<1> QED BY <1>2, <1>3 DEF ConnTable, Joins

----------------------------------------------------------------------------
(* Types. *)

\* What the type invariant says in the terms of the lemmas above.
LEMMA TypeFacts ==
  ASSUME TypeInv
  PROVE  /\ ends \in Ends /\ conn \in ConnTable /\ Joins(conn) /\ TypeOK
         /\ \A c \in Conns : \A d \in Devices : ends[c][d] \in End
         /\ \A c \in Conns : \A d \in Devices :
              ends[c][d].reason \in Reasons \cup {"none"}
         /\ \A c \in Conns : \A d \in Devices :
              ends[c][d].bye \in Reasons \cup {"none"}
         /\ \A c \in Conns : ~Free(c) =>
              /\ conn[c].from \in Devices /\ conn[c].to \in Devices
              /\ conn[c].from # conn[c].to
<1>1. ends \in Ends /\ conn \in ConnTable /\ Joins(conn) /\ TypeOK
  BY DEF TypeInv, TypeOK, Ends, ConnTable
<1>2. \A c \in Conns : \A d \in Devices : ends[c][d] \in End
  BY <1>1 DEF Ends
<1> QED BY <1>1, <1>2 DEF End, Free, Joins

\* The types of everything but the connections and their ends.
TablesOK ==
  /\ trusted \in [Devices -> SUBSET Devices]
  /\ blocked \in [Devices -> SUBSET Devices]
  /\ auto \in [Devices -> SUBSET Devices]
  /\ addr \in [Devices -> SUBSET Devices]
  /\ inFlight \in [Devices -> SUBSET Devices]
  /\ waiting \in [Devices -> SUBSET Devices]
  /\ task \in [Devices -> [Devices -> Conns \cup {NoConn}]]
  /\ targets \in [Devices -> SUBSET Conns]
  /\ session \in [Devices -> [Devices -> Conns \cup {NoConn}]]
  /\ fresh \in [Devices -> SUBSET Devices]
  /\ index \in [Devices -> SUBSET Conns]
  /\ unpaired \in [Devices -> SUBSET Conns]
  /\ faults \in Nat /\ commands \in Nat

LEMMA TypeParts ==
  TypeInv <=> TablesOK /\ ends \in Ends /\ conn \in ConnTable /\ Joins(conn)
  BY DEF TypeInv, TypeOK, TablesOK, Ends, ConnTable

LEMMA TypePartsNext ==
  ASSUME TablesOK', ends' \in Ends, conn' \in ConnTable, Joins(conn')
  PROVE  TypeInv'
  BY DEF TypeInv, TypeOK, TablesOK, Ends, ConnTable

\* Types and the shape of connections hold at the start.
LEMMA TypeInit == Init => TypeInv
<1> SUFFICES ASSUME Init PROVE TypeInv
  OBVIOUS
<1>1. /\ task \in [Devices -> [Devices -> Conns \cup {NoConn}]]
      /\ session \in [Devices -> [Devices -> Conns \cup {NoConn}]]
  BY DEF Init
<1>3. /\ addr \in [Devices -> SUBSET Devices]
      /\ trusted \in [Devices -> SUBSET Devices]
      /\ auto \in [Devices -> SUBSET Devices]
  BY DEF Init, Others
<1>4. /\ blocked \in [Devices -> SUBSET Devices]
      /\ inFlight \in [Devices -> SUBSET Devices]
      /\ waiting \in [Devices -> SUBSET Devices]
      /\ fresh \in [Devices -> SUBSET Devices]
  BY DEF Init
<1>5. /\ targets \in [Devices -> SUBSET Conns]
      /\ index \in [Devices -> SUBSET Conns]
      /\ unpaired \in [Devices -> SUBSET Conns]
      /\ faults \in Nat /\ commands \in Nat
  BY DEF Init
<1>2. ends \in Ends /\ conn \in ConnTable /\ Joins(conn)
  BY NoEndType, IdleType DEF Init, Ends, ConnTable, Joins
<1> QED BY <1>1, <1>2, <1>3, <1>4, <1>5, TypeParts DEF TablesOK

\* Dialing keeps them.
LEMMA DialType ==
  ASSUME TypeInv, NEW d \in Devices, NEW p \in Devices \ {d},
         NEW w \in SUBSET Devices, Dial(d, p, w)
  PROVE  /\ inFlight' \in [Devices -> SUBSET Devices]
         /\ waiting' \in [Devices -> SUBSET Devices]
         /\ task' \in [Devices -> [Devices -> Conns \cup {NoConn}]]
         /\ targets' \in [Devices -> SUBSET Conns]
         /\ ends' \in Ends /\ conn' \in ConnTable /\ Joins(conn')
<1> USE TypeFacts
<1>0. TablesOK BY TypeParts
<1>1. CASE p \notin addr[d]
  <2>1. /\ waiting' = [waiting EXCEPT ![d] = w \cup {p}]
        /\ UNCHANGED <<inFlight, task, targets, conn, ends>>
    BY <1>1 DEF Dial
  <2> QED BY <1>0, <2>1 DEF TablesOK
<1>2. CASE p \in addr[d]
  <2> DEFINE x == [from |-> d, to |-> p, accepted |-> FALSE, cut |-> FALSE,
                   hello |-> {}, ticket |-> {}]
             y == [NoEnd EXCEPT !.st = "racing"]
  <2>1. PICK c \in Conns :
          /\ conn' = [conn EXCEPT ![c] = x]
          /\ ends' = SetEnd(ends, c, d, y)
          /\ task' = [task EXCEPT ![d][p] = c]
          /\ targets' = [targets EXCEPT ![d] = @ \cup {c}]
    BY <1>2 DEF Dial, SetEnd
  <2>2. x \in Connection /\ x.from = d /\ x.to = p BY DEF Connection
  <2>3. y \in End BY DEF NoEnd, End, EndStates
  <2>4. /\ inFlight' = [inFlight EXCEPT ![d] = @ \cup {p}]
        /\ waiting' = [waiting EXCEPT ![d] = w]
    BY <1>2 DEF Dial
  <2> HIDE DEF x, y
  <2>5. ends' \in Ends BY <2>1, <2>3, SetEndType
  <2>6. conn' \in ConnTable /\ Joins(conn')
    BY <2>1, <2>2 DEF ConnTable, Joins
  <2> QED BY <1>0, <2>1, <2>4, <2>5, <2>6 DEF TablesOK
<1> QED BY <1>1, <1>2

LEMMA CancelDialType ==
  ASSUME TablesOK, NEW d \in Devices, NEW p \in Devices, CancelDial(d, p)
  PROVE  /\ inFlight' \in [Devices -> SUBSET Devices]
         /\ task' \in [Devices -> [Devices -> Conns \cup {NoConn}]]
         /\ targets' \in [Devices -> SUBSET Conns]
  BY DEF CancelDial, TablesOK

LEMMA DropSessionType ==
  ASSUME TablesOK, NEW d \in Devices, NEW p \in Devices, DropSession(d, p)
  PROVE  /\ session' \in [Devices -> [Devices -> Conns \cup {NoConn}]]
         /\ fresh' \in [Devices -> SUBSET Devices]
         /\ index' \in [Devices -> SUBSET Conns]
  BY DEF DropSession, TablesOK

LEMMA CutOffType ==
  ASSUME TypeInv, NEW d \in Devices, NEW p \in Devices, NEW r \in Reasons,
         CutOff(d, p, r)
  PROVE  /\ inFlight' \in [Devices -> SUBSET Devices]
         /\ task' \in [Devices -> [Devices -> Conns \cup {NoConn}]]
         /\ targets' \in [Devices -> SUBSET Conns]
         /\ waiting' \in [Devices -> SUBSET Devices]
         /\ session' \in [Devices -> [Devices -> Conns \cup {NoConn}]]
         /\ fresh' \in [Devices -> SUBSET Devices]
         /\ index' \in [Devices -> SUBSET Conns]
         /\ ends' \in Ends /\ conn' \in ConnTable /\ Joins(conn')
<1>1. TablesOK /\ ends \in Ends /\ conn \in ConnTable /\ Joins(conn)
  BY TypeParts
<1>2. /\ session[d][p] \in Conns \cup {NoConn}
      /\ task[d][p] \in Conns \cup {NoConn}
  BY <1>1 DEF TablesOK
<1>3. ends' \in Ends
  BY <1>1, <1>2, CloseType, AbortType DEF CutOff
<1>4. conn' \in ConnTable /\ Joins(conn')
  BY <1>1, ReclaimType DEF CutOff
<1>5. waiting' \in [Devices -> SUBSET Devices]
  BY <1>1 DEF CutOff, TablesOK
<1> QED
  BY <1>1, <1>3, <1>4, <1>5, CancelDialType, DropSessionType DEF CutOff

\* Every step of the engine's own timers keeps the types.
LEMMA DeviceStepType ==
  ASSUME TypeInv, NEW d \in Devices, DeviceStep(d)
  PROVE  TypeInv'
<1>0. TablesOK /\ ends \in Ends /\ conn \in ConnTable /\ Joins(conn)
  BY TypeParts
<1>1. ASSUME NEW p \in Others(d), TickAutoConnect(d, p) PROVE TypeInv'
  <2>1. p \in Devices \ {d} /\ waiting[d] \in SUBSET Devices
    BY <1>0 DEF Others, TablesOK
  <2>2. /\ inFlight' \in [Devices -> SUBSET Devices]
        /\ waiting' \in [Devices -> SUBSET Devices]
        /\ task' \in [Devices -> [Devices -> Conns \cup {NoConn}]]
        /\ targets' \in [Devices -> SUBSET Conns]
        /\ ends' \in Ends /\ conn' \in ConnTable /\ Joins(conn')
    BY <1>1, <2>1, DialType DEF TickAutoConnect
  <2>3. UNCHANGED <<trustVars, addr, sessVars, bounds>>
    BY <1>1 DEF TickAutoConnect
  <2>4. TablesOK'
    BY <1>0, <2>2, <2>3 DEF TablesOK, trustVars, sessVars, bounds
  <2> QED BY <2>2, <2>4, TypePartsNext
<1>2. ASSUME NEW p \in Others(d), BackoffElapses(d, p) PROVE TypeInv'
  <2>1. TablesOK' /\ UNCHANGED <<ends, conn>>
    BY <1>0, <1>2 DEF BackoffElapses, TablesOK, trustVars, sessVars, bounds
  <2> QED BY <1>0, <2>1, TypePartsNext
<1>3. ASSUME NEW p \in Others(d), SessionAges(d, p) PROVE TypeInv'
  <2>1. TablesOK' /\ UNCHANGED <<ends, conn>>
    BY <1>0, <1>3 DEF SessionAges, TablesOK, trustVars, dialVars, bounds
  <2> QED BY <1>0, <2>1, TypePartsNext
<1>4. ASSUME NEW c \in Conns, UnpairedExpires(c, d) PROVE TypeInv'
  <2>1. TablesOK'
    BY <1>0, <1>4 DEF UnpairedExpires, TablesOK, trustVars, dialVars, bounds
  <2>2. ends' \in Ends
    BY <1>0, <1>4, CloseType DEF UnpairedExpires, Reasons
  <2>3. conn' = conn
    BY <1>4 DEF UnpairedExpires
  <2> QED BY <1>0, <2>1, <2>2, <2>3, TypePartsNext
<1> QED BY <1>1, <1>2, <1>3, <1>4 DEF DeviceStep

\* Every command of a user keeps the types.
LEMMA UserStepType ==
  ASSUME TypeInv, NEW d \in Devices, UserStep(d)
  PROVE  TypeInv'
<1>0. TablesOK /\ ends \in Ends /\ conn \in ConnTable /\ Joins(conn)
  BY TypeParts
<1>1. ASSUME NEW p \in Others(d), Connect(d, p) PROVE TypeInv'
  <2>0. /\ UNCHANGED <<trustVars, addr, sessVars, faults>>
        /\ commands' = commands + 1
    BY <1>1 DEF Connect, Commanded
  <2>1. CASE MayDial(d, p) /\ Dial(d, p, waiting[d] \ {p})
    <3>1. p \in Devices \ {d} /\ (waiting[d] \ {p}) \in SUBSET Devices
      BY <1>0 DEF Others, TablesOK
    <3>2. /\ inFlight' \in [Devices -> SUBSET Devices]
          /\ waiting' \in [Devices -> SUBSET Devices]
          /\ task' \in [Devices -> [Devices -> Conns \cup {NoConn}]]
          /\ targets' \in [Devices -> SUBSET Conns]
          /\ ends' \in Ends /\ conn' \in ConnTable /\ Joins(conn')
      BY <2>1, <3>1, DialType
    <3>3. TablesOK'
      BY <1>0, <2>0, <3>2 DEF TablesOK, trustVars, sessVars
    <3> QED BY <3>2, <3>3, TypePartsNext
  <2>2. CASE ~MayDial(d, p)
    <3>1. /\ waiting' = [waiting EXCEPT ![d] = @ \ {p}]
          /\ UNCHANGED <<inFlight, task, targets, conn, ends>>
      BY <1>1, <2>2 DEF Connect
    <3>2. TablesOK'
      BY <1>0, <2>0, <3>1 DEF TablesOK, trustVars, sessVars
    <3> QED BY <1>0, <3>1, <3>2, TypePartsNext
  <2> QED BY <1>1, <2>1, <2>2 DEF Connect
<1>2. ASSUME NEW p \in Others(d), NEW r \in Reasons, CutOff(d, p, r),
             trusted' \in [Devices -> SUBSET Devices],
             blocked' \in [Devices -> SUBSET Devices],
             auto' \in [Devices -> SUBSET Devices],
             UNCHANGED <<addr, unpaired, faults>>, commands' = commands + 1
      PROVE TypeInv'
  <2>1. p \in Devices
    BY DEF Others
  <2>2. /\ inFlight' \in [Devices -> SUBSET Devices]
        /\ task' \in [Devices -> [Devices -> Conns \cup {NoConn}]]
        /\ targets' \in [Devices -> SUBSET Conns]
        /\ waiting' \in [Devices -> SUBSET Devices]
        /\ session' \in [Devices -> [Devices -> Conns \cup {NoConn}]]
        /\ fresh' \in [Devices -> SUBSET Devices]
        /\ index' \in [Devices -> SUBSET Conns]
        /\ ends' \in Ends /\ conn' \in ConnTable /\ Joins(conn')
    BY <1>2, <2>1, CutOffType
  <2>3. TablesOK'
    BY <1>0, <1>2, <2>2 DEF TablesOK
  <2> QED BY <2>2, <2>3, TypePartsNext
<1>3. ASSUME NEW p \in Others(d), Disconnect(d, p) PROVE TypeInv'
  <2>1. /\ CutOff(d, p, "UserStopped") /\ "UserStopped" \in Reasons
        /\ UNCHANGED <<trusted, blocked, addr, unpaired, faults>>
        /\ commands' = commands + 1
        /\ auto' = [auto EXCEPT ![d] = @ \ {p}]
    BY <1>3 DEF Disconnect, Commanded, Reasons
  <2>2. /\ trusted' \in [Devices -> SUBSET Devices]
        /\ blocked' \in [Devices -> SUBSET Devices]
        /\ auto' \in [Devices -> SUBSET Devices]
    BY <1>0, <2>1 DEF TablesOK
  <2> QED BY <1>2, <2>1, <2>2
<1>4. ASSUME NEW p \in Others(d), ForgetDevice(d, p) PROVE TypeInv'
  <2>1. /\ CutOff(d, p, "PermissionRevoked") /\ "PermissionRevoked" \in Reasons
        /\ UNCHANGED <<addr, unpaired, faults>>
        /\ commands' = commands + 1
        /\ trusted' = [trusted EXCEPT ![d] = @ \ {p}]
        /\ blocked' = [blocked EXCEPT ![d] = @ \ {p}]
        /\ auto' = [auto EXCEPT ![d] = @ \ {p}]
    BY <1>4 DEF ForgetDevice, Commanded, Reasons
  <2>2. /\ trusted' \in [Devices -> SUBSET Devices]
        /\ blocked' \in [Devices -> SUBSET Devices]
        /\ auto' \in [Devices -> SUBSET Devices]
    BY <1>0, <2>1 DEF TablesOK
  <2> QED BY <1>2, <2>1, <2>2
<1>5. ASSUME NEW p \in Others(d), NEW on \in BOOLEAN, SetBlocked(d, p, on)
      PROVE TypeInv'
  <2>1. /\ UNCHANGED <<trusted, auto, addr, unpaired, faults>>
        /\ commands' = commands + 1
        /\ blocked' = [blocked EXCEPT ![d] =
                         IF on /\ p \in trusted[d] THEN @ \cup {p}
                                                   ELSE @ \ {p}]
    BY <1>5 DEF SetBlocked, Commanded
  <2>2. p \in Devices
    BY DEF Others
  <2>3. /\ trusted' \in [Devices -> SUBSET Devices]
        /\ blocked' \in [Devices -> SUBSET Devices]
        /\ auto' \in [Devices -> SUBSET Devices]
    BY <1>0, <2>1, <2>2 DEF TablesOK
  <2>4. CASE CutOff(d, p, "PermissionRevoked")
    BY <1>2, <2>1, <2>3, <2>4 DEF Reasons
  <2>5. CASE UNCHANGED <<dialVars, session, fresh, index, conn, ends>>
    <3>1. TablesOK'
      BY <1>0, <2>1, <2>3, <2>5 DEF TablesOK, dialVars
    <3> QED BY <1>0, <2>5, <3>1, TypePartsNext
  <2> QED BY <1>5, <2>4, <2>5 DEF SetBlocked
<1>6. ASSUME NEW p \in Others(d), NEW on \in BOOLEAN, SetAutoConnect(d, p, on)
      PROVE TypeInv'
  <2>1. TablesOK' /\ UNCHANGED <<ends, conn>>
    BY <1>0, <1>6
       DEF SetAutoConnect, Commanded, Others, TablesOK, dialVars, sessVars
  <2> QED BY <1>0, <2>1, TypePartsNext
<1>7. ASSUME NetworkChanged(d) PROVE TypeInv'
  <2>1. TablesOK' /\ UNCHANGED <<ends, conn>>
    BY <1>0, <1>7
       DEF NetworkChanged, Commanded, TablesOK, trustVars, sessVars
  <2> QED BY <1>0, <2>1, TypePartsNext
<1> QED BY <1>1, <1>3, <1>4, <1>5, <1>6, <1>7 DEF UserStep

\* What the network and crashes do keeps the types.
LEMMA NetworkStepType ==
  ASSUME TypeInv, NetworkStep
  PROVE  TypeInv'
<1>0. TablesOK /\ ends \in Ends /\ conn \in ConnTable /\ Joins(conn)
  BY TypeParts
<1>1. ASSUME NEW d \in Devices, Crash(d) PROVE TypeInv'
  <2>1. TablesOK'
    BY <1>0, <1>1 DEF Crash, TablesOK, trustVars
  <2>2. ends' \in Ends
    BY <1>0, <1>1, NoEndType DEF Crash, Ends
  <2> DEFINE cn == [c \in Conns |-> IF d \in {conn[c].from, conn[c].to}
                                    THEN [conn[c] EXCEPT !.cut = TRUE]
                                    ELSE conn[c]]
  <2>3. ASSUME NEW c \in Conns
        PROVE  /\ cn[c] \in Connection
               /\ cn[c].from = conn[c].from /\ cn[c].to = conn[c].to
               /\ cn[c] = Idle \/ conn[c] # Idle
    <3>1. conn[c] \in Connection BY <1>0 DEF ConnTable
    <3>2. CASE d \in {conn[c].from, conn[c].to}
      <4>1. conn[c] # Idle BY <3>2, DevicesAssumption DEF Idle, NoDevice
      <4> QED BY <3>1, <3>2, <4>1 DEF Connection
    <3>3. CASE d \notin {conn[c].from, conn[c].to}
      BY <3>1, <3>3
    <3> QED BY <3>2, <3>3
  <2>4. cn \in ConnTable
    BY <2>3 DEF ConnTable
  <2>5. Joins(cn)
    <3> HIDE DEF cn
    <3> QED BY <1>0, <2>3 DEF Joins
  <2>6. conn' = Reclaim(cn, ends')
    BY <1>1 DEF Crash
  <2> HIDE DEF cn
  <2>7. conn' \in ConnTable /\ Joins(conn')
    BY <2>4, <2>5, <2>6, ReclaimType
  <2> QED BY <2>1, <2>2, <2>7, TypePartsNext
<1>2. ASSUME NEW d \in Devices, NEW p \in Others(d), DiscoveryUpdated(d, p)
      PROVE TypeInv'
  <2>1. TablesOK' /\ UNCHANGED <<ends, conn>>
    BY <1>0, <1>2
       DEF DiscoveryUpdated, Others, TablesOK, trustVars, sessVars, bounds
  <2> QED BY <1>0, <2>1, TypePartsNext
<1>3. ASSUME NEW d \in Devices, NEW p \in Others(d), AddressLost(d, p)
      PROVE TypeInv'
  <2>1. TablesOK' /\ UNCHANGED <<ends, conn>>
    BY <1>0, <1>3 DEF AddressLost, TablesOK, trustVars, dialVars, sessVars
  <2> QED BY <1>0, <2>1, TypePartsNext
<1>4. ASSUME NEW c \in Conns, Cut(c) PROVE TypeInv'
  <2>1. TablesOK' /\ UNCHANGED ends
    BY <1>0, <1>4 DEF Cut, TablesOK, trustVars, dialVars, sessVars
  <2>2. conn' = SetCut(conn, c) /\ conn[c] # Idle
    BY <1>4 DEF Cut, SetCut, Free
  <2>3. conn' \in ConnTable /\ Joins(conn')
    BY <1>0, <2>2, SetCutType
  <2> QED BY <1>0, <2>1, <2>3, TypePartsNext
<1> QED BY <1>1, <1>2, <1>3, <1>4 DEF NetworkStep

\* A step of a connection's tasks and of the events they queue keeps the types.
LEMMA EndStepType ==
  ASSUME TypeInv, NEW c \in Conns, NEW d \in Devices, EndStep(c, d)
  PROVE  TypeInv'
<1>0. TablesOK /\ ends \in Ends /\ conn \in ConnTable /\ Joins(conn)
  BY TypeParts
<1>1. d \in {conn[c].from, conn[c].to}
  BY DEF EndStep
<1>2. Peer(c, d) \in Devices /\ Peer(c, d) # d /\ ~Free(c)
  BY <1>0, <1>1, PeerType
<1>3. /\ session[d][Peer(c, d)] \in Conns \cup {NoConn}
      /\ task[d][Peer(c, d)] \in Conns \cup {NoConn}
  BY <1>0, <1>2 DEF TablesOK
<1>4. /\ ends[c][d].reason \in Reasons \cup {"none"}
      /\ ends[c][d].bye \in Reasons \cup {"none"}
  BY TypeFacts
<1>5. CASE HelloDone(c, d)
  <2>1. TablesOK'
    BY <1>0, <1>5
       DEF HelloDone, TablesOK, trustVars, dialVars, sessVars, bounds
  <2>2. ends' = SetSt(ends, c, d, "est") /\ "est" \in EndStates
    BY <1>5 DEF HelloDone, SetSt, EndStates
  <2>3. conn' = AddHello(conn, c, d) /\ conn[c] # Idle
    BY <1>2, <1>5 DEF HelloDone, AddHello, Free
  <2> QED
    BY <1>0, <2>1, <2>2, <2>3, SetStType, AddHelloType, TypePartsNext
<1>6. CASE HelloFails(c, d)
  <2>1. TablesOK' /\ UNCHANGED conn
    BY <1>0, <1>6 DEF HelloFails, TablesOK, trustVars, dialVars, sessVars
  <2>2. ends' = SetSt(ends, c, d, "hsfail") /\ "hsfail" \in EndStates
    BY <1>6 DEF HelloFails, SetSt, EndStates
  <2> QED BY <1>0, <2>1, <2>2, SetStType, TypePartsNext
<1>7. CASE SessionCloses(c, d)
  <2>1. TablesOK' /\ UNCHANGED conn
    BY <1>0, <1>7
       DEF SessionCloses, TablesOK, trustVars, dialVars, sessVars, bounds
  <2>2. PICK e : /\ ends' = Ended(e, c, d, ends[c][d].reason)
                 /\ \/ e = ends
                    \/ e = SetBye(ends, c, Peer(c, d), ends[c][d].reason)
    BY <1>7 DEF SessionCloses, SetBye
  <2>3. e \in Ends
    BY <1>0, <1>2, <1>4, <2>2, SetByeType
  <2> QED BY <1>0, <1>4, <2>1, <2>2, <2>3, EndedType, TypePartsNext
<1>8. CASE SessionTold(c, d)
  <2>1. TablesOK' /\ UNCHANGED conn
    BY <1>0, <1>8
       DEF SessionTold, TablesOK, trustVars, dialVars, sessVars, bounds
  <2>2. ends' = Ended(ends, c, d, ends[c][d].bye)
    BY <1>8 DEF SessionTold
  <2> QED BY <1>0, <1>4, <2>1, <2>2, EndedType, TypePartsNext
<1>9. CASE SessionLost(c, d)
  <2>1. TablesOK' /\ UNCHANGED conn
    BY <1>0, <1>9 DEF SessionLost, TablesOK, trustVars, dialVars, sessVars
  <2>2. ends' = Ended(ends, c, d, "NetworkLost") /\ "NetworkLost" \in Reasons
    BY <1>9 DEF SessionLost, Reasons
  <2> QED BY <1>0, <2>1, <2>2, EndedType, TypePartsNext
<1>10. CASE OnHandshakeFailed(c, d)
  <2> DEFINE q == Peer(c, d)
  <2>0. /\ inFlight' \in [Devices -> SUBSET Devices]
        /\ waiting' \in [Devices -> SUBSET Devices]
        /\ task' \in [Devices -> [Devices -> Conns \cup {NoConn}]]
    <3>1. CASE c \in targets[d]
      <4>1. /\ inFlight' = [inFlight EXCEPT ![d] = @ \ {q}]
            /\ task' = [task EXCEPT ![d][q] = NoConn]
            /\ waiting' = [waiting EXCEPT ![d] = @ \cup {q}]
        BY <1>10, <3>1 DEF OnHandshakeFailed
      <4> QED BY <1>0, <1>2, <4>1 DEF TablesOK
    <3>2. CASE c \notin targets[d]
      <4>1. UNCHANGED <<inFlight, task, waiting>>
        BY <1>10, <3>2 DEF OnHandshakeFailed
      <4> QED BY <1>0, <4>1 DEF TablesOK
    <3> QED BY <3>1, <3>2
  <2>00. targets' = [targets EXCEPT ![d] = @ \ {c}]
         /\ UNCHANGED <<trustVars, addr, sessVars, bounds>>
    BY <1>10 DEF OnHandshakeFailed
  <2>1. TablesOK'
    BY <1>0, <2>0, <2>00 DEF TablesOK, trustVars, sessVars, bounds
  <2>2. ends' = SetEnd(ends, c, d, NoEnd) /\ conn' = Reclaim(conn, ends')
    BY <1>10 DEF OnHandshakeFailed, SetEnd
  <2>3. ends' \in Ends
    BY <1>0, <2>2, SetEndType, NoEndType
  <2> QED BY <1>0, <2>1, <2>2, <2>3, ReclaimType, TypePartsNext
<1>11. CASE Promote(c, d)
  <2> DEFINE p == Peer(c, d)
             e == Taken(ends, c, d)
  <2>1. CancelDial(d, p) /\ UNCHANGED <<trustVars, waiting, bounds>>
    BY <1>11 DEF Promote
  <2>2. e \in Ends
    BY <1>0, TakenType
  <2>3. /\ inFlight' \in [Devices -> SUBSET Devices]
        /\ task' \in [Devices -> [Devices -> Conns \cup {NoConn}]]
        /\ targets' \in [Devices -> SUBSET Conns]
    BY <1>0, <1>2, <2>1, CancelDialType
  <2>4. /\ AddTicket(conn, c, d) \in ConnTable
        /\ Joins(AddTicket(conn, c, d))
    BY <1>0, <1>2, AddTicketType DEF Free
  <2>5. CASE Keep(c, d)
    <3>1. /\ UNCHANGED <<addr, sessVars>>
          /\ conn' = Reclaim(conn, ends')
          /\ ends' = Abort(Close(e, c, d, "Superseded"), task[d][p], d)
      BY <1>11, <2>5 DEF Promote
    <3>2. ends' \in Ends
      BY <1>3, <2>2, <3>1, CloseType, AbortType DEF Reasons
    <3>3. TablesOK'
      BY <1>0, <2>1, <2>3, <3>1 DEF TablesOK, trustVars, sessVars, bounds
    <3> QED BY <1>0, <3>1, <3>2, <3>3, ReclaimType, TypePartsNext
  <2>6. CASE ~Keep(c, d)
    <3>1. /\ ends' = Abort(Close(e, session[d][p], d, "Superseded"),
                           task[d][p], d)
          /\ addr' = [addr EXCEPT ![d] = @ \cup {p}]
          /\ session' = [session EXCEPT ![d][p] = c]
          /\ fresh' = [fresh EXCEPT ![d] = @ \cup {p}]
          /\ index' = [index EXCEPT ![d] = (@ \ {session[d][p]}) \cup {c}]
          /\ conn' = Reclaim(AddTicket(conn, c, d), ends')
          /\ UNCHANGED unpaired
      BY <1>11, <2>6 DEF Promote, AddTicket
    <3>2. ends' \in Ends
      BY <1>3, <2>2, <3>1, CloseType, AbortType DEF Reasons
    <3>3. TablesOK'
      BY <1>0, <1>2, <2>1, <2>3, <3>1 DEF TablesOK, trustVars, bounds
    <3> QED BY <2>4, <3>1, <3>2, <3>3, ReclaimType, TypePartsNext
  <2> QED BY <2>5, <2>6
<1>12. CASE Refuse(c, d)
  <2>1. TablesOK' /\ UNCHANGED conn
    BY <1>0, <1>12 DEF Refuse, TablesOK, trustVars, sessVars, bounds
  <2>2. ends' = Close(Taken(ends, c, d), c, d, "PermissionDenied")
    BY <1>12 DEF Refuse
  <2>3. ends' \in Ends
    BY <1>0, <2>2, TakenType, CloseType DEF Reasons
  <2> QED BY <1>0, <2>1, <2>3, TypePartsNext
<1>13. CASE AdmitUnpaired(c, d)
  <2>1. TablesOK' /\ UNCHANGED conn
    BY <1>0, <1>13 DEF AdmitUnpaired, TablesOK, trustVars, dialVars, bounds
  <2>2. \/ ends' = Close(Taken(ends, c, d), c, d, "RateLimited")
        \/ ends' = Taken(ends, c, d)
    BY <1>13 DEF AdmitUnpaired
  <2>3. ends' \in Ends
    BY <1>0, <2>2, TakenType, CloseType DEF Reasons
  <2> QED BY <1>0, <2>1, <2>3, TypePartsNext
<1>14. CASE OnClosed(c, d)
  <2> DEFINE p == Peer(c, d)
             e == SetEnd(ends, c, d, NoEnd)
  <2>0. /\ unpaired' = [unpaired EXCEPT ![d] = @ \ {c}]
        /\ conn' = Reclaim(conn, ends')
        /\ UNCHANGED <<trusted, blocked, addr, bounds>>
    BY <1>14 DEF OnClosed
  <2>1. conn' \in ConnTable /\ Joins(conn')
    BY <1>0, <2>0, ReclaimType
  <2>2. e \in Ends /\ Abort(e, task[d][p], d) \in Ends
    BY <1>0, <1>3, SetEndType, NoEndType, AbortType
  <2>3. CASE c \in index[d] /\ session[d][p] = c
    <3>1. DropSession(d, p)
      BY <1>14, <2>3 DEF OnClosed
    <3>2. /\ session' \in [Devices -> [Devices -> Conns \cup {NoConn}]]
          /\ fresh' \in [Devices -> SUBSET Devices]
          /\ index' \in [Devices -> SUBSET Conns]
      BY <1>0, <1>2, <3>1, DropSessionType
    <3>3. CASE /\ ends' = Abort(e, task[d][p], d)
               /\ CancelDial(d, p)
               /\ waiting' = [waiting EXCEPT ![d] = @ \ {p}]
               /\ auto' = [auto EXCEPT ![d] = @ \ {p}]
      <4>1. /\ inFlight' \in [Devices -> SUBSET Devices]
            /\ task' \in [Devices -> [Devices -> Conns \cup {NoConn}]]
            /\ targets' \in [Devices -> SUBSET Conns]
        BY <1>0, <1>2, <3>3, CancelDialType
      <4>2. TablesOK'
        BY <1>0, <2>0, <3>2, <3>3, <4>1 DEF TablesOK, bounds
      <4> QED BY <2>1, <2>2, <3>3, <4>2, TypePartsNext
    <3>4. CASE ends' = e /\ UNCHANGED <<dialVars, auto>>
      <4>1. TablesOK'
        BY <1>0, <2>0, <3>2, <3>4 DEF TablesOK, dialVars, bounds
      <4> QED BY <2>1, <2>2, <3>4, <4>1, TypePartsNext
    <3>5. CASE /\ ends' = e
               /\ IF p \in auto[d]
                  THEN /\ inFlight' = [inFlight EXCEPT ![d] = @ \ {p}]
                       /\ waiting' = [waiting EXCEPT ![d] = @ \cup {p}]
                  ELSE UNCHANGED <<inFlight, waiting>>
               /\ UNCHANGED <<task, targets, auto>>
      <4>0. /\ inFlight' \in [Devices -> SUBSET Devices]
            /\ waiting' \in [Devices -> SUBSET Devices]
        <5>1. CASE p \in auto[d]
          <6>1. /\ inFlight' = [inFlight EXCEPT ![d] = @ \ {p}]
                /\ waiting' = [waiting EXCEPT ![d] = @ \cup {p}]
            BY <3>5, <5>1
          <6> QED BY <1>0, <1>2, <6>1 DEF TablesOK
        <5>2. CASE p \notin auto[d]
          BY <1>0, <3>5, <5>2 DEF TablesOK
        <5> QED BY <5>1, <5>2
      <4>1. TablesOK'
        BY <1>0, <2>0, <3>2, <3>5, <4>0 DEF TablesOK, bounds
      <4> QED BY <2>1, <2>2, <3>5, <4>1, TypePartsNext
    <3> QED BY <1>14, <2>3, <3>3, <3>4, <3>5 DEF OnClosed, SetEnd
  <2>4. CASE c \notin index[d] \/ session[d][p] # c
    <3>1. /\ ends' = e
          /\ index' = [index EXCEPT ![d] = @ \ {c}]
          /\ UNCHANGED <<dialVars, auto, session, fresh>>
      BY <1>14, <2>4 DEF OnClosed, SetEnd
    <3>2. TablesOK'
      BY <1>0, <2>0, <3>1 DEF TablesOK, dialVars, bounds
    <3> QED BY <2>1, <2>2, <3>1, <3>2, TypePartsNext
  <2> QED BY <2>3, <2>4
<1>15. CASE UnpairedTalks(c, d)
  <2>1. TablesOK' /\ UNCHANGED conn
    BY <1>0, <1>15 DEF UnpairedTalks, TablesOK, trustVars, dialVars, bounds
  <2>2. ends' \in Ends
    BY <1>0, <1>15, CloseType DEF UnpairedTalks, Reasons
  <2> QED BY <1>0, <2>1, <2>2, TypePartsNext
<1> QED
  BY <1>5, <1>6, <1>7, <1>8, <1>9, <1>10, <1>11, <1>12, <1>13, <1>14, <1>15
     DEF EndStep

LEMMA ConnStepType ==
  ASSUME TypeInv, NEW c \in Conns, ConnStep(c)
  PROVE  TypeInv'
<1>0. TablesOK /\ ends \in Ends /\ conn \in ConnTable /\ Joins(conn)
  BY TypeParts
<1>1. ~Free(c) => conn[c].from \in Devices /\ conn[c].to \in Devices
  BY TypeFacts
<1> DEFINE d == conn[c].from
<1>2. CASE RaceWins(c)
  <2>1. TablesOK' /\ UNCHANGED conn
    BY <1>0, <1>1, <1>2
       DEF RaceWins, TablesOK, trustVars, sessVars, bounds
  <2>2. ends' = SetSt(ends, c, d, "dialed") /\ "dialed" \in EndStates
        /\ d \in Devices
    BY <1>1, <1>2 DEF RaceWins, SetSt, EndStates
  <2> QED BY <1>0, <2>1, <2>2, SetStType, TypePartsNext
<1>3. CASE RaceFails(c)
  <2>1. TablesOK' /\ UNCHANGED conn
    BY <1>0, <1>1, <1>3 DEF RaceFails, TablesOK, trustVars, sessVars
  <2>2. ends' = SetSt(ends, c, d, "failed") /\ "failed" \in EndStates
        /\ d \in Devices
    BY <1>1, <1>3 DEF RaceFails, SetSt, EndStates
  <2> QED BY <1>0, <2>1, <2>2, SetStType, TypePartsNext
<1>4. CASE OnDialFailed(c)
  <2> DEFINE q == conn[c].to
  <2>0. d \in Devices /\ q \in Devices
        /\ targets' = [targets EXCEPT ![d] = @ \ {c}]
        /\ UNCHANGED <<trustVars, addr, sessVars, bounds>>
    BY <1>1, <1>4 DEF OnDialFailed
  <2>00. /\ inFlight' \in [Devices -> SUBSET Devices]
         /\ waiting' \in [Devices -> SUBSET Devices]
         /\ task' \in [Devices -> [Devices -> Conns \cup {NoConn}]]
    <3>1. CASE q \in trusted[d]
      <4>1. /\ inFlight' = [inFlight EXCEPT ![d] = @ \ {q}]
            /\ task' = [task EXCEPT ![d][q] = NoConn]
            /\ waiting' = [waiting EXCEPT ![d] = @ \cup {q}]
        BY <1>4, <3>1 DEF OnDialFailed
      <4> HIDE DEF d, q
      <4> QED BY <1>0, <2>0, <4>1 DEF TablesOK
    <3>2. CASE q \notin trusted[d]
      <4>1. UNCHANGED <<inFlight, task, waiting>>
        BY <1>4, <3>2 DEF OnDialFailed
      <4> QED BY <1>0, <4>1 DEF TablesOK
    <3> QED BY <3>1, <3>2
  <2>1. TablesOK'
    <3> HIDE DEF d, q
    <3> QED BY <1>0, <2>0, <2>00 DEF TablesOK, trustVars, sessVars, bounds
  <2>2. ends' = SetEnd(ends, c, d, NoEnd) /\ conn' = Reclaim(conn, ends')
        /\ d \in Devices
    BY <1>1, <1>4 DEF OnDialFailed, SetEnd
  <2>3. ends' \in Ends
    BY <1>0, <2>2, SetEndType, NoEndType
  <2> QED BY <1>0, <2>1, <2>2, <2>3, ReclaimType, TypePartsNext
<1>5. CASE Accept(c)
  <2>1. TablesOK'
    BY <1>0, <1>5 DEF Accept, TablesOK, trustVars, dialVars, sessVars, bounds
  <2>2. ends' = SetSt(ends, c, conn[c].to, "incoming")
        /\ "incoming" \in EndStates /\ conn[c].to \in Devices
    BY <1>1, <1>5 DEF Accept, SetSt, EndStates
  <2>3. conn' = SetAccepted(conn, c) /\ conn[c] # Idle
    BY <1>5 DEF Accept, SetAccepted, Free
  <2> QED
    BY <1>0, <2>1, <2>2, <2>3, SetStType, SetAcceptedType, TypePartsNext
<1>6. CASE OnDialed(c)
  <2>1. TablesOK'
    BY <1>0, <1>6
       DEF OnDialed, TablesOK, trustVars, dialVars, sessVars, bounds
  <2>2. ends' = SetSt(ends, c, d, "hello") /\ "hello" \in EndStates
        /\ d \in Devices
    BY <1>1, <1>6 DEF OnDialed, SetSt, EndStates
  <2>3. conn' = AddHello(conn, c, d) /\ conn[c] # Idle
    BY <1>6 DEF OnDialed, AddHello, Free
  <2> QED
    BY <1>0, <2>1, <2>2, <2>3, SetStType, AddHelloType, TypePartsNext
<1>7. CASE OnIncoming(c)
  <2>1. TablesOK' /\ UNCHANGED conn
    BY <1>0, <1>7
       DEF OnIncoming, TablesOK, trustVars, dialVars, sessVars, bounds
  <2>2. ends' = SetSt(ends, c, conn[c].to, "hello") /\ "hello" \in EndStates
        /\ conn[c].to \in Devices
    BY <1>1, <1>7 DEF OnIncoming, SetSt, EndStates
  <2> QED BY <1>0, <2>1, <2>2, SetStType, TypePartsNext
<1> QED BY <1>2, <1>3, <1>4, <1>5, <1>6, <1>7, EndStepType DEF ConnStep

\* Every step of the system keeps types and the shape of connections.
LEMMA TypeStep == TypeInv /\ [Next]_vars => TypeInv'
<1> SUFFICES ASSUME TypeInv, [Next]_vars PROVE TypeInv'
  OBVIOUS
<1>1. CASE Next
  BY <1>1, DeviceStepType, UserStepType, ConnStepType, NetworkStepType
     DEF Next
<1>2. CASE UNCHANGED vars
  BY <1>2 DEF vars, TypeInv, TypeOK
<1> QED BY <1>1, <1>2

\* Every variable of the session manager keeps its type and no connection
\* joins a device with itself, whatever is dialed, lost, closed or commanded.
THEOREM TypeCorrect == Spec => []TypeOK
<1>1. TypeInv => TypeOK BY DEF TypeInv
<1> QED BY <1>1, TypeInit, TypeStep, PTL DEF Spec

----------------------------------------------------------------------------
(* Trust. *)

TrustInv == TypeInv /\ NoSessionWithoutTrust

\* A step that leaves trust and sessions alone.
LEMMA TrustFrame ==
  ASSUME NoSessionWithoutTrust, UNCHANGED <<trusted, blocked, session>>
  PROVE  NoSessionWithoutTrust'
  BY DEF NoSessionWithoutTrust

\* Ending a session, with the trust entry gone or changed or as it was.
LEMMA DropSessionTrust ==
  ASSUME TypeInv, NoSessionWithoutTrust,
         NEW d \in Devices, NEW p \in Devices, DropSession(d, p),
         \A e \in Devices : \A q \in Devices : (e # d \/ q # p) =>
           /\ q \in trusted'[e] <=> q \in trusted[e]
           /\ q \in blocked'[e] <=> q \in blocked[e]
  PROVE  NoSessionWithoutTrust'
<1>1. session \in [Devices -> [Devices -> Conns \cup {NoConn}]]
  BY TypeParts DEF TablesOK
<1>2. session' = [session EXCEPT ![d][p] = NoConn]
  BY DEF DropSession
<1>3. ASSUME NEW e \in Devices, NEW q \in Devices, session'[e][q] # NoConn
      PROVE  q \in trusted'[e] /\ q \notin blocked'[e]
  <2>1. (e # d \/ q # p) /\ session'[e][q] = session[e][q]
    BY <1>1, <1>2, <1>3
  <2> QED BY <1>3, <2>1 DEF NoSessionWithoutTrust
<1> QED BY <1>3 DEF NoSessionWithoutTrust

LEMMA TrustStep == TrustInv /\ [Next]_vars => NoSessionWithoutTrust'
<1> SUFFICES ASSUME TypeInv, NoSessionWithoutTrust, [Next]_vars
             PROVE  NoSessionWithoutTrust'
  BY DEF TrustInv
<1>0. TablesOK /\ Joins(conn)
  BY TypeParts
<1>1. ASSUME NEW d \in Devices, DeviceStep(d) PROVE NoSessionWithoutTrust'
  <2>1. UNCHANGED <<trusted, blocked, session>>
    BY <1>1 DEF DeviceStep, TickAutoConnect, BackoffElapses, SessionAges,
                UnpairedExpires, trustVars, sessVars
  <2> QED BY <2>1, TrustFrame
<1>2. ASSUME NEW d \in Devices, NEW p \in Others(d), NEW r \in Reasons,
             CutOff(d, p, r),
             \A e \in Devices : \A q \in Devices : (e # d \/ q # p) =>
               /\ q \in trusted'[e] <=> q \in trusted[e]
               /\ q \in blocked'[e] <=> q \in blocked[e]
      PROVE  NoSessionWithoutTrust'
  BY <1>2, DropSessionTrust DEF CutOff, Others
<1>3. ASSUME NEW d \in Devices, UserStep(d) PROVE NoSessionWithoutTrust'
  <2>1. ASSUME NEW p \in Others(d), Connect(d, p)
        PROVE  NoSessionWithoutTrust'
    BY <2>1, TrustFrame DEF Connect, trustVars, sessVars
  <2>2. ASSUME NEW p \in Others(d), Disconnect(d, p)
        PROVE  NoSessionWithoutTrust'
    BY <1>2, <2>2 DEF Disconnect, Reasons
  <2>3. ASSUME NEW p \in Others(d), ForgetDevice(d, p)
        PROVE  NoSessionWithoutTrust'
    <3>1. /\ CutOff(d, p, "PermissionRevoked")
          /\ trusted' = [trusted EXCEPT ![d] = @ \ {p}]
          /\ blocked' = [blocked EXCEPT ![d] = @ \ {p}]
      BY <2>3 DEF ForgetDevice
    <3>2. \A e \in Devices : \A q \in Devices : (e # d \/ q # p) =>
            /\ q \in trusted'[e] <=> q \in trusted[e]
            /\ q \in blocked'[e] <=> q \in blocked[e]
      BY <1>0, <3>1 DEF TablesOK
    <3> QED BY <1>2, <3>1, <3>2 DEF Reasons
  <2>4. ASSUME NEW p \in Others(d), NEW on \in BOOLEAN, SetBlocked(d, p, on)
        PROVE  NoSessionWithoutTrust'
    <3>1. /\ trusted' = trusted
          /\ blocked' = [blocked EXCEPT ![d] =
                           IF on /\ p \in trusted[d] THEN @ \cup {p}
                                                     ELSE @ \ {p}]
      BY <2>4 DEF SetBlocked
    <3>2. \A e \in Devices : \A q \in Devices : (e # d \/ q # p) =>
            /\ q \in trusted'[e] <=> q \in trusted[e]
            /\ q \in blocked'[e] <=> q \in blocked[e]
      BY <1>0, <3>1 DEF TablesOK
    <3>3. CASE on
      BY <1>2, <2>4, <3>2, <3>3 DEF SetBlocked, Reasons
    <3>4. CASE ~on
      <4>1. session' = session
        BY <2>4, <3>4 DEF SetBlocked
      <4>2. \A e \in Devices : \A q \in Devices :
              q \in blocked'[e] => q \in blocked[e]
        BY <1>0, <3>1, <3>4 DEF TablesOK
      <4> QED BY <3>1, <4>1, <4>2 DEF NoSessionWithoutTrust
    <3> QED BY <3>3, <3>4
  <2>5. ASSUME NEW p \in Others(d), NEW on \in BOOLEAN,
               SetAutoConnect(d, p, on)
        PROVE  NoSessionWithoutTrust'
    BY <2>5, TrustFrame DEF SetAutoConnect, sessVars
  <2>6. ASSUME NetworkChanged(d) PROVE NoSessionWithoutTrust'
    BY <2>6, TrustFrame DEF NetworkChanged, trustVars, sessVars
  <2> QED BY <1>3, <2>1, <2>2, <2>3, <2>4, <2>5, <2>6 DEF UserStep
<1>4. ASSUME NEW c \in Conns, NEW d \in Devices, EndStep(c, d)
      PROVE  NoSessionWithoutTrust'
  <2>0. Peer(c, d) \in Devices
    BY <1>0, <1>4, PeerType DEF EndStep
  <2>1. CASE Promote(c, d)
    <3>1. CASE Keep(c, d)
      BY <2>1, <3>1, TrustFrame DEF Promote, trustVars, sessVars
    <3>2. CASE ~Keep(c, d)
      <4>1. /\ session' = [session EXCEPT ![d][Peer(c, d)] = c]
            /\ Admits(d, Peer(c, d)) /\ UNCHANGED trustVars
        BY <2>1, <3>2 DEF Promote
      <4> QED BY <1>0, <2>0, <4>1
              DEF NoSessionWithoutTrust, Admits, TablesOK, trustVars
    <3> QED BY <3>1, <3>2
  <2>2. CASE OnClosed(c, d)
    <3>1. UNCHANGED <<trusted, blocked>>
      BY <2>2 DEF OnClosed
    <3>2. CASE DropSession(d, Peer(c, d))
      BY <2>0, <3>1, <3>2, DropSessionTrust
    <3>3. CASE UNCHANGED session
      BY <3>1, <3>3, TrustFrame
    <3> QED BY <2>2, <3>2, <3>3 DEF OnClosed
  <2>3. CASE \/ HelloDone(c, d) \/ HelloFails(c, d) \/ SessionCloses(c, d)
             \/ SessionTold(c, d) \/ SessionLost(c, d)
             \/ OnHandshakeFailed(c, d) \/ Refuse(c, d) \/ AdmitUnpaired(c, d)
             \/ UnpairedTalks(c, d)
    <3>1. UNCHANGED <<trusted, blocked, session>>
      BY <2>3 DEF HelloDone, HelloFails, SessionCloses, SessionTold,
                  SessionLost, OnHandshakeFailed, Refuse, AdmitUnpaired,
                  UnpairedTalks, trustVars, sessVars
    <3> QED BY <3>1, TrustFrame
  <2> QED BY <1>4, <2>1, <2>2, <2>3 DEF EndStep
<1>5. ASSUME NEW c \in Conns, ConnStep(c) PROVE NoSessionWithoutTrust'
  <2>1. CASE \/ RaceWins(c) \/ RaceFails(c) \/ OnDialFailed(c)
             \/ Accept(c) \/ OnDialed(c) \/ OnIncoming(c)
    <3>1. UNCHANGED <<trusted, blocked, session>>
      BY <2>1 DEF RaceWins, RaceFails, OnDialFailed, Accept, OnDialed,
                  OnIncoming, trustVars, sessVars
    <3> QED BY <3>1, TrustFrame
  <2> QED BY <1>4, <1>5, <2>1 DEF ConnStep
<1>6. CASE NetworkStep
  <2>1. ASSUME NEW d \in Devices, Crash(d) PROVE NoSessionWithoutTrust'
    <3>1. /\ session' = [session EXCEPT ![d] = [p \in Devices |-> NoConn]]
          /\ UNCHANGED trustVars
      BY <2>1 DEF Crash
    <3> QED BY <1>0, <3>1 DEF NoSessionWithoutTrust, TablesOK, trustVars
  <2>2. ASSUME NEW d \in Devices, NEW p \in Others(d),
               DiscoveryUpdated(d, p) \/ AddressLost(d, p)
        PROVE  NoSessionWithoutTrust'
    BY <2>2, TrustFrame
       DEF DiscoveryUpdated, AddressLost, trustVars, sessVars
  <2>3. ASSUME NEW c \in Conns, Cut(c) PROVE NoSessionWithoutTrust'
    BY <2>3, TrustFrame DEF Cut, trustVars, sessVars
  <2> QED BY <1>6, <2>1, <2>2, <2>3 DEF NetworkStep
<1>7. CASE UNCHANGED vars
  BY <1>7, TrustFrame DEF vars
<1> QED BY <1>1, <1>3, <1>5, <1>6, <1>7 DEF Next

\* A device never has a session with a peer it does not trust or blocks: what
\* revoke ends cannot come back from a dial, a handshake or a queued event.
THEOREM TrustCorrect == Spec => []NoSessionWithoutTrust
<1>1. Init => NoSessionWithoutTrust
  BY DEF Init, NoSessionWithoutTrust
<1>2. TrustInv /\ [Next]_vars => TrustInv'
  BY TypeStep, TrustStep DEF TrustInv
<1>3. Init => TrustInv
  BY <1>1, TypeInit DEF TrustInv
<1>4. TrustInv => NoSessionWithoutTrust
  BY DEF TrustInv
<1> QED BY <1>2, <1>3, <1>4, PTL DEF Spec

----------------------------------------------------------------------------
(* The tables of the session manager agree with its connections: sessions  *)
(* are indexed, no dial state is stuck and nothing leaks.                  *)
(*                                                                         *)
(* A step changes the tables of one device and few ends of connections.    *)
(* The inductive invariant is therefore stated for one device, and a frame *)
(* says what a step leaves alone, but for a set of connections X.          *)

\* An end that no Close can have reached.
Early == {"none", "racing", "dialed", "incoming", "hello", "est"}

\* A device is only at its own connections, as the callee once it accepted, and
\* an end has no reason to close before it is open.
EndsInv(d) ==
  /\ \A c \in Conns : ends[c][d].st \in Early => ends[c][d].reason = "none"
  /\ \A c \in Conns : ends[c][d].st # "none" => d \in {conn[c].from, conn[c].to}
  /\ \A c \in Conns : conn[c].to = d /\ ~conn[c].accepted => ends[c][d].st = "none"

\* A handle is held for a dial that runs; what is in flight is wanted and has
\* a target; a target is a dial whose result is still to come.
TasksInv(d) ==
  \A p \in Devices : task[d][p] # NoConn =>
    /\ ends[task[d][p]][d].st = "racing"
    /\ conn[task[d][p]].from = d /\ conn[task[d][p]].to = p

FlightInv(d) ==
  \A p \in inFlight[d] :
    /\ p \in trusted[d] /\ p \notin blocked[d]
    /\ \E c \in targets[d] : conn[c].to = p

TargetsInv(d) ==
  \A c \in targets[d] : conn[c].from = d /\ ends[c][d].st \in DialEnding

DialsInv(d) == TasksInv(d) /\ FlightInv(d) /\ TargetsInv(d)

\* The session task runs and was not told to close, or Closed is queued.
Served(c, d) ==
  \/ ends[c][d].st = "open" /\ ends[c][d].reason = "none"
  \/ ends[c][d].st = "closed"

SessInv(d) ==
  /\ \A p \in Devices : session[d][p] # NoConn =>
       session[d][p] \in index[d] /\ Peer(session[d][p], d) = p
  /\ \A c \in index[d] : session[d][Peer(c, d)] = c /\ Served(c, d)
  /\ \A c \in unpaired[d] : ends[c][d].st \in {"open", "closed"}
  /\ index[d] \cap unpaired[d] = {}

DevInv(d) == EndsInv(d) /\ DialsInv(d) /\ SessInv(d)

LinkInv == TypeInv /\ \A d \in Devices : DevInv(d)

----------------------------------------------------------------------------
(* What the actor does to tasks, end by end.                               *)

\* Close gives one end a reason, and moves none.
LEMMA CloseEnds ==
  ASSUME NEW e \in Ends, NEW c \in Conns \cup {NoConn}, NEW d \in Devices,
         NEW r \in Reasons, NEW b \in Conns, NEW f \in Devices
  PROVE  /\ Close(e, c, d, r)[b][f].st = e[b][f].st
         /\ b # c \/ f # d => Close(e, c, d, r)[b][f].reason = e[b][f].reason
<1>1. CASE c # NoConn /\ e[c][d].st = "open" /\ e[c][d].reason = "none"
  <2> DEFINE x == [e[c][d] EXCEPT !.reason = r]
  <2>1. c \in Conns BY <1>1
  <2>2. e[c][d] \in End BY <2>1 DEF Ends
  <2>3. x.st = e[c][d].st BY <2>2 DEF End
  <2>4. Close(e, c, d, r) = [e EXCEPT ![c][d] = x] BY <1>1 DEF Close
  <2> HIDE DEF x
  <2> QED BY <2>1, <2>3, <2>4 DEF Ends
<1>2. CASE ~(c # NoConn /\ e[c][d].st = "open" /\ e[c][d].reason = "none")
  BY <1>2 DEF Close
<1> QED BY <1>1, <1>2

\* Abort ends a dial task that still runs, and nothing else.
LEMMA AbortEnds ==
  ASSUME NEW e \in Ends, NEW c \in Conns \cup {NoConn}, NEW d \in Devices,
         NEW b \in Conns, NEW f \in Devices
  PROVE  /\ b # c \/ f # d => Abort(e, c, d)[b][f] = e[b][f]
         /\ b = c /\ f = d =>
              Abort(e, c, d)[b][f] = IF e[b][f].st = "racing" THEN NoEnd
                                     ELSE e[b][f]
<1>1. CASE c # NoConn /\ e[c][d].st = "racing"
  <2>1. Abort(e, c, d) = [e EXCEPT ![c][d] = NoEnd] /\ c \in Conns
    BY <1>1 DEF Abort
  <2> QED BY <1>1, <2>1 DEF Ends
<1>2. CASE ~(c # NoConn /\ e[c][d].st = "racing")
  <2>1. Abort(e, c, d) = e BY <1>2 DEF Abort
  <2> QED BY <1>2, <2>1, ConnsAssumption
<1> QED BY <1>1, <1>2

\* Taking Established makes an end open, or leaves its Closed to be handled.
LEMMA TakenEnds ==
  ASSUME NEW e \in Ends, NEW c \in Conns, NEW d \in Devices,
         NEW b \in Conns, NEW f \in Devices
  PROVE  /\ b # c \/ f # d => Taken(e, c, d)[b][f] = e[b][f]
         /\ Taken(e, c, d)[c][d].st = IF e[c][d].st = "est" THEN "open" ELSE "closed"
         /\ Taken(e, c, d)[c][d].reason = e[c][d].reason
<1> DEFINE x == [e[c][d] EXCEPT !.st = IF @ = "est" THEN "open" ELSE "closed"]
<1>1. e[c][d] \in End BY DEF Ends
<1>2. /\ x.st = IF e[c][d].st = "est" THEN "open" ELSE "closed"
      /\ x.reason = e[c][d].reason
  BY <1>1 DEF End
<1>3. Taken(e, c, d) = [e EXCEPT ![c][d] = x] BY DEF Taken
<1> HIDE DEF x
<1> QED BY <1>2, <1>3 DEF Ends

\* The end of a session task changes its end only.
LEMMA EndedEnds ==
  ASSUME NEW e \in Ends, NEW c \in Conns, NEW d \in Devices, NEW r,
         NEW b \in Conns, NEW f \in Devices
  PROVE  /\ b # c \/ f # d => Ended(e, c, d, r)[b][f] = e[b][f]
         /\ Ended(e, c, d, r)[c][d].st =
              IF e[c][d].st = "est" THEN "estclosed" ELSE "closed"
<1> DEFINE x == [e[c][d] EXCEPT !.st = IF @ = "est" THEN "estclosed" ELSE "closed"]
           y == [x EXCEPT !.reason = r]
           z == [e EXCEPT ![c][d] = x]
<1>1. e[c][d] \in End BY DEF Ends
<1>2. y.st = IF e[c][d].st = "est" THEN "estclosed" ELSE "closed"
  BY <1>1 DEF End
<1>3. Ended(e, c, d, r) = [z EXCEPT ![c][d].reason = r]
  BY DEF Ended
<1>4. z[c][d] = x
  BY DEF Ends
<1>5. Ended(e, c, d, r) = [z EXCEPT ![c][d] = y]
  BY <1>3, <1>4
<1> HIDE DEF x, y
<1> QED BY <1>2, <1>5 DEF Ends

\* An end that moves on keeps its reason; the others stay.
LEMMA SetStEnds ==
  ASSUME NEW e \in Ends, NEW c \in Conns, NEW d \in Devices, NEW s,
         NEW b \in Conns, NEW f \in Devices
  PROVE  /\ b # c \/ f # d => SetSt(e, c, d, s)[b][f] = e[b][f]
         /\ SetSt(e, c, d, s)[c][d].st = s
         /\ SetSt(e, c, d, s)[c][d].reason = e[c][d].reason
<1> DEFINE x == [e[c][d] EXCEPT !.st = s]
<1>1. e[c][d] \in End BY DEF Ends
<1>2. x.st = s /\ x.reason = e[c][d].reason BY <1>1 DEF End
<1>3. SetSt(e, c, d, s) = [e EXCEPT ![c][d] = x] BY DEF SetSt
<1> HIDE DEF x
<1> QED BY <1>2, <1>3 DEF Ends

\* A Goodbye on its way moves no end.
LEMMA SetByeEnds ==
  ASSUME NEW e \in Ends, NEW c \in Conns, NEW d \in Devices, NEW s,
         NEW b \in Conns, NEW f \in Devices
  PROVE  /\ SetBye(e, c, d, s)[b][f].st = e[b][f].st
         /\ SetBye(e, c, d, s)[b][f].reason = e[b][f].reason
<1> DEFINE x == [e[c][d] EXCEPT !.bye = s]
<1>1. e[c][d] \in End BY DEF Ends
<1>2. x.st = e[c][d].st /\ x.reason = e[c][d].reason BY <1>1 DEF End
<1>3. SetBye(e, c, d, s) = [e EXCEPT ![c][d] = x] BY DEF SetBye
<1> HIDE DEF x
<1> QED BY <1>2, <1>3 DEF Ends

\* One end is replaced, the others stay.
LEMMA SetEndEnds ==
  ASSUME NEW e \in Ends, NEW c \in Conns, NEW d \in Devices, NEW x,
         NEW b \in Conns, NEW f \in Devices
  PROVE  /\ b # c \/ f # d => SetEnd(e, c, d, x)[b][f] = e[b][f]
         /\ SetEnd(e, c, d, x)[c][d] = x
  BY DEF Ends, SetEnd

\* A slot that is given back had no end left.
LEMMA ReclaimConns ==
  ASSUME NEW cn, NEW e, NEW c \in Conns
  PROVE  Reclaim(cn, e)[c] = cn[c] \/ \A d \in Devices : e[c][d].st = "none"
  BY DEF Reclaim

----------------------------------------------------------------------------
(* Frames.                                                                 *)

SameEnd(c, d) ==
  ends'[c][d].st = ends[c][d].st /\ ends'[c][d].reason = ends[c][d].reason

\* c still joins the same devices.
Kept(c, d) ==
  /\ conn'[c].from = conn[c].from /\ conn'[c].to = conn[c].to
  /\ conn[c].to = d => conn'[c].accepted = conn[c].accepted

Framed(d, X) ==
  \A c \in Conns \ X :
    SameEnd(c, d) /\ (Kept(c, d) \/ ends'[c][d].st = "none")

\* Where d's ends are, but for the connections of X.
LEMMA EndsFrame ==
  ASSUME NEW d \in Devices, NEW X, EndsInv(d), Framed(d, X),
         \A c \in X \cap Conns :
           ends'[c][d].st \in Early => ends'[c][d].reason = "none",
         \A c \in X \cap Conns :
           \/ ends'[c][d].st = "none"
           \/ /\ d \in {conn'[c].from, conn'[c].to}
              /\ conn'[c].to = d => conn'[c].accepted
  PROVE  EndsInv(d)'
  BY DEF EndsInv, Framed, SameEnd, Kept

\* d's dial tables lose entries and gain none, but for the targets in X.
LEMMA DialsFrame ==
  ASSUME TypeInv, NEW d \in Devices, NEW X, DialsInv(d), Framed(d, X),
         \A p \in Devices : task'[d][p] # NoConn =>
           task'[d][p] = task[d][p] /\ task[d][p] \notin X,
         targets'[d] \subseteq targets[d],
         \A c \in targets'[d] \cap X :
           /\ conn'[c].from = d /\ conn'[c].to = conn[c].to
           /\ ends'[c][d].st \in DialEnding,
         inFlight'[d] \subseteq inFlight[d],
         \A p \in inFlight'[d] :
           /\ p \in trusted'[d] /\ p \notin blocked'[d]
           /\ \A c \in targets[d] \ targets'[d] : conn[c].to # p
  PROVE  DialsInv(d)'
<1>0. /\ targets[d] \subseteq Conns /\ inFlight[d] \subseteq Devices
      /\ \A p \in Devices : task[d][p] \in Conns \cup {NoConn}
  BY TypeParts DEF TablesOK
<1>1. TasksInv(d)'
  BY <1>0 DEF DialsInv, TasksInv, Framed, SameEnd, Kept
<1>2. \A c \in targets'[d] : /\ conn'[c].from = d /\ conn'[c].to = conn[c].to
                             /\ ends'[c][d].st \in DialEnding
  BY <1>0 DEF DialsInv, TargetsInv, Framed, SameEnd, Kept, DialEnding
<1>3. FlightInv(d)'
  BY <1>2 DEF DialsInv, FlightInv
<1> QED BY <1>1, <1>2, <1>3 DEF DialsInv, TargetsInv

\* d's session tables lose entries; only unpaired connections of X come in.
LEMMA SessFrame ==
  ASSUME TypeInv, NEW d \in Devices, NEW X, SessInv(d), Framed(d, X),
         \A p \in Devices : session'[d][p] # NoConn =>
           session'[d][p] = session[d][p] /\ session'[d][p] \in index'[d],
         index'[d] \subseteq index[d],
         \A c \in index'[d] : session'[d][Peer(c, d)] = c,
         \A c \in index'[d] \cap X :
           /\ conn'[c].from = conn[c].from /\ conn'[c].to = conn[c].to
           /\ Served(c, d)',
         unpaired'[d] \subseteq unpaired[d] \cup X,
         unpaired'[d] \subseteq Conns,
         \A c \in unpaired'[d] \cap X :
           ends'[c][d].st \in {"open", "closed"} /\ c \notin index[d]
  PROVE  SessInv(d)'
<1>0. index[d] \subseteq Conns
  BY TypeParts DEF TablesOK
<1>1. \A c \in index'[d] : Peer(c, d)' = Peer(c, d) /\ Served(c, d)'
  BY <1>0 DEF SessInv, Framed, SameEnd, Kept, Peer, Served
<1>2. \A p \in Devices : (session[d][p] # NoConn)' =>
        (session[d][p] \in index[d] /\ Peer(session[d][p], d) = p)'
  BY <1>1 DEF SessInv, Peer
<1>3. \A c \in unpaired'[d] : ends'[c][d].st \in {"open", "closed"}
  BY DEF SessInv, Framed, SameEnd
<1>4. index'[d] \cap unpaired'[d] = {}
  BY DEF SessInv
<1> QED BY <1>1, <1>2, <1>3, <1>4 DEF SessInv

TablesSame(d) ==
  /\ trusted'[d] = trusted[d] /\ blocked'[d] = blocked[d]
  /\ task'[d] = task[d] /\ targets'[d] = targets[d] /\ inFlight'[d] = inFlight[d]
  /\ session'[d] = session[d] /\ index'[d] = index[d]
  /\ unpaired'[d] = unpaired[d]

\* A device whose tables and ends stay as they are.
LEMMA DevFrame ==
  ASSUME LinkInv, NEW d \in Devices, Framed(d, {}), TablesSame(d)
  PROVE  DevInv(d)'
<1>0. TypeInv /\ EndsInv(d) /\ DialsInv(d) /\ SessInv(d)
  BY DEF LinkInv, DevInv
<1>1. EndsInv(d)'
  BY <1>0, EndsFrame
<1>2. DialsInv(d)'
  <2>1. \A p \in inFlight[d] : p \in trusted[d] /\ p \notin blocked[d]
    BY <1>0 DEF DialsInv, FlightInv
  <2>2. /\ \A p \in Devices : task'[d][p] # NoConn =>
             task'[d][p] = task[d][p] /\ task[d][p] \notin {}
        /\ targets'[d] \subseteq targets[d] /\ inFlight'[d] \subseteq inFlight[d]
        /\ targets[d] \ targets'[d] = {} /\ targets'[d] \cap {} = {}
    BY DEF TablesSame
  <2> QED BY <1>0, <2>1, <2>2, DialsFrame DEF TablesSame
<1>3. SessInv(d)'
  <2>1. /\ \A p \in Devices : session'[d][p] # NoConn =>
             session'[d][p] = session[d][p] /\ session'[d][p] \in index'[d]
        /\ index'[d] \subseteq index[d]
        /\ \A c \in index'[d] : session'[d][Peer(c, d)] = c
        /\ index'[d] \cap {} = {}
        /\ unpaired'[d] \subseteq unpaired[d] \cup {} /\ unpaired'[d] \subseteq Conns
        /\ unpaired'[d] \cap {} = {}
    BY <1>0, TypeParts DEF TablesSame, SessInv, TablesOK
  <2> QED BY <1>0, <2>1, SessFrame
<1> QED BY <1>1, <1>2, <1>3 DEF DevInv

\* d's end of c goes on, and nothing else happens.
LEMMA MoveInv ==
  ASSUME LinkInv, NEW d \in Devices, NEW c \in Conns,
         Framed(d, {c}), TablesSame(d),
         conn'[c].from = conn[c].from, conn'[c].to = conn[c].to,
         d \in {conn[c].from, conn[c].to}, conn[c].to = d => conn'[c].accepted,
         ends[c][d].st # "racing",
         ends[c][d].st \in DialEnding => ends'[c][d].st \in DialEnding,
         ends[c][d].st \in {"open", "closed"} => ends'[c][d].st = "closed",
         ends'[c][d].st \in Early => ends'[c][d].reason = "none"
  PROVE  DevInv(d)'
<1>0. TypeInv /\ EndsInv(d) /\ DialsInv(d) /\ SessInv(d)
  BY DEF LinkInv, DevInv
<1>1. EndsInv(d)'
  BY <1>0, EndsFrame
<1>2. DialsInv(d)'
  <2>1. \A p \in inFlight[d] : p \in trusted[d] /\ p \notin blocked[d]
    BY <1>0 DEF DialsInv, FlightInv
  <2>2. \A p \in Devices : task'[d][p] # NoConn =>
          task'[d][p] = task[d][p] /\ task[d][p] \notin {c}
    BY <1>0 DEF TablesSame, DialsInv, TasksInv
  <2>3. \A b \in targets'[d] \cap {c} :
          /\ conn'[b].from = d /\ conn'[b].to = conn[b].to
          /\ ends'[b][d].st \in DialEnding
    BY <1>0 DEF TablesSame, DialsInv, TargetsInv
  <2>4. /\ targets'[d] \subseteq targets[d] /\ inFlight'[d] \subseteq inFlight[d]
        /\ targets[d] \ targets'[d] = {}
    BY DEF TablesSame
  <2> QED BY <1>0, <2>1, <2>2, <2>3, <2>4, DialsFrame DEF TablesSame
<1>3. SessInv(d)'
  <2>1. /\ \A p \in Devices : session'[d][p] # NoConn =>
             session'[d][p] = session[d][p] /\ session'[d][p] \in index'[d]
        /\ index'[d] \subseteq index[d]
        /\ \A b \in index'[d] : session'[d][Peer(b, d)] = b
        /\ unpaired'[d] \subseteq unpaired[d] \cup {c} /\ unpaired'[d] \subseteq Conns
    BY <1>0, TypeParts DEF TablesSame, SessInv, TablesOK
  <2>2. \A b \in index'[d] \cap {c} :
          /\ conn'[b].from = conn[b].from /\ conn'[b].to = conn[b].to
          /\ Served(b, d)'
    BY <1>0 DEF TablesSame, SessInv, Served
  <2>3. \A b \in unpaired'[d] \cap {c} :
          ends'[b][d].st \in {"open", "closed"} /\ b \notin index[d]
    BY <1>0 DEF TablesSame, SessInv
  <2> QED BY <1>0, <2>1, <2>2, <2>3, SessFrame
<1> QED BY <1>1, <1>2, <1>3 DEF DevInv

UnchangedTables ==
  UNCHANGED <<trusted, blocked, task, targets, inFlight, session, index, unpaired>>

\* The same for all devices, of which the others see nothing.
LEMMA MoveStep ==
  ASSUME LinkInv, NEW d \in Devices, NEW c \in Conns, UnchangedTables,
         \A b \in Conns : \A f \in Devices : b # c \/ f # d =>
           SameEnd(b, f) /\ Kept(b, f),
         conn'[c].from = conn[c].from, conn'[c].to = conn[c].to,
         d \in {conn[c].from, conn[c].to}, conn[c].to = d => conn'[c].accepted,
         ends[c][d].st # "racing",
         ends[c][d].st \in DialEnding => ends'[c][d].st \in DialEnding,
         ends[c][d].st \in {"open", "closed"} => ends'[c][d].st = "closed",
         ends'[c][d].st \in Early => ends'[c][d].reason = "none"
  PROVE  \A f \in Devices : DevInv(f)'
<1>1. \A f \in Devices : TablesSame(f)
  BY DEF UnchangedTables, TablesSame
<1>2. ASSUME NEW f \in Devices, f # d PROVE DevInv(f)'
  <2>1. Framed(f, {})
    BY <1>2 DEF Framed
  <2> QED BY <1>1, <2>1, DevFrame
<1>3. DevInv(d)'
  <2>1. Framed(d, {c})
    BY DEF Framed
  <2> QED BY <1>1, <2>1, MoveInv
<1> QED BY <1>2, <1>3

----------------------------------------------------------------------------
(* The tasks of a connection.                                              *)

\* Hello, the end of a session task, and the transport's handshake move one
\* end on.
LEMMA TaskStep ==
  ASSUME LinkInv, NEW c \in Conns, NEW d \in Devices,
         d \in {conn[c].from, conn[c].to},
         \/ HelloDone(c, d) \/ HelloFails(c, d) \/ SessionCloses(c, d)
         \/ SessionTold(c, d) \/ SessionLost(c, d)
  PROVE  \A f \in Devices : DevInv(f)'
<1>0. /\ TypeInv /\ ends \in Ends /\ conn \in ConnTable /\ Joins(conn)
      /\ EndsInv(d)
  BY TypeFacts DEF LinkInv, DevInv
<1>1. UnchangedTables
  BY DEF HelloDone, HelloFails, SessionCloses, SessionTold, SessionLost,
         UnchangedTables, trustVars, dialVars, sessVars
<1>2. /\ ends[c][d].st \in {"hello", "est", "open"}
      /\ conn[c].to = d => conn[c].accepted
  BY <1>0 DEF HelloDone, HelloFails, SessionCloses, SessionTold, SessionLost,
              EndsInv
<1>3. conn[c] \in Connection /\ Peer(c, d) \in Devices
  BY <1>0, PeerType DEF ConnTable
<1>4. \A b \in Conns : \A f \in Devices : Kept(b, f)
  <2>1. CASE HelloDone(c, d)
    <3>1. conn' = AddHello(conn, c, d)
      BY <2>1 DEF HelloDone, AddHello
    <3>2. AddHello(conn, c, d) = [conn EXCEPT ![c] = [conn[c] EXCEPT !.hello = @ \cup {d}]]
      BY DEF AddHello
    <3> QED BY <1>0, <1>3, <3>1, <3>2 DEF Kept, ConnTable, Connection
  <2>2. CASE conn' = conn
    BY <2>2 DEF Kept
  <2> QED BY <2>1, <2>2 DEF HelloFails, SessionCloses, SessionTold, SessionLost
<1>5. /\ \A b \in Conns : \A f \in Devices : b # c \/ f # d => SameEnd(b, f)
      /\ ends[c][d].st \in DialEnding => ends'[c][d].st \in DialEnding
      /\ ends[c][d].st = "open" => ends'[c][d].st = "closed"
      /\ ends'[c][d].st \in Early => ends'[c][d].reason = "none"
  <2>1. CASE HelloDone(c, d)
    <3>1. ends' = SetSt(ends, c, d, "est") /\ ends[c][d].st = "hello"
      BY <2>1 DEF HelloDone, SetSt
    <3>2. ends[c][d].reason = "none"
      BY <1>0, <3>1 DEF EndsInv, Early
    <3> QED BY <1>0, <3>1, <3>2, SetStEnds DEF SameEnd, DialEnding
  <2>2. CASE HelloFails(c, d)
    <3>1. ends' = SetSt(ends, c, d, "hsfail") /\ ends[c][d].st = "hello"
      BY <2>2 DEF HelloFails, SetSt
    <3> QED BY <1>0, <3>1, SetStEnds DEF SameEnd, DialEnding, Early
  <2>3. CASE SessionCloses(c, d)
    <3> DEFINE r == ends[c][d].reason
    <3>0. ends[c][d].st = "open" /\ r \in Reasons \cup {"none"}
      BY <1>0, <2>3, TypeFacts DEF SessionCloses
    <3>1. PICK e : /\ ends' = Ended(e, c, d, r)
                   /\ e = ends \/ e = SetBye(ends, c, Peer(c, d), r)
      BY <2>3 DEF SessionCloses, SetBye
    <3>2. e \in Ends
      BY <1>0, <1>3, <3>0, <3>1, SetByeType
    <3>3. \A b \in Conns : \A f \in Devices :
            e[b][f].st = ends[b][f].st /\ e[b][f].reason = ends[b][f].reason
      BY <1>0, <1>3, <3>1, SetByeEnds
    <3> HIDE DEF r
    <3> QED BY <3>0, <3>1, <3>2, <3>3, EndedEnds DEF SameEnd, DialEnding, Early
  <2>4. CASE SessionTold(c, d) \/ SessionLost(c, d)
    <3>1. PICK r : ends' = Ended(ends, c, d, r)
      BY <2>4 DEF SessionTold, SessionLost
    <3>2. ends[c][d].st \in {"est", "open"}
      BY <2>4 DEF SessionTold, SessionLost
    <3> QED BY <1>0, <3>1, <3>2, EndedEnds DEF SameEnd, DialEnding, Early
  <2> QED BY <2>1, <2>2, <2>3, <2>4
<1>6. conn'[c].from = conn[c].from /\ conn'[c].to = conn[c].to
      /\ (conn[c].to = d => conn'[c].accepted)
  BY <1>2, <1>4 DEF Kept
<1>7. ends[c][d].st # "racing" /\ (ends[c][d].st \in {"open", "closed"} => ends'[c][d].st = "closed")
  BY <1>2, <1>5
<1> QED BY <1>1, <1>4, <1>5, <1>6, <1>7, MoveStep

\* The transport handshake and the start of session::run.
LEMMA HandshakeStep ==
  ASSUME LinkInv, NEW c \in Conns, Accept(c) \/ OnDialed(c) \/ OnIncoming(c)
  PROVE  \A f \in Devices : DevInv(f)'
<1>0. /\ TypeInv /\ ends \in Ends /\ conn \in ConnTable /\ Joins(conn)
      /\ ~Free(c) /\ conn[c] \in Connection
      /\ conn[c].from \in Devices /\ conn[c].to \in Devices
      /\ conn[c].from # conn[c].to
  BY TypeFacts DEF LinkInv, Accept, OnDialed, OnIncoming, ConnTable
<1>1. UnchangedTables
  BY DEF Accept, OnDialed, OnIncoming, UnchangedTables, trustVars, dialVars, sessVars
<1>2. CASE Accept(c)
  <2> DEFINE d == conn[c].to
  <2>1. conn' = SetAccepted(conn, c) /\ ends' = SetSt(ends, c, d, "incoming")
        /\ ~conn[c].accepted
    BY <1>2 DEF Accept, SetAccepted, SetSt
  <2>2. SetAccepted(conn, c) = [conn EXCEPT ![c] = [conn[c] EXCEPT !.accepted = TRUE]]
    BY DEF SetAccepted
  <2>3. ends[c][d].st = "none" /\ ends[c][d].reason = "none"
    BY <1>0, <2>1 DEF LinkInv, DevInv, EndsInv, Early
  <2>40. /\ conn'[c].from = conn[c].from /\ conn'[c].to = conn[c].to
         /\ conn'[c].accepted /\ \A b \in Conns : b # c => conn'[b] = conn[b]
    BY <1>0, <2>1, <2>2 DEF ConnTable, Connection
  <2>4. \A b \in Conns : \A f \in Devices : b # c \/ f # d => Kept(b, f)
    BY <2>40 DEF Kept
  <2>5. /\ ends'[c][d].reason = "none"
        /\ \A b \in Conns : \A f \in Devices : b # c \/ f # d => SameEnd(b, f)
    BY <1>0, <2>1, <2>3, SetStEnds DEF SameEnd
  <2>6. d \in Devices /\ d \in {conn[c].from, conn[c].to}
    BY <1>0
  <2> HIDE DEF d
  <2> QED BY <1>1, <2>3, <2>40, <2>4, <2>5, <2>6, MoveStep DEF DialEnding
<1>3. CASE OnDialed(c)
  <2> DEFINE d == conn[c].from
  <2>1. conn' = AddHello(conn, c, d) /\ ends' = SetSt(ends, c, d, "hello")
        /\ ends[c][d].st = "dialed"
    BY <1>3 DEF OnDialed, AddHello, SetSt
  <2>2. AddHello(conn, c, d) = [conn EXCEPT ![c] = [conn[c] EXCEPT !.hello = @ \cup {d}]]
    BY DEF AddHello
  <2>3. /\ conn'[c].from = conn[c].from /\ conn'[c].to = conn[c].to
        /\ \A b \in Conns : \A f \in Devices : Kept(b, f)
    BY <1>0, <2>1, <2>2 DEF Kept, ConnTable, Connection
  <2>4. /\ ends'[c][d].st = "hello" /\ ends'[c][d].reason = ends[c][d].reason
        /\ \A b \in Conns : \A f \in Devices : b # c \/ f # d => SameEnd(b, f)
    BY <1>0, <2>1, SetStEnds DEF SameEnd
  <2>5. d \in Devices /\ d \in {conn[c].from, conn[c].to} /\ conn[c].to # d
    BY <1>0
  <2>6. ends[c][d].reason = "none"
    BY <2>1, <2>5 DEF LinkInv, DevInv, EndsInv, Early
  <2> HIDE DEF d
  <2> QED BY <1>1, <2>1, <2>3, <2>4, <2>5, <2>6, MoveStep DEF DialEnding
<1>4. CASE OnIncoming(c)
  <2> DEFINE d == conn[c].to
  <2>1. conn' = conn /\ ends' = SetSt(ends, c, d, "hello")
        /\ ends[c][d].st = "incoming"
    BY <1>4 DEF OnIncoming, SetSt
  <2>2. d \in Devices /\ d \in {conn[c].from, conn[c].to}
    BY <1>0
  <2>3. conn[c].accepted /\ ends[c][d].reason = "none"
    BY <2>1, <2>2 DEF LinkInv, DevInv, EndsInv, Early
  <2>4. \A b \in Conns : \A f \in Devices : Kept(b, f)
    BY <2>1 DEF Kept
  <2>5. /\ ends'[c][d].reason = "none"
        /\ \A b \in Conns : \A f \in Devices : b # c \/ f # d => SameEnd(b, f)
    BY <1>0, <2>1, <2>3, SetStEnds DEF SameEnd
  <2> HIDE DEF d
  <2> QED BY <1>1, <2>1, <2>2, <2>3, <2>4, <2>5, MoveStep DEF DialEnding
<1> QED BY <1>2, <1>3, <1>4

SessSame(d) ==
  session'[d] = session[d] /\ index'[d] = index[d] /\ unpaired'[d] = unpaired[d]

\* A step that is not about d's sessions, of connections that are not either.
LEMMA SessKept ==
  ASSUME LinkInv, NEW d \in Devices, NEW X, Framed(d, X), SessSame(d),
         X \cap (index[d] \cup unpaired[d]) = {}
  PROVE  SessInv(d)'
<1>0. TypeInv /\ SessInv(d)
  BY DEF LinkInv, DevInv
<1>1. /\ \A p \in Devices : session'[d][p] # NoConn =>
           session'[d][p] = session[d][p] /\ session'[d][p] \in index'[d]
      /\ index'[d] \subseteq index[d]
      /\ \A b \in index'[d] : session'[d][Peer(b, d)] = b
      /\ unpaired'[d] \subseteq unpaired[d] \cup X /\ unpaired'[d] \subseteq Conns
      /\ index'[d] \cap X = {} /\ unpaired'[d] \cap X = {}
  BY <1>0, TypeParts DEF SessSame, SessInv, TablesOK
<1> QED BY <1>0, <1>1, SessFrame

\* The dial task of c is over: its handle is spent and its result is queued.
LEMMA RaceStep ==
  ASSUME LinkInv, NEW c \in Conns, RaceWins(c) \/ RaceFails(c)
  PROVE  \A f \in Devices : DevInv(f)'
<1>00. PICK d \in Devices : d = conn[c].from
  BY TypeFacts DEF LinkInv, RaceWins, RaceFails
<1>0. TypeInv /\ TablesOK /\ ends \in Ends /\ d # conn[c].to
  BY <1>00, TypeFacts, TypeParts DEF LinkInv, RaceWins, RaceFails
<1>1. PICK s \in {"dialed", "failed"} : ends' = SetSt(ends, c, d, s)
  BY <1>00 DEF RaceWins, RaceFails, SetSt
<1>2. /\ ends[c][d].st = "racing" /\ conn' = conn
      /\ task' = [task EXCEPT ![d] =
                    [p \in Devices |-> IF @[p] = c THEN NoConn ELSE @[p]]]
      /\ UNCHANGED <<trusted, blocked, inFlight, targets, session, index, unpaired>>
  BY <1>00 DEF RaceWins, RaceFails, trustVars, sessVars
<1>3. /\ \A b \in Conns : \A f \in Devices :
           Kept(b, f) /\ (b # c \/ f # d => SameEnd(b, f))
      /\ ends'[c][d].st \in DialEnding /\ ends'[c][d].reason = "none"
  <2>1. ends[c][d].reason = "none"
    BY <1>2 DEF LinkInv, DevInv, EndsInv, Early
  <2> QED BY <1>0, <1>1, <1>2, <2>1, SetStEnds DEF SameEnd, Kept, DialEnding
<1>4. ASSUME NEW f \in Devices, f # d PROVE DevInv(f)'
  <2>1. Framed(f, {}) /\ TablesSame(f)
    BY <1>0, <1>2, <1>3, <1>4 DEF Framed, TablesSame, TablesOK
  <2> QED BY <2>1, DevFrame
<1>5. DevInv(d)'
  <2>0. EndsInv(d) /\ DialsInv(d) /\ SessInv(d) /\ Framed(d, {c}) /\ SessSame(d)
    BY <1>0, <1>2, <1>3 DEF LinkInv, DevInv, Framed, SessSame
  <2>1. EndsInv(d)'
    <3>1. d \in {conn'[c].from, conn'[c].to} /\ conn'[c].to # d
      BY <1>00, <1>0, <1>2
    <3> QED BY <1>3, <2>0, <3>1, EndsFrame
  <2>2. DialsInv(d)'
    <3>1. \A p \in Devices : task'[d][p] # NoConn =>
            task'[d][p] = task[d][p] /\ task[d][p] \notin {c}
      BY <1>0, <1>2 DEF TablesOK
    <3>2. \A b \in targets'[d] \cap {c} :
            /\ conn'[b].from = d /\ conn'[b].to = conn[b].to
            /\ ends'[b][d].st \in DialEnding
      BY <1>00, <1>2, <1>3
    <3>3. /\ targets'[d] \subseteq targets[d] /\ inFlight'[d] \subseteq inFlight[d]
          /\ targets[d] \ targets'[d] = {}
          /\ \A p \in inFlight'[d] : p \in trusted'[d] /\ p \notin blocked'[d]
      BY <1>2, <2>0 DEF DialsInv, FlightInv
    <3> QED BY <1>0, <2>0, <3>1, <3>2, <3>3, DialsFrame
  <2>3. SessInv(d)'
    <3>1. {c} \cap (index[d] \cup unpaired[d]) = {}
      BY <1>2, <2>0 DEF SessInv, Served
    <3> QED BY <1>0, <2>0, <3>1, SessKept
  <2> QED BY <2>1, <2>2, <2>3 DEF DevInv
<1> QED BY <1>4, <1>5

\* The result of a dial, or of its handshake, is handled: c is forgotten, and
\* if it was d's to wait for, the dial state with it.
LEMMA DialOver ==
  ASSUME LinkInv, NEW c \in Conns, NEW d \in Devices, NEW p \in Devices,
         d \in {conn[c].from, conn[c].to}, p = Peer(c, d),
         ends[c][d].st \in {"failed", "hsfail"},
         ends' = SetEnd(ends, c, d, NoEnd), conn' = Reclaim(conn, ends'),
         targets' = [targets EXCEPT ![d] = @ \ {c}],
         \/ /\ inFlight' = [inFlight EXCEPT ![d] = @ \ {p}]
            /\ task' = [task EXCEPT ![d][p] = NoConn]
         \/ /\ UNCHANGED <<inFlight, task>>
            /\ c \notin targets[d] \/ p \notin inFlight[d],
         UNCHANGED <<trusted, blocked, session, index, unpaired>>
  PROVE  \A f \in Devices : DevInv(f)'
<1>0. TypeInv /\ TablesOK /\ ends \in Ends
      /\ NoEnd.st = "none" /\ NoEnd.reason = "none"
  BY TypeFacts, TypeParts DEF LinkInv, NoEnd
<1>1. /\ \A b \in Conns : \A f \in Devices :
           /\ Kept(b, f) \/ ends'[b][f].st = "none"
           /\ b # c \/ f # d => SameEnd(b, f)
      /\ ends'[c][d].st = "none" /\ ends'[c][d].reason = "none"
  <2>1. /\ ends'[c][d].st = "none" /\ ends'[c][d].reason = "none"
        /\ \A b \in Conns : \A f \in Devices : b # c \/ f # d => SameEnd(b, f)
    BY <1>0, SetEndEnds DEF SameEnd
  <2>2. ASSUME NEW b \in Conns, NEW f \in Devices
        PROVE  Kept(b, f) \/ ends'[b][f].st = "none"
    <3>1. conn'[b] = conn[b] \/ \A g \in Devices : ends'[b][g].st = "none"
      BY ReclaimConns
    <3> QED BY <3>1 DEF Kept
  <2> QED BY <2>1, <2>2
<1>2. ASSUME NEW f \in Devices, f # d PROVE DevInv(f)'
  <2>1. Framed(f, {}) /\ TablesSame(f)
    BY <1>0, <1>1, <1>2 DEF Framed, TablesSame, TablesOK
  <2> QED BY <2>1, DevFrame
<1>3. DevInv(d)'
  <2>0. EndsInv(d) /\ DialsInv(d) /\ SessInv(d) /\ Framed(d, {c}) /\ SessSame(d)
    BY <1>0, <1>1 DEF LinkInv, DevInv, Framed, SessSame
  <2>1. EndsInv(d)'
    BY <1>1, <2>0, EndsFrame
  <2>2. DialsInv(d)'
    <3>0. \A q \in Devices : task[d][q] # NoConn => task[d][q] # c
      BY <2>0 DEF DialsInv, TasksInv
    <3>1. \A q \in Devices : task'[d][q] # NoConn =>
            task'[d][q] = task[d][q] /\ task[d][q] \notin {c}
      BY <1>0, <3>0 DEF TablesOK
    <3>2. targets'[d] = targets[d] \ {c} /\ inFlight'[d] \subseteq inFlight[d]
      BY <1>0 DEF TablesOK
    <3>3. \A q \in inFlight'[d] : q \in trusted'[d] /\ q \notin blocked'[d]
      BY <2>0, <3>2 DEF DialsInv, FlightInv
    <3>4. c \in targets[d] => conn[c].to = p
      BY <2>0 DEF DialsInv, TargetsInv, Peer
    <3>5. \A q \in inFlight'[d] : \A b \in targets[d] \ targets'[d] : conn[b].to # q
      BY <1>0, <3>2, <3>4 DEF TablesOK
    <3> QED BY <1>0, <2>0, <3>1, <3>2, <3>3, <3>5, DialsFrame
  <2>3. SessInv(d)'
    <3>1. {c} \cap (index[d] \cup unpaired[d]) = {}
      BY <2>0 DEF SessInv, Served
    <3> QED BY <1>0, <2>0, <3>1, SessKept
  <2> QED BY <2>1, <2>2, <2>3 DEF DevInv
<1> QED BY <1>2, <1>3

\* No end appears: each connection of d is as it was, or d has left it.
LEMMA EndsKept ==
  ASSUME NEW d \in Devices, EndsInv(d),
         \A b \in Conns :
           /\ Kept(b, d) \/ ends'[b][d].st = "none"
           /\ ends[b][d].st = "none" => ends'[b][d].st = "none"
           /\ ends'[b][d].st \in Early => ends'[b][d].reason = "none"
  PROVE  EndsInv(d)'
  BY DEF EndsInv, Kept

\* cancel_dial, with whatever happens to connections with the same peer.
LEMMA CancelInv ==
  ASSUME LinkInv, NEW d \in Devices, NEW p \in Devices, NEW X, Framed(d, X),
         CancelDial(d, p),
         \A c \in X \cap Conns : Peer(c, d) = p,
         \A q \in inFlight[d] \ {p} : q \in trusted'[d] /\ q \notin blocked'[d]
  PROVE  DialsInv(d)'
<1>0. TypeInv /\ TablesOK /\ DialsInv(d)
  BY TypeParts DEF LinkInv, DevInv
<1>1. /\ inFlight'[d] = inFlight[d] \ {p}
      /\ targets'[d] = {c \in targets[d] : Peer(c, d) # p}
      /\ \A q \in Devices : task'[d][q] = IF q = p THEN NoConn ELSE task[d][q]
  BY <1>0 DEF CancelDial, TablesOK
<1>2. \A c \in targets[d] : c \in Conns /\ Peer(c, d) = conn[c].to
  BY <1>0 DEF DialsInv, TargetsInv, Peer, TablesOK
<1>3. \A q \in Devices : task'[d][q] # NoConn =>
        task'[d][q] = task[d][q] /\ task[d][q] \notin X
  <2> SUFFICES ASSUME NEW q \in Devices, task'[d][q] # NoConn
               PROVE  task'[d][q] = task[d][q] /\ task[d][q] \notin X
    OBVIOUS
  <2>1. q # p /\ task[d][q] # NoConn /\ task[d][q] \in Conns
    BY <1>0, <1>1 DEF TablesOK
  <2>2. Peer(task[d][q], d) = q
    BY <1>0, <2>1 DEF DialsInv, TasksInv, Peer
  <2> QED BY <1>1, <2>1, <2>2
<1>4. targets'[d] \cap X = {} /\ targets'[d] \subseteq targets[d]
      /\ inFlight'[d] \subseteq inFlight[d]
  BY <1>1, <1>2
<1>5. \A q \in inFlight'[d] :
        /\ q \in trusted'[d] /\ q \notin blocked'[d]
        /\ \A c \in targets[d] \ targets'[d] : conn[c].to # q
  BY <1>1, <1>2
<1> QED BY <1>0, <1>3, <1>4, <1>5, DialsFrame

\* What d does to its ends of some connections, and to no other device.
OnlyEnds(d, X) ==
  \A b \in Conns : \A f \in Devices :
    /\ Kept(b, f) \/ ends'[b][f].st = "none"
    /\ f # d \/ b \notin X => SameEnd(b, f)

OnlyTables(d) == \A f \in Devices \ {d} : TablesSame(f)

\* What d does leaves the invariant of the other devices alone.
LEMMA OthersInv ==
  ASSUME LinkInv, NEW d \in Devices, NEW X, OnlyEnds(d, X), OnlyTables(d)
  PROVE  Framed(d, X) /\ \A f \in Devices \ {d} : DevInv(f)'
<1>1. Framed(d, X)
  BY DEF OnlyEnds, Framed
<1>2. ASSUME NEW f \in Devices, f # d PROVE DevInv(f)'
  <2>1. Framed(f, {}) /\ TablesSame(f)
    BY <1>2 DEF OnlyEnds, OnlyTables, Framed
  <2> QED BY <2>1, DevFrame
<1> QED BY <1>1, <1>2

\* A new dial: a free slot becomes a connection that d dials.
LEMMA DialInv ==
  ASSUME LinkInv, NEW d \in Devices, NEW p \in Devices \ {d},
         NEW w \in SUBSET Devices, MayDial(d, p), Dial(d, p, w),
         UNCHANGED <<trusted, blocked, session, index, unpaired>>
  PROVE  \A f \in Devices : DevInv(f)'
<1>0. TypeInv /\ TablesOK /\ ends \in Ends /\ conn \in ConnTable
      /\ EndsInv(d) /\ DialsInv(d) /\ SessInv(d)
  BY TypeFacts, TypeParts DEF LinkInv, DevInv
<1>1. CASE UNCHANGED <<inFlight, task, targets, conn, ends>>
  <2>1. \A f \in Devices : Framed(f, {}) /\ TablesSame(f)
    BY <1>1 DEF Framed, TablesSame, SameEnd, Kept
  <2> QED BY <2>1, DevFrame
<1>2. CASE p \in addr[d]
  <2> DEFINE x == [from |-> d, to |-> p, accepted |-> FALSE, cut |-> FALSE,
                   hello |-> {}, ticket |-> {}]
             y == [NoEnd EXCEPT !.st = "racing"]
  <2>1. PICK c \in Conns :
          /\ Free(c)
          /\ conn' = [conn EXCEPT ![c] = x]
          /\ ends' = SetEnd(ends, c, d, y)
          /\ task' = [task EXCEPT ![d][p] = c]
          /\ targets' = [targets EXCEPT ![d] = @ \cup {c}]
    BY <1>2 DEF Dial, SetEnd
  <2>2. inFlight' = [inFlight EXCEPT ![d] = @ \cup {p}]
    BY <1>2 DEF Dial
  <2>3. x.from = d /\ x.to = p /\ y.st = "racing" /\ y.reason = "none"
    BY DEF NoEnd
  <2> HIDE DEF x, y
  <2>4. \A f \in Devices : ends[c][f].st = "none"
    BY <2>1, DevicesAssumption DEF LinkInv, DevInv, EndsInv, Free, Idle, NoDevice
  <2>5. /\ conn'[c].from = d /\ conn'[c].to = p
        /\ ends'[c][d].st = "racing" /\ ends'[c][d].reason = "none"
        /\ \A b \in Conns : \A f \in Devices :
             b # c \/ f # d => ends'[b][f] = ends[b][f]
        /\ \A b \in Conns : b # c => conn'[b] = conn[b]
    BY <1>0, <2>1, <2>3, SetEndEnds DEF ConnTable
  <2>6. ASSUME NEW f \in Devices, f # d PROVE DevInv(f)'
    <3>1. Framed(f, {}) /\ TablesSame(f)
      BY <1>0, <2>1, <2>2, <2>4, <2>5, <2>6
         DEF Framed, TablesSame, SameEnd, Kept, TablesOK
    <3> QED BY <3>1, DevFrame
  <2>7. DevInv(d)'
    <3>0. Framed(d, {c}) /\ SessSame(d)
      BY <2>5 DEF Framed, SameEnd, Kept, SessSame
    <3>1. EndsInv(d)'
      BY <1>0, <2>5, <3>0, EndsFrame
    <3>2. /\ c \notin index[d] /\ c \notin unpaired[d] /\ c \notin targets[d]
          /\ \A q \in Devices : task[d][q] # c
      BY <1>0, <2>4, ConnsAssumption
         DEF SessInv, Served, DialsInv, TargetsInv, TasksInv, DialEnding
    <3>3. SessInv(d)'
      BY <3>0, <3>2, SessKept
    <3>4. TasksInv(d)'
      <4> SUFFICES ASSUME NEW q \in Devices, task'[d][q] # NoConn
                   PROVE  /\ ends'[task'[d][q]][d].st = "racing"
                          /\ conn'[task'[d][q]].from = d
                          /\ conn'[task'[d][q]].to = q
        BY DEF TasksInv
      <4>1. CASE q = p
        <5>1. task'[d][q] = c
          BY <1>0, <2>1, <4>1 DEF TablesOK
        <5> QED BY <2>5, <4>1, <5>1
      <4>2. CASE q # p
        <5>1. task'[d][q] = task[d][q] /\ task[d][q] \in Conns \ {c}
          BY <1>0, <2>1, <3>2, <4>2 DEF TablesOK
        <5> QED BY <1>0, <2>5, <5>1 DEF DialsInv, TasksInv
      <4> QED BY <4>1, <4>2
    <3>5. targets'[d] = targets[d] \cup {c} /\ inFlight'[d] = inFlight[d] \cup {p}
      BY <1>0, <2>1, <2>2 DEF TablesOK
    <3>6. \A b \in targets[d] : b \in Conns \ {c}
      BY <1>0, <3>2 DEF TablesOK
    <3>7. TargetsInv(d)'
      BY <1>0, <2>5, <3>5, <3>6 DEF DialsInv, TargetsInv, DialEnding
    <3>8. FlightInv(d)'
      <4> SUFFICES ASSUME NEW q \in inFlight'[d]
                   PROVE  /\ q \in trusted'[d] /\ q \notin blocked'[d]
                          /\ \E b \in targets'[d] : conn'[b].to = q
        BY DEF FlightInv
      <4>1. CASE q = p
        BY <2>5, <3>5, <4>1 DEF MayDial
      <4>2. CASE q \in inFlight[d]
        BY <1>0, <2>5, <3>5, <3>6, <4>2 DEF DialsInv, FlightInv
      <4> QED BY <3>5, <4>1, <4>2
    <3> QED BY <3>1, <3>3, <3>4, <3>7, <3>8 DEF DevInv, DialsInv
  <2> QED BY <2>6, <2>7
<1> QED BY <1>1, <1>2 DEF Dial

----------------------------------------------------------------------------
(* Session events in the actor.                                            *)

\* Established is taken, x is told to close and the dial t is aborted.
LEMMA PromoteEnds ==
  ASSUME ends \in Ends, NEW c \in Conns, NEW d \in Devices,
         NEW x \in Conns \cup {NoConn}, NEW t \in Conns \cup {NoConn},
         NEW r \in Reasons,
         ends[c][d].st \in {"est", "estclosed"},
         x # c => x = NoConn \/ ends[x][d].st \in {"open", "closed"},
         t # NoConn => ends[t][d].st = "racing",
         ends' = Abort(Close(Taken(ends, c, d), x, d, r), t, d)
  PROVE  /\ \A b \in Conns : \A f \in Devices :
              f # d \/ b \notin {c, x, t} => SameEnd(b, f)
         /\ ends'[c][d].st = IF ends[c][d].st = "est" THEN "open" ELSE "closed"
         /\ x # c => ends'[c][d].reason = ends[c][d].reason
         /\ x # c /\ x # NoConn => ends'[x][d].st = ends[x][d].st
         /\ t # NoConn => ends'[t][d] = NoEnd
<1>0. PICK e : e = Taken(ends, c, d)
  OBVIOUS
<1>00. PICK g : g = Close(e, x, d, r)
  OBVIOUS
<1>1. e \in Ends /\ g \in Ends
  BY <1>0, <1>00, TakenType, CloseType
<1>2. /\ \A b \in Conns : \A f \in Devices : b # c \/ f # d => e[b][f] = ends[b][f]
      /\ e[c][d].st = IF ends[c][d].st = "est" THEN "open" ELSE "closed"
      /\ e[c][d].reason = ends[c][d].reason
  BY <1>0, TakenEnds
<1>3. \A b \in Conns : \A f \in Devices :
        /\ g[b][f].st = e[b][f].st
        /\ b # x \/ f # d => g[b][f].reason = e[b][f].reason
  <2> SUFFICES ASSUME NEW b \in Conns, NEW f \in Devices
               PROVE  /\ g[b][f].st = e[b][f].st
                      /\ b # x \/ f # d => g[b][f].reason = e[b][f].reason
    OBVIOUS
  <2>1. CASE x = NoConn
    BY <1>00, <2>1 DEF Close
  <2>2. CASE x \in Conns
    BY <1>00, <1>1, <2>2, CloseEnds
  <2> QED BY <2>1, <2>2
<1>4. \A b \in Conns : \A f \in Devices :
        /\ b # t \/ f # d => ends'[b][f] = g[b][f]
        /\ b = t /\ f = d => ends'[b][f] = IF g[b][f].st = "racing" THEN NoEnd
                                           ELSE g[b][f]
  BY <1>0, <1>00, <1>1, AbortEnds
<1>5. t # c /\ (x # NoConn => x # t)
  BY ConnsAssumption
<1> QED BY <1>2, <1>3, <1>4, <1>5 DEF SameEnd

\* What Promote makes of the connections.
LEMMA PromoteConns ==
  ASSUME TypeInv, NEW c \in Conns, NEW d \in Devices,
         \/ conn' = Reclaim(conn, ends')
         \/ conn' = Reclaim(AddTicket(conn, c, d), ends')
  PROVE  \A b \in Conns : \A f \in Devices : Kept(b, f) \/ ends'[b][f].st = "none"
<1> SUFFICES ASSUME NEW b \in Conns, NEW f \in Devices
             PROVE  Kept(b, f) \/ ends'[b][f].st = "none"
  OBVIOUS
<1>1. conn[b] \in Connection /\ conn \in ConnTable
  BY TypeFacts DEF ConnTable
<1>2. CASE conn' = Reclaim(conn, ends')
  <2>1. conn'[b] = conn[b] \/ \A g \in Devices : ends'[b][g].st = "none"
    BY <1>2, ReclaimConns
  <2> QED BY <2>1 DEF Kept
<1>3. CASE conn' = Reclaim(AddTicket(conn, c, d), ends')
  <2> DEFINE cn == AddTicket(conn, c, d)
  <2>1. cn = [conn EXCEPT ![c] = [conn[c] EXCEPT !.ticket = @ \cup {d}]]
    BY DEF AddTicket
  <2>2. /\ cn[b].from = conn[b].from /\ cn[b].to = conn[b].to
        /\ cn[b].accepted = conn[b].accepted
    BY <1>1, <2>1 DEF ConnTable, Connection
  <2>3. conn'[b] = cn[b] \/ \A g \in Devices : ends'[b][g].st = "none"
    BY <1>3, ReclaimConns
  <2> HIDE DEF cn
  <2> QED BY <2>2, <2>3 DEF Kept
<1> QED BY <1>2, <1>3

\* promote_session: the new connection or the old one is told to close, the
\* dial under way is cancelled and the tables name the winner.
LEMMA PromoteInv ==
  ASSUME LinkInv, NEW c \in Conns, NEW d \in Devices,
         d \in {conn[c].from, conn[c].to}, Promote(c, d)
  PROVE  \A f \in Devices : DevInv(f)'
<1>00. PICK p \in Devices : p = Peer(c, d)
  BY TypeFacts, PeerType DEF LinkInv
<1>01. PICK old \in Conns \cup {NoConn} : old = session[d][p]
  BY TypeParts DEF LinkInv, TablesOK
<1>02. PICK t \in Conns \cup {NoConn} : t = task[d][p]
  BY TypeParts DEF LinkInv, TablesOK
<1>0. /\ TypeInv /\ TablesOK /\ ends \in Ends
      /\ EndsInv(d) /\ DialsInv(d) /\ SessInv(d)
  BY TypeFacts, TypeParts DEF LinkInv, DevInv
<1>1. /\ ends[c][d].st \in {"est", "estclosed"}
      /\ old # NoConn => ends[old][d].st \in {"open", "closed"} /\ Peer(old, d) = p
      /\ t # NoConn => ends[t][d].st = "racing" /\ Peer(t, d) = p
  BY <1>0, <1>00, <1>01, <1>02
     DEF Promote, SessInv, Served, DialsInv, TasksInv, Peer
<1>2. PICK x \in {c, old} :
        /\ ends' = Abort(Close(Taken(ends, c, d), x, d, "Superseded"), t, d)
        /\ \/ x = c /\ UNCHANGED sessVars
           \/ /\ x = old
              /\ session' = [session EXCEPT ![d][p] = c]
              /\ index' = [index EXCEPT ![d] = (@ \ {old}) \cup {c}]
              /\ UNCHANGED unpaired
  BY <1>00, <1>01, <1>02 DEF Promote
<1>3. /\ CancelDial(d, p) /\ UNCHANGED <<trusted, blocked>>
      /\ \/ conn' = Reclaim(conn, ends')
         \/ conn' = Reclaim(AddTicket(conn, c, d), ends')
  BY <1>00 DEF Promote, AddTicket, trustVars
<1>4. /\ \A b \in Conns : \A f \in Devices :
           f # d \/ b \notin {c, x, t} => SameEnd(b, f)
      /\ ends'[c][d].st = IF ends[c][d].st = "est" THEN "open" ELSE "closed"
      /\ x # c => ends'[c][d].reason = ends[c][d].reason
      /\ x # c /\ x # NoConn => ends'[x][d].st = ends[x][d].st
      /\ t # NoConn => ends'[t][d] = NoEnd
  <2>1. "Superseded" \in Reasons
    BY DEF Reasons
  <2> QED BY <1>0, <1>1, <1>2, <2>1, PromoteEnds
<1>5. OnlyEnds(d, {c, x, t})
  BY <1>0, <1>3, <1>4, PromoteConns DEF OnlyEnds
<1>6. OnlyTables(d)
  <2>1. \A f \in Devices \ {d} : session'[f] = session[f] /\ index'[f] = index[f]
                                 /\ unpaired'[f] = unpaired[f]
    BY <1>0, <1>2 DEF TablesOK, sessVars
  <2> QED BY <1>0, <1>3, <2>1 DEF OnlyTables, TablesSame, CancelDial, TablesOK
<1>7. Framed(d, {c, x, t}) /\ \A f \in Devices \ {d} : DevInv(f)'
  BY <1>5, <1>6, OthersInv
<1>8. EndsInv(d)'
  <2>1. ASSUME NEW b \in Conns
        PROVE  /\ Kept(b, d) \/ ends'[b][d].st = "none"
               /\ ends[b][d].st = "none" => ends'[b][d].st = "none"
               /\ ends'[b][d].st \in Early => ends'[b][d].reason = "none"
    <3>1. Kept(b, d) \/ ends'[b][d].st = "none"
      BY <1>5 DEF OnlyEnds
    <3>2. CASE b \notin {c, x, t}
      BY <1>0, <1>4, <3>1, <3>2 DEF SameEnd, EndsInv
    <3>3. CASE b = c
      BY <1>1, <1>4, <3>1, <3>3 DEF Early
    <3>4. CASE b = t
      BY <1>1, <1>4, <3>1, <3>4, ConnsAssumption DEF NoEnd
    <3>5. CASE b = x /\ b # c
      BY <1>1, <1>2, <1>4, <3>1, <3>5, ConnsAssumption DEF Early
    <3> QED BY <3>2, <3>3, <3>4, <3>5
  <2> QED BY <1>0, <2>1, EndsKept
<1>9. DialsInv(d)'
  <2>1. \A b \in {c, x, t} \cap Conns : Peer(b, d) = p
    BY <1>00, <1>1, <1>2, ConnsAssumption
  <2>2. \A q \in inFlight[d] \ {p} : q \in trusted'[d] /\ q \notin blocked'[d]
    BY <1>0, <1>3 DEF DialsInv, FlightInv
  <2> QED BY <1>3, <1>7, <2>1, <2>2, CancelInv
<1>10. SessInv(d)'
  <2>0. /\ c \notin index[d] /\ c \notin unpaired[d]
        /\ t \notin index[d] /\ t \notin unpaired[d]
        /\ index[d] \subseteq Conns /\ unpaired[d] \subseteq Conns
    <3>1. index[d] \subseteq Conns /\ unpaired[d] \subseteq Conns
      BY <1>0 DEF TablesOK
    <3>2. \A b \in index[d] \cup unpaired[d] : ends[b][d].st \in {"open", "closed"}
      BY <1>0 DEF SessInv, Served
    <3>3. c \notin index[d] \cup unpaired[d]
      BY <1>1, <3>2
    <3>4. t \notin index[d] \cup unpaired[d]
      BY <1>1, <3>1, <3>2, ConnsAssumption
    <3> QED BY <3>1, <3>3, <3>4
  <2>1. CASE x = c
    <3>1. SessSame(d)
      <4>1. CASE UNCHANGED sessVars
        BY <4>1 DEF sessVars, SessSame
      <4>2. CASE x = old
        BY <1>1, <2>1, <4>2, ConnsAssumption
      <4> QED BY <1>2, <4>1, <4>2
    <3> QED BY <1>7, <2>0, <2>1, <3>1, SessKept
  <2>2. CASE x # c
    <3>1. /\ x = old /\ unpaired' = unpaired
          /\ session'[d] = [session[d] EXCEPT ![p] = c]
          /\ index'[d] = (index[d] \ {old}) \cup {c}
      BY <1>0, <1>2, <2>2 DEF TablesOK
    <3>2. c # old
      BY <2>2, <3>1
    <3>3. \A b \in index[d] \ {old} : b \in Conns /\ SameEnd(b, d) /\ Served(b, d)
      BY <1>0, <1>4, <2>0, <3>1 DEF SessInv
    <3>4. \A b \in index[d] \ {old} :
            Kept(b, d) /\ Served(b, d)' /\ session[d][Peer(b, d)] = b
      BY <1>0, <1>5, <3>3 DEF SameEnd, Served, OnlyEnds, SessInv
    <3>5. Kept(c, d) /\ Served(c, d)'
      <4>1. ends[c][d].st = "est" => ends[c][d].reason = "none"
        BY <1>0 DEF EndsInv, Early
      <4> QED BY <1>1, <1>4, <1>5, <2>2, <4>1 DEF Served, OnlyEnds
    <3>6. Peer(c, d)' = p
      BY <1>00, <3>5 DEF Peer, Kept
    <3>7. \A b \in index[d] \ {old} : Peer(b, d)' = Peer(b, d) /\ Peer(b, d) # p
      BY <1>01, <3>4 DEF Peer, Kept
    <3>8. \A b \in index'[d] : session'[d][Peer(b, d)'] = b /\ Served(b, d)'
      <4> SUFFICES ASSUME NEW b \in index'[d]
                   PROVE  session'[d][Peer(b, d)'] = b /\ Served(b, d)'
        OBVIOUS
      <4>1. CASE b = c
        BY <1>0, <3>1, <3>5, <3>6, <4>1 DEF TablesOK
      <4>2. CASE b \in index[d] \ {old}
        <5>1. session[d] \in [Devices -> Conns \cup {NoConn}]
          BY <1>0 DEF TablesOK
        <5> QED BY <3>1, <3>4, <3>7, <4>2, <5>1
      <4> QED BY <3>1, <4>1, <4>2
    <3>9. ASSUME NEW q \in Devices, session'[d][q] # NoConn
          PROVE  (session[d][q] \in index[d] /\ Peer(session[d][q], d) = q)'
      <4>0. session[d] \in [Devices -> Conns \cup {NoConn}]
        BY <1>0 DEF TablesOK
      <4>1. CASE q = p
        <5>1. session'[d][q] = c
          BY <3>1, <4>0, <4>1
        <5> QED BY <3>1, <3>6, <4>1, <5>1 DEF Peer
      <4>2. CASE q # p
        <5>1. session'[d][q] = session[d][q] /\ session[d][q] \in index[d]
              /\ Peer(session[d][q], d) = q
          BY <1>0, <3>1, <3>9, <4>0, <4>2 DEF SessInv
        <5>2. session[d][q] # old
          BY <1>1, <3>9, <4>2, <5>1
        <5>3. session[d][q] \in index[d] \ {old}
          BY <5>1, <5>2
        <5>4. PICK b \in index[d] \ {old} : b = session[d][q]
          BY <5>3
        <5>5. Peer(b, d)' = q
          BY <3>7, <5>1, <5>4
        <5> QED BY <3>1, <5>1, <5>4, <5>5 DEF Peer
      <4> QED BY <4>1, <4>2
    <3>10. \A b \in unpaired'[d] : ends'[b][d].st \in {"open", "closed"}
      <4>1. \A b \in unpaired[d] : b # old
        BY <1>0, <1>01, ConnsAssumption DEF SessInv, TablesOK
      <4> QED BY <1>0, <1>4, <2>0, <3>1, <4>1 DEF SessInv, SameEnd
    <3>11. index'[d] \cap unpaired'[d] = {}
      BY <1>0, <2>0, <3>1 DEF SessInv
    <3> QED BY <3>8, <3>9, <3>10, <3>11 DEF SessInv
  <2> QED BY <2>1, <2>2
<1> QED BY <1>7, <1>8, <1>9, <1>10 DEF DevInv

\* Established of c is taken and c becomes no session of d: it is refused, or
\* kept for pairing.
LEMMA TakenInv ==
  ASSUME LinkInv, NEW c \in Conns, NEW d \in Devices,
         d \in {conn[c].from, conn[c].to},
         ends[c][d].st \in {"est", "estclosed"}, conn' = conn,
         \A b \in Conns : \A f \in Devices : b # c \/ f # d => SameEnd(b, f),
         ends'[c][d].st \in {"open", "closed"},
         targets' = [targets EXCEPT ![d] = @ \ {c}],
         c \in targets[d] => Peer(c, d) \notin inFlight[d],
         \/ unpaired' = unpaired
         \/ unpaired' = [unpaired EXCEPT ![d] = @ \cup {c}],
         UNCHANGED <<trusted, blocked, task, inFlight, session, index>>
  PROVE  \A f \in Devices : DevInv(f)'
<1>0. TypeInv /\ TablesOK /\ EndsInv(d) /\ DialsInv(d) /\ SessInv(d)
  BY TypeFacts, TypeParts DEF LinkInv, DevInv
<1>1. OnlyEnds(d, {c})
  BY DEF OnlyEnds, Kept
<1>2. OnlyTables(d)
  BY <1>0 DEF OnlyTables, TablesSame, TablesOK
<1>3. Framed(d, {c}) /\ \A f \in Devices \ {d} : DevInv(f)'
  BY <1>1, <1>2, OthersInv
<1>4. EndsInv(d)'
  <2>1. ends'[c][d].st \notin Early
    BY DEF Early
  <2>2. conn[c].to = d => conn[c].accepted
    BY <1>0 DEF EndsInv
  <2> QED BY <1>0, <1>3, <2>1, <2>2, EndsFrame
<1>5. DialsInv(d)'
  <2>1. targets'[d] = targets[d] \ {c}
    BY <1>0 DEF TablesOK
  <2>2. \A q \in Devices : task'[d][q] # NoConn =>
          task'[d][q] = task[d][q] /\ task[d][q] \notin {c}
    BY <1>0 DEF DialsInv, TasksInv
  <2>3. \A q \in inFlight'[d] : q \in trusted'[d] /\ q \notin blocked'[d]
    BY <1>0 DEF DialsInv, FlightInv
  <2>4. c \in targets[d] => conn[c].to \notin inFlight[d]
    BY <1>0 DEF DialsInv, TargetsInv, Peer
  <2>5. \A q \in inFlight'[d] : \A b \in targets[d] \ targets'[d] : conn[b].to # q
    BY <2>1, <2>4
  <2>6. targets'[d] \subseteq targets[d] /\ targets'[d] \cap {c} = {}
        /\ inFlight'[d] \subseteq inFlight[d]
    BY <2>1
  <2> QED BY <1>0, <1>3, <2>2, <2>3, <2>5, <2>6, DialsFrame
<1>6. SessInv(d)'
  <2>1. c \notin index[d] /\ index[d] \subseteq Conns /\ unpaired[d] \subseteq Conns
    BY <1>0 DEF SessInv, Served, TablesOK
  <2>2. unpaired'[d] \subseteq unpaired[d] \cup {c}
    BY <1>0 DEF TablesOK
  <2>3. /\ unpaired'[d] \subseteq Conns
        /\ \A p \in Devices : session'[d][p] # NoConn =>
             session'[d][p] = session[d][p] /\ session'[d][p] \in index'[d]
        /\ index'[d] \subseteq index[d] /\ index'[d] \cap {c} = {}
        /\ \A b \in index'[d] : session'[d][Peer(b, d)] = b
        /\ \A b \in unpaired'[d] \cap {c} :
             ends'[b][d].st \in {"open", "closed"} /\ b \notin index[d]
    BY <1>0, <2>1, <2>2 DEF SessInv
  <2> QED BY <1>0, <1>3, <2>2, <2>3, SessFrame
<1> QED BY <1>3, <1>4, <1>5, <1>6 DEF DevInv

\* on_established for a peer that gets no session.
LEMMA RefuseStep ==
  ASSUME LinkInv, NEW c \in Conns, NEW d \in Devices,
         d \in {conn[c].from, conn[c].to},
         Refuse(c, d) \/ AdmitUnpaired(c, d)
  PROVE  \A f \in Devices : DevInv(f)'
<1>0. TypeInv /\ TablesOK /\ ends \in Ends /\ DialsInv(d)
  BY TypeFacts, TypeParts DEF LinkInv, DevInv
<1>1. /\ ends[c][d].st \in {"est", "estclosed"} /\ conn' = conn
      /\ UNCHANGED <<trusted, blocked, task, inFlight, session, index>>
      /\ unpaired' = unpaired \/ unpaired' = [unpaired EXCEPT ![d] = @ \cup {c}]
  BY DEF Refuse, AdmitUnpaired, trustVars, dialVars, sessVars
<1>2. /\ \A b \in Conns : \A f \in Devices : b # c \/ f # d => SameEnd(b, f)
      /\ ends'[c][d].st \in {"open", "closed"}
  <2>0. PICK e : e = Taken(ends, c, d)
    OBVIOUS
  <2>1. e \in Ends
    BY <1>0, <2>0, TakenType
  <2>2. /\ \A b \in Conns : \A f \in Devices : b # c \/ f # d => e[b][f] = ends[b][f]
        /\ e[c][d].st \in {"open", "closed"}
    BY <1>0, <2>0, TakenEnds
  <2>3. PICK r \in Reasons : ends' = e \/ ends' = Close(e, c, d, r)
    BY <2>0 DEF Refuse, AdmitUnpaired, Reasons
  <2>4. \A b \in Conns : \A f \in Devices :
          /\ ends'[b][f].st = e[b][f].st
          /\ b # c \/ f # d => ends'[b][f].reason = e[b][f].reason
    <3>1. CASE ends' = e
      BY <3>1
    <3>2. CASE ends' = Close(e, c, d, r)
      BY <2>1, <3>2, CloseEnds
    <3> QED BY <2>3, <3>1, <3>2
  <2> QED BY <2>2, <2>4 DEF SameEnd
<1>3. /\ targets' = [targets EXCEPT ![d] = @ \ {c}]
      /\ c \in targets[d] => Peer(c, d) \notin inFlight[d]
  <2>1. CASE Refuse(c, d)
    BY <1>0, <2>1 DEF Refuse, Admits, DialsInv, FlightInv
  <2>2. CASE AdmitUnpaired(c, d)
    <3>1. targets' = targets /\ c \notin targets[d]
      BY <1>0, <2>2 DEF AdmitUnpaired, dialVars, DialsInv, TargetsInv
    <3> QED BY <1>0, <3>1 DEF TablesOK
  <2> QED BY <2>1, <2>2
<1> QED BY <1>1, <1>2, <1>3, TakenInv

\* d sends an unpaired connection away.
LEMMA UnpairedStep ==
  ASSUME LinkInv, NEW c \in Conns, NEW d \in Devices,
         UnpairedTalks(c, d) \/ UnpairedExpires(c, d)
  PROVE  \A f \in Devices : DevInv(f)'
<1>0. TypeInv /\ TablesOK /\ ends \in Ends
      /\ EndsInv(d) /\ DialsInv(d) /\ SessInv(d)
  BY TypeFacts, TypeParts DEF LinkInv, DevInv
<1>1. /\ c \in unpaired[d] /\ conn' = conn
      /\ unpaired' = [unpaired EXCEPT ![d] = @ \ {c}]
      /\ UNCHANGED <<trusted, blocked, task, targets, inFlight, session, index>>
  BY DEF UnpairedTalks, UnpairedExpires, trustVars, dialVars
<1>2. PICK r \in Reasons : ends' = Close(ends, c, d, r)
  BY DEF UnpairedTalks, UnpairedExpires, Reasons
<1>3. /\ ends[c][d].st \in {"open", "closed"} /\ c \notin index[d]
      /\ c \notin targets[d] /\ \A q \in Devices : task[d][q] # c
  BY <1>0, <1>1, ConnsAssumption
     DEF SessInv, DialsInv, TargetsInv, TasksInv, DialEnding
<1>4. \A b \in Conns : \A f \in Devices :
        /\ ends'[b][f].st = ends[b][f].st
        /\ b # c \/ f # d => SameEnd(b, f)
  BY <1>0, <1>2, CloseEnds DEF SameEnd
<1>5. OnlyEnds(d, {c}) /\ OnlyTables(d)
  <2>1. OnlyEnds(d, {c})
    BY <1>1, <1>4 DEF OnlyEnds, Kept
  <2>2. OnlyTables(d)
    BY <1>0, <1>1 DEF OnlyTables, TablesSame, TablesOK
  <2> QED BY <2>1, <2>2
<1>6. Framed(d, {c}) /\ \A f \in Devices \ {d} : DevInv(f)'
  BY <1>5, OthersInv
<1>7. EndsInv(d)'
  <2>1. \A b \in Conns :
          /\ Kept(b, d)
          /\ ends[b][d].st = "none" => ends'[b][d].st = "none"
          /\ ends'[b][d].st \in Early => ends'[b][d].reason = "none"
    <3> SUFFICES ASSUME NEW b \in Conns
                 PROVE  /\ Kept(b, d)
                        /\ ends[b][d].st = "none" => ends'[b][d].st = "none"
                        /\ ends'[b][d].st \in Early => ends'[b][d].reason = "none"
      OBVIOUS
    <3>1. Kept(b, d) /\ ends'[b][d].st = ends[b][d].st
      BY <1>1, <1>4 DEF Kept
    <3>2. CASE b = c
      BY <1>3, <3>1, <3>2 DEF Early
    <3>3. CASE b # c
      BY <1>0, <1>4, <3>1, <3>3 DEF SameEnd, EndsInv
    <3> QED BY <3>1, <3>2, <3>3
  <2> QED BY <1>0, <2>1, EndsKept
<1>8. DialsInv(d)'
  <2>1. /\ \A q \in Devices : task'[d][q] # NoConn =>
             task'[d][q] = task[d][q] /\ task[d][q] \notin {c}
        /\ targets'[d] \subseteq targets[d] /\ targets'[d] \cap {c} = {}
        /\ inFlight'[d] \subseteq inFlight[d] /\ targets[d] \ targets'[d] = {}
    BY <1>1, <1>3
  <2>2. \A q \in inFlight'[d] : q \in trusted'[d] /\ q \notin blocked'[d]
    BY <1>0, <1>1 DEF DialsInv, FlightInv
  <2> QED BY <1>0, <1>6, <2>1, <2>2, DialsFrame
<1>9. SessInv(d)'
  <2>1. unpaired'[d] = unpaired[d] \ {c} /\ unpaired[d] \subseteq Conns
    BY <1>0, <1>1 DEF TablesOK
  <2>2. /\ unpaired'[d] \subseteq Conns
        /\ unpaired'[d] \subseteq unpaired[d] \cup {c} /\ unpaired'[d] \cap {c} = {}
        /\ \A p \in Devices : session'[d][p] # NoConn =>
             session'[d][p] = session[d][p] /\ session'[d][p] \in index'[d]
        /\ index'[d] \subseteq index[d] /\ index'[d] \cap {c} = {}
        /\ \A b \in index'[d] : session'[d][Peer(b, d)] = b
    BY <1>0, <1>1, <1>3, <2>1 DEF SessInv
  <2> QED BY <1>0, <1>6, <2>2, SessFrame
<1> QED BY <1>6, <1>7, <1>8, <1>9 DEF DevInv

\* d's session with p leaves the tables, whatever happens to it.
LEMMA DropInv ==
  ASSUME LinkInv, NEW d \in Devices, NEW p \in Devices, NEW X, Framed(d, X),
         DropSession(d, p), unpaired'[d] \subseteq unpaired[d],
         X \cap unpaired'[d] = {},
         \A c \in X \cap index[d] : c = session[d][p]
  PROVE  SessInv(d)'
<1>0. TypeInv /\ TablesOK /\ SessInv(d)
  BY TypeParts DEF LinkInv, DevInv
<1>1. /\ \A q \in Devices : session'[d][q] = IF q = p THEN NoConn ELSE session[d][q]
      /\ index'[d] = index[d] \ {session[d][p]}
  BY <1>0 DEF DropSession, TablesOK
<1>2. unpaired[d] \subseteq Conns /\ index[d] \subseteq Conns
  BY <1>0 DEF TablesOK
<1>3. ASSUME NEW q \in Devices, session'[d][q] # NoConn
      PROVE  session'[d][q] = session[d][q] /\ session'[d][q] \in index'[d]
  <2>1. q # p /\ session'[d][q] = session[d][q]
    BY <1>1, <1>3
  <2>2. session[d][q] \in index[d] /\ Peer(session[d][q], d) = q
    BY <1>0, <1>3, <2>1 DEF SessInv
  <2>3. session[d][q] # session[d][p]
    BY <1>0, <1>3, <2>1, <2>2 DEF SessInv
  <2> QED BY <1>1, <2>1, <2>2, <2>3
<1>4. ASSUME NEW b \in index'[d]
      PROVE  session'[d][Peer(b, d)] = b
  <2>1. b \in index[d] /\ b # session[d][p] /\ session[d][Peer(b, d)] = b
    BY <1>0, <1>1 DEF SessInv
  <2>2. Peer(b, d) # p
    BY <2>1
  <2>3. session' = [session EXCEPT ![d][p] = NoConn]
    BY DEF DropSession
  <2> QED BY <1>0, <2>1, <2>2, <2>3 DEF TablesOK
<1>5. /\ index'[d] \subseteq index[d] /\ index'[d] \cap X = {}
      /\ unpaired'[d] \subseteq unpaired[d] \cup X /\ unpaired'[d] \subseteq Conns
      /\ unpaired'[d] \cap X = {}
  BY <1>1, <1>2
<1> QED BY <1>0, <1>3, <1>4, <1>5, SessFrame

\* The shared part of Disconnect, ForgetDevice and SetBlocked.
LEMMA CutOffInv ==
  ASSUME LinkInv, NEW d \in Devices, NEW p \in Devices, NEW r \in Reasons,
         CutOff(d, p, r), unpaired' = unpaired,
         \A f \in Devices \ {d} : trusted'[f] = trusted[f] /\ blocked'[f] = blocked[f],
         \A q \in Devices \ {p} : /\ q \in trusted'[d] <=> q \in trusted[d]
                                  /\ q \in blocked'[d] <=> q \in blocked[d]
  PROVE  \A f \in Devices : DevInv(f)'
<1>0. TypeInv /\ TablesOK /\ ends \in Ends
      /\ EndsInv(d) /\ DialsInv(d) /\ SessInv(d)
  BY TypeFacts, TypeParts DEF LinkInv, DevInv
<1>01. PICK x \in Conns \cup {NoConn} : x = session[d][p]
  BY <1>0 DEF TablesOK
<1>02. PICK t \in Conns \cup {NoConn} : t = task[d][p]
  BY <1>0 DEF TablesOK
<1>1. /\ x # NoConn => /\ x \in index[d] /\ ends[x][d].st \in {"open", "closed"}
                       /\ Peer(x, d) = p /\ x \notin unpaired[d]
      /\ t # NoConn => /\ ends[t][d].st = "racing" /\ Peer(t, d) = p
                       /\ t \notin index[d] /\ t \notin unpaired[d]
  BY <1>0, <1>01, <1>02 DEF SessInv, Served, DialsInv, TasksInv, Peer
<1>2. /\ CancelDial(d, p) /\ DropSession(d, p)
      /\ ends' = Abort(Close(ends, x, d, r), t, d)
      /\ conn' = Reclaim(conn, ends')
  BY <1>01, <1>02 DEF CutOff
<1>3. /\ \A b \in Conns : \A f \in Devices : f # d \/ b \notin {x, t} => SameEnd(b, f)
      /\ t # NoConn => ends'[t][d] = NoEnd
      /\ x # NoConn => ends'[x][d].st = ends[x][d].st
  <2>0. PICK e : e = Close(ends, x, d, r)
    OBVIOUS
  <2>1. e \in Ends
    BY <1>0, <2>0, CloseType
  <2>2. \A b \in Conns : \A f \in Devices :
          /\ e[b][f].st = ends[b][f].st
          /\ b # x \/ f # d => e[b][f].reason = ends[b][f].reason
    <3>1. CASE x = NoConn
      BY <2>0, <3>1 DEF Close
    <3>2. CASE x \in Conns
      BY <1>0, <2>0, <3>2, CloseEnds
    <3> QED BY <3>1, <3>2
  <2>3. \A b \in Conns : \A f \in Devices :
          /\ b # t \/ f # d => ends'[b][f] = e[b][f]
          /\ b = t /\ f = d => ends'[b][f] = IF e[b][f].st = "racing" THEN NoEnd
                                             ELSE e[b][f]
    BY <1>2, <2>0, <2>1, AbortEnds
  <2>4. x # NoConn => x # t
    BY <1>1
  <2> QED BY <1>1, <2>2, <2>3, <2>4, ConnsAssumption DEF SameEnd
<1>4. OnlyEnds(d, {x, t})
  BY <1>0, <1>2, <1>3, PromoteConns DEF OnlyEnds
<1>5. OnlyTables(d)
  BY <1>0, <1>2 DEF OnlyTables, TablesSame, CancelDial, DropSession, TablesOK
<1>6. Framed(d, {x, t}) /\ \A f \in Devices \ {d} : DevInv(f)'
  BY <1>4, <1>5, OthersInv
<1>7. EndsInv(d)'
  <2>1. ASSUME NEW b \in Conns
        PROVE  /\ Kept(b, d) \/ ends'[b][d].st = "none"
               /\ ends[b][d].st = "none" => ends'[b][d].st = "none"
               /\ ends'[b][d].st \in Early => ends'[b][d].reason = "none"
    <3>1. Kept(b, d) \/ ends'[b][d].st = "none"
      BY <1>4 DEF OnlyEnds
    <3>2. CASE b \notin {x, t}
      BY <1>0, <1>3, <3>1, <3>2 DEF SameEnd, EndsInv
    <3>3. CASE b = t
      BY <1>1, <1>3, <3>1, <3>3, ConnsAssumption DEF NoEnd
    <3>4. CASE b = x
      BY <1>1, <1>3, <3>1, <3>4, ConnsAssumption DEF Early
    <3> QED BY <3>2, <3>3, <3>4
  <2> QED BY <1>0, <2>1, EndsKept
<1>8. DialsInv(d)'
  <2>1. \A b \in {x, t} \cap Conns : Peer(b, d) = p
    BY <1>1, ConnsAssumption
  <2>2. \A q \in inFlight[d] \ {p} : q \in trusted'[d] /\ q \notin blocked'[d]
    BY <1>0 DEF DialsInv, FlightInv, TablesOK
  <2> QED BY <1>2, <1>6, <2>1, <2>2, CancelInv
<1>9. SessInv(d)'
  <2>0. unpaired'[d] = unpaired[d] /\ unpaired[d] \subseteq Conns
        /\ index[d] \subseteq Conns
    BY <1>0 DEF TablesOK
  <2>1. {x, t} \cap unpaired'[d] = {}
    BY <1>1, <2>0, ConnsAssumption
  <2>2. \A b \in {x, t} \cap index[d] : b = session[d][p]
    BY <1>01, <1>1, <2>0, ConnsAssumption
  <2> QED BY <1>2, <1>6, <2>0, <2>1, <2>2, DropInv
<1> QED BY <1>6, <1>7, <1>8, <1>9 DEF DevInv

\* Closed of c is handled.
LEMMA OnClosedStep ==
  ASSUME LinkInv, NEW c \in Conns, NEW d \in Devices,
         d \in {conn[c].from, conn[c].to}, OnClosed(c, d)
  PROVE  \A f \in Devices : DevInv(f)'
<1>0. TypeInv /\ TablesOK /\ ends \in Ends
      /\ EndsInv(d) /\ DialsInv(d) /\ SessInv(d)
      /\ NoEnd.st = "none" /\ NoEnd.reason = "none"
  BY TypeFacts, TypeParts DEF LinkInv, DevInv, NoEnd
<1>00. PICK p \in Devices : p = Peer(c, d)
  BY TypeFacts, PeerType DEF LinkInv
<1>01. PICK u \in Conns \cup {NoConn} : u = task[d][p]
  BY <1>0 DEF TablesOK
<1>1. /\ ends[c][d].st = "closed" /\ conn' = Reclaim(conn, ends')
      /\ unpaired' = [unpaired EXCEPT ![d] = @ \ {c}]
      /\ UNCHANGED <<trusted, blocked>>
  BY DEF OnClosed
<1>2. /\ u # NoConn => /\ ends[u][d].st = "racing" /\ Peer(u, d) = p
                       /\ u \notin index[d] /\ u \notin unpaired[d]
      /\ c \notin targets[d]
      /\ \A q \in Devices : task[d][q] # c
  BY <1>0, <1>01, <1>1, ConnsAssumption
     DEF SessInv, Served, DialsInv, TasksInv, TargetsInv, DialEnding, Peer
<1>3. PICK t \in {u, NoConn} :
        /\ ends' = Abort(SetEnd(ends, c, d, NoEnd), t, d)
        /\ \/ t = u /\ CancelDial(d, p)
           \/ /\ t = NoConn /\ UNCHANGED <<task, targets>>
              /\ \/ inFlight' = inFlight
                 \/ inFlight' = [inFlight EXCEPT ![d] = @ \ {p}]
        /\ \/ session[d][p] = c /\ DropSession(d, p)
           \/ /\ c \notin index[d] \/ session[d][p] # c
              /\ index' = [index EXCEPT ![d] = @ \ {c}]
              /\ UNCHANGED session
  <2>1. CASE ends' = [ends EXCEPT ![c][d] = NoEnd]
    <3>1. ends' = Abort(SetEnd(ends, c, d, NoEnd), NoConn, d)
      BY <2>1 DEF SetEnd, Abort
    <3>2. \/ CancelDial(d, p) /\ Refused(ends[c][d].reason)
          \/ /\ UNCHANGED <<task, targets>>
             /\ \/ inFlight' = inFlight
                \/ inFlight' = [inFlight EXCEPT ![d] = @ \ {p}]
      BY <1>00 DEF OnClosed, dialVars
    <3>3. \/ session[d][p] = c /\ DropSession(d, p)
          \/ /\ c \notin index[d] \/ session[d][p] # c
             /\ index' = [index EXCEPT ![d] = @ \ {c}]
             /\ UNCHANGED session
      BY <1>00 DEF OnClosed
    <3>4. CASE CancelDial(d, p) /\ Refused(ends[c][d].reason)
      <4>1. \/ ends' = Abort([ends EXCEPT ![c][d] = NoEnd], u, d)
            \/ UNCHANGED <<task, targets>> /\ inFlight' = inFlight
        BY <1>00, <1>01, <3>4 DEF OnClosed, dialVars, Refused
      <4>2. CASE ends' = Abort([ends EXCEPT ![c][d] = NoEnd], u, d)
        BY <3>3, <3>4, <4>2 DEF SetEnd
      <4>3. CASE UNCHANGED <<task, targets>> /\ inFlight' = inFlight
        BY <3>1, <3>3, <4>3
      <4> QED BY <4>1, <4>2, <4>3
    <3> QED BY <3>1, <3>2, <3>3, <3>4
  <2>2. CASE ends' # [ends EXCEPT ![c][d] = NoEnd]
    BY <1>00, <1>01, <2>2 DEF OnClosed, SetEnd
  <2> QED BY <2>1, <2>2
<1>4. /\ \A b \in Conns : \A f \in Devices : f # d \/ b \notin {c, t} => SameEnd(b, f)
      /\ ends'[c][d] = NoEnd
      /\ t # NoConn => ends'[t][d] = NoEnd
  <2>0. PICK e : e = SetEnd(ends, c, d, NoEnd)
    OBVIOUS
  <2>1. e \in Ends
    BY <1>0, <2>0, NoEndType, SetEndType
  <2>2. /\ \A b \in Conns : \A f \in Devices : b # c \/ f # d => e[b][f] = ends[b][f]
        /\ e[c][d] = NoEnd
    BY <1>0, <2>0, SetEndEnds
  <2>3. \A b \in Conns : \A f \in Devices :
          /\ b # t \/ f # d => ends'[b][f] = e[b][f]
          /\ b = t /\ f = d => ends'[b][f] = IF e[b][f].st = "racing" THEN NoEnd
                                             ELSE e[b][f]
    <3>1. t \in Conns \cup {NoConn}
      BY <1>01, <1>3
    <3> QED BY <1>3, <2>0, <2>1, <3>1, AbortEnds
  <2>4. t # c /\ (t # NoConn => ends[t][d].st = "racing")
    BY <1>1, <1>2, <1>3, ConnsAssumption
  <2> QED BY <2>2, <2>3, <2>4, ConnsAssumption DEF SameEnd
<1>5. OnlyEnds(d, {c, t})
  BY <1>0, <1>1, <1>4, PromoteConns DEF OnlyEnds
<1>6. OnlyTables(d)
  <2>1. \A f \in Devices \ {d} : task'[f] = task[f] /\ targets'[f] = targets[f]
                                 /\ inFlight'[f] = inFlight[f]
    BY <1>0, <1>3 DEF CancelDial, TablesOK
  <2>2. \A f \in Devices \ {d} : session'[f] = session[f] /\ index'[f] = index[f]
                                 /\ unpaired'[f] = unpaired[f]
    BY <1>0, <1>1, <1>3 DEF DropSession, TablesOK
  <2> QED BY <1>1, <2>1, <2>2 DEF OnlyTables, TablesSame
<1>7. Framed(d, {c, t}) /\ \A f \in Devices \ {d} : DevInv(f)'
  BY <1>5, <1>6, OthersInv
<1>8. EndsInv(d)'
  <2>1. ASSUME NEW b \in Conns
        PROVE  /\ Kept(b, d) \/ ends'[b][d].st = "none"
               /\ ends[b][d].st = "none" => ends'[b][d].st = "none"
               /\ ends'[b][d].st \in Early => ends'[b][d].reason = "none"
    <3>1. Kept(b, d) \/ ends'[b][d].st = "none"
      BY <1>5 DEF OnlyEnds
    <3>2. CASE b \notin {c, t}
      BY <1>0, <1>4, <3>1, <3>2 DEF SameEnd, EndsInv
    <3>3. CASE b \in {c, t}
      BY <1>0, <1>4, <3>1, <3>3, ConnsAssumption
    <3> QED BY <3>2, <3>3
  <2> QED BY <1>0, <2>1, EndsKept
<1>9. DialsInv(d)'
  <2>0. \A q \in inFlight[d] : q \in trusted'[d] /\ q \notin blocked'[d]
    BY <1>0, <1>1 DEF DialsInv, FlightInv
  <2>1. CASE CancelDial(d, p)
    <3>1. \A b \in {c, t} \cap Conns : Peer(b, d) = p
      BY <1>00, <1>2, <1>3, ConnsAssumption
    <3> QED BY <1>7, <2>0, <2>1, <3>1, CancelInv
  <2>2. CASE ~CancelDial(d, p)
    <3>0. CASE t = NoConn
      <4>1. Framed(d, {c})
        BY <1>7, <3>0, ConnsAssumption DEF Framed
      <4>2. /\ UNCHANGED <<task, targets>>
            /\ \/ inFlight' = inFlight
               \/ inFlight' = [inFlight EXCEPT ![d] = @ \ {p}]
        BY <1>3, <2>2
      <4>3. inFlight'[d] \subseteq inFlight[d]
        BY <1>0, <4>2 DEF TablesOK
      <4>4. /\ \A q \in Devices : task'[d][q] # NoConn =>
                 task'[d][q] = task[d][q] /\ task[d][q] \notin {c}
            /\ targets'[d] \subseteq targets[d] /\ targets'[d] \cap {c} = {}
            /\ targets[d] \ targets'[d] = {}
        BY <1>2, <4>2
      <4>5. \A q \in inFlight'[d] : q \in trusted'[d] /\ q \notin blocked'[d]
        BY <2>0, <4>3
      <4> QED BY <1>0, <4>1, <4>3, <4>4, <4>5, DialsFrame
    <3> QED BY <1>3, <2>2, <3>0
  <2> QED BY <2>1, <2>2
<1>10. SessInv(d)'
  <2>0. /\ unpaired'[d] = unpaired[d] \ {c} /\ unpaired[d] \subseteq Conns
        /\ index[d] \subseteq Conns
    BY <1>0, <1>1 DEF TablesOK
  <2>1. {c, t} \cap unpaired'[d] = {} /\ unpaired'[d] \subseteq unpaired[d]
        /\ t \notin index[d]
    BY <1>2, <1>3, <2>0, ConnsAssumption
  <2>2. CASE session[d][p] = c /\ DropSession(d, p)
    <3>1. \A b \in {c, t} \cap index[d] : b = session[d][p]
      BY <2>1, <2>2
    <3> QED BY <1>7, <2>1, <2>2, <3>1, DropInv
  <2>3. CASE /\ c \notin index[d] \/ session[d][p] # c
             /\ index' = [index EXCEPT ![d] = @ \ {c}]
             /\ UNCHANGED session
    <3>1. c \notin index[d]
      BY <1>0, <1>00, <2>3 DEF SessInv
    <3>2. index'[d] = index[d]
      BY <1>0, <2>3, <3>1 DEF TablesOK
    <3>3. /\ \A q \in Devices : session'[d][q] # NoConn =>
               session'[d][q] = session[d][q] /\ session'[d][q] \in index'[d]
          /\ index'[d] \subseteq index[d] /\ index'[d] \cap {c, t} = {}
          /\ \A b \in index'[d] : session'[d][Peer(b, d)] = b
          /\ unpaired'[d] \subseteq unpaired[d] \cup {c, t}
          /\ unpaired'[d] \subseteq Conns /\ unpaired'[d] \cap {c, t} = {}
      BY <1>0, <2>0, <2>1, <2>3, <3>1, <3>2 DEF SessInv
    <3> QED BY <1>0, <1>7, <3>3, SessFrame
  <2> QED BY <1>3, <2>2, <2>3
<1> QED BY <1>7, <1>8, <1>9, <1>10 DEF DevInv

----------------------------------------------------------------------------
(* Users, the network and crashes.                                         *)

\* Steps that leave the tables, the ends and who is joined alone.
LEMMA StillInv ==
  ASSUME LinkInv, UnchangedTables, ends' = ends,
         \A c \in Conns : \A f \in Devices : Kept(c, f)
  PROVE  \A f \in Devices : DevInv(f)'
<1>1. \A f \in Devices : Framed(f, {}) /\ TablesSame(f)
  BY DEF Framed, TablesSame, SameEnd, UnchangedTables
<1> QED BY <1>1, DevFrame

\* The process of d is started again: it has no table and no end left.
LEMMA CrashStep ==
  ASSUME LinkInv, NEW d \in Devices, Crash(d)
  PROVE  \A f \in Devices : DevInv(f)'
<1>0. TypeInv /\ TablesOK /\ conn \in ConnTable /\ ends \in Ends
  BY TypeFacts, TypeParts DEF LinkInv
<1> DEFINE cn == [c \in Conns |-> IF d \in {conn[c].from, conn[c].to}
                                  THEN [conn[c] EXCEPT !.cut = TRUE]
                                  ELSE conn[c]]
<1>1. ASSUME NEW c \in Conns
      PROVE  /\ cn[c].from = conn[c].from /\ cn[c].to = conn[c].to
             /\ cn[c].accepted = conn[c].accepted
  <2>1. conn[c] \in Connection
    BY <1>0 DEF ConnTable
  <2> QED BY <2>1 DEF Connection
<1>2. \A c \in Conns : \A f \in Devices :
        ends'[c][f] = IF f = d THEN NoEnd ELSE ends[c][f]
  BY <1>0 DEF Crash, Ends
<1>3. ASSUME NEW c \in Conns, NEW f \in Devices
      PROVE  Kept(c, f) \/ ends'[c][f].st = "none"
  <2>1. conn' = Reclaim(cn, ends')
    BY DEF Crash
  <2>2. Reclaim(cn, ends')[c] = cn[c] \/ \A g \in Devices : ends'[c][g].st = "none"
    BY DEF Reclaim
  <2> HIDE DEF cn
  <2> QED BY <1>1, <2>1, <2>2 DEF Kept
<1>4. ASSUME NEW f \in Devices, f # d PROVE DevInv(f)'
  <2>1. Framed(f, {})
    BY <1>2, <1>3, <1>4 DEF Framed, SameEnd
  <2>2. TablesSame(f)
    BY <1>0, <1>4 DEF Crash, TablesSame, TablesOK, trustVars
  <2> QED BY <2>1, <2>2, DevFrame
<1>5. DevInv(d)'
  <2>1. /\ task'[d] = [p \in Devices |-> NoConn]
        /\ session'[d] = [p \in Devices |-> NoConn]
        /\ inFlight'[d] = {} /\ targets'[d] = {}
        /\ index'[d] = {} /\ unpaired'[d] = {}
    BY <1>0 DEF Crash, TablesOK
  <2>2. \A c \in Conns : ends'[c][d].st = "none" /\ ends'[c][d].reason = "none"
    BY <1>2 DEF NoEnd
  <2>3. EndsInv(d)'
    BY <2>2 DEF EndsInv
  <2>4. DialsInv(d)'
    BY <2>1 DEF DialsInv, TasksInv, FlightInv, TargetsInv
  <2>5. SessInv(d)'
    BY <2>1 DEF SessInv
  <2> QED BY <2>3, <2>4, <2>5 DEF DevInv
<1> QED BY <1>4, <1>5

\* The commands of users.
LEMMA UserInv ==
  ASSUME LinkInv, NEW d \in Devices, UserStep(d)
  PROVE  \A f \in Devices : DevInv(f)'
<1>0. TypeInv /\ TablesOK
  BY TypeParts DEF LinkInv
<1>1. ASSUME NEW p \in Others(d), Connect(d, p)
      PROVE  \A f \in Devices : DevInv(f)'
  <2>1. UNCHANGED <<trusted, blocked, session, index, unpaired>>
    BY <1>1 DEF Connect, trustVars, sessVars
  <2>2. CASE MayDial(d, p) /\ Dial(d, p, waiting[d] \ {p})
    <3>1. PICK w \in SUBSET Devices : w = waiting[d] \ {p}
      BY <1>0 DEF TablesOK
    <3> QED BY <2>1, <2>2, <3>1, DialInv DEF Others
  <2>3. CASE UNCHANGED <<inFlight, task, targets, conn, ends>>
    BY <2>1, <2>3, StillInv DEF UnchangedTables, Kept
  <2> QED BY <1>1, <2>2, <2>3 DEF Connect
<1>2. ASSUME NEW p \in Others(d), Disconnect(d, p)
      PROVE  \A f \in Devices : DevInv(f)'
  BY <1>2, CutOffInv DEF Disconnect, Reasons, Others
<1>3. ASSUME NEW p \in Others(d), ForgetDevice(d, p)
      PROVE  \A f \in Devices : DevInv(f)'
  <2>1. /\ CutOff(d, p, "PermissionRevoked") /\ unpaired' = unpaired
        /\ trusted' = [trusted EXCEPT ![d] = @ \ {p}]
        /\ blocked' = [blocked EXCEPT ![d] = @ \ {p}]
    BY <1>3 DEF ForgetDevice
  <2>2. /\ \A f \in Devices \ {d} : trusted'[f] = trusted[f] /\ blocked'[f] = blocked[f]
        /\ \A q \in Devices \ {p} : /\ q \in trusted'[d] <=> q \in trusted[d]
                                    /\ q \in blocked'[d] <=> q \in blocked[d]
    BY <1>0, <2>1 DEF TablesOK
  <2> QED BY <2>1, <2>2, CutOffInv DEF Reasons, Others
<1>4. ASSUME NEW p \in Others(d), NEW on \in BOOLEAN, SetBlocked(d, p, on)
      PROVE  \A f \in Devices : DevInv(f)'
  <2>1. /\ trusted' = trusted /\ unpaired' = unpaired
        /\ blocked' = [blocked EXCEPT ![d] =
                         IF on /\ p \in trusted[d] THEN @ \cup {p} ELSE @ \ {p}]
    BY <1>4 DEF SetBlocked
  <2>2. /\ \A f \in Devices \ {d} : blocked'[f] = blocked[f]
        /\ \A q \in Devices \ {p} : q \in blocked'[d] <=> q \in blocked[d]
    BY <1>0, <2>1 DEF TablesOK
  <2>3. CASE on
    <3>1. CutOff(d, p, "PermissionRevoked")
      BY <1>4, <2>3 DEF SetBlocked
    <3> QED BY <2>1, <2>2, <3>1, CutOffInv DEF Reasons, Others
  <2>4. CASE ~on
    <3>1. UNCHANGED <<inFlight, task, targets, session, index, conn, ends>>
      BY <1>4, <2>4 DEF SetBlocked, dialVars
    <3>2. ASSUME NEW f \in Devices PROVE DevInv(f)'
      <4>1. blocked'[f] \subseteq blocked[f]
        BY <1>0, <2>1, <2>4 DEF TablesOK
      <4>2. EndsInv(f) /\ TasksInv(f) /\ FlightInv(f) /\ TargetsInv(f) /\ SessInv(f)
        BY DEF LinkInv, DevInv, DialsInv
      <4>3. EndsInv(f)'
        BY <3>1, <4>2 DEF EndsInv
      <4>4. TasksInv(f)' /\ TargetsInv(f)'
        BY <3>1, <4>2 DEF TasksInv, TargetsInv
      <4>5. FlightInv(f)'
        BY <2>1, <3>1, <4>1, <4>2 DEF FlightInv
      <4>6. SessInv(f)'
        BY <2>1, <3>1, <4>2 DEF SessInv, Served, Peer
      <4> QED BY <4>3, <4>4, <4>5, <4>6 DEF DevInv, DialsInv
    <3> QED BY <3>2
  <2> QED BY <2>3, <2>4
<1>5. ASSUME NEW p \in Others(d), NEW on \in BOOLEAN, SetAutoConnect(d, p, on)
      PROVE  \A f \in Devices : DevInv(f)'
  BY <1>5, StillInv
     DEF SetAutoConnect, UnchangedTables, Kept, dialVars, sessVars
<1>6. ASSUME NetworkChanged(d) PROVE \A f \in Devices : DevInv(f)'
  BY <1>6, StillInv
     DEF NetworkChanged, UnchangedTables, Kept, trustVars, sessVars
<1> QED BY <1>1, <1>2, <1>3, <1>4, <1>5, <1>6 DEF UserStep

\* Timers and ticks.
LEMMA DeviceInv ==
  ASSUME LinkInv, NEW d \in Devices, DeviceStep(d)
  PROVE  \A f \in Devices : DevInv(f)'
<1>0. TypeInv /\ TablesOK
  BY TypeParts DEF LinkInv
<1>1. ASSUME NEW p \in Others(d), TickAutoConnect(d, p)
      PROVE  \A f \in Devices : DevInv(f)'
  <2>1. UNCHANGED <<trusted, blocked, session, index, unpaired>>
    BY <1>1 DEF TickAutoConnect, trustVars, sessVars
  <2>2. PICK w \in SUBSET Devices : w = waiting[d]
    BY <1>0 DEF TablesOK
  <2> QED BY <1>1, <2>1, <2>2, DialInv DEF TickAutoConnect, Others
<1>2. ASSUME NEW p \in Others(d), BackoffElapses(d, p) \/ SessionAges(d, p)
      PROVE  \A f \in Devices : DevInv(f)'
  BY <1>2, StillInv
     DEF BackoffElapses, SessionAges, UnchangedTables, Kept, trustVars, dialVars,
         sessVars
<1>3. ASSUME NEW c \in Conns, UnpairedExpires(c, d)
      PROVE  \A f \in Devices : DevInv(f)'
  BY <1>3, UnpairedStep
<1> QED BY <1>1, <1>2, <1>3 DEF DeviceStep

\* The network, discovery and crashes.
LEMMA NetworkInv ==
  ASSUME LinkInv, NetworkStep
  PROVE  \A f \in Devices : DevInv(f)'
<1>1. ASSUME NEW d \in Devices, NEW p \in Others(d),
             DiscoveryUpdated(d, p) \/ AddressLost(d, p)
      PROVE  \A f \in Devices : DevInv(f)'
  BY <1>1, StillInv
     DEF DiscoveryUpdated, AddressLost, UnchangedTables, Kept, trustVars,
         dialVars, sessVars
<1>2. ASSUME NEW c \in Conns, Cut(c) PROVE \A f \in Devices : DevInv(f)'
  <2>1. UnchangedTables /\ ends' = ends /\ conn' = SetCut(conn, c)
    BY <1>2 DEF Cut, UnchangedTables, trustVars, dialVars, sessVars, SetCut
  <2>2. conn[c] \in Connection /\ conn \in ConnTable
    BY TypeFacts DEF LinkInv, ConnTable
  <2>3. SetCut(conn, c) = [conn EXCEPT ![c] = [conn[c] EXCEPT !.cut = TRUE]]
    BY DEF SetCut
  <2>4. \A b \in Conns : \A f \in Devices : Kept(b, f)
    BY <2>1, <2>2, <2>3 DEF Kept, ConnTable, Connection
  <2> QED BY <2>1, <2>4, StillInv
<1> QED BY <1>1, <1>2, CrashStep DEF NetworkStep

\* Everything the tasks of a connection do and report.
LEMMA ConnInv ==
  ASSUME LinkInv, NEW c \in Conns, ConnStep(c)
  PROVE  \A f \in Devices : DevInv(f)'
<1>0. TypeInv /\ TablesOK /\ Joins(conn)
  BY TypeFacts, TypeParts DEF LinkInv
<1>1. CASE RaceWins(c) \/ RaceFails(c)
  BY <1>1, RaceStep
<1>2. CASE Accept(c) \/ OnDialed(c) \/ OnIncoming(c)
  BY <1>2, HandshakeStep
<1>3. CASE OnDialFailed(c)
  <2>1. PICK d \in Devices, p \in Devices : d = conn[c].from /\ p = conn[c].to
    BY <1>3, TypeFacts DEF LinkInv, OnDialFailed
  <2>2. d # p /\ p = Peer(c, d)
    BY <1>3, <2>1, TypeFacts DEF LinkInv, OnDialFailed, Peer
  <2>3. /\ ends[c][d].st \in {"failed", "hsfail"}
        /\ ends' = SetEnd(ends, c, d, NoEnd) /\ conn' = Reclaim(conn, ends')
        /\ targets' = [targets EXCEPT ![d] = @ \ {c}]
        /\ UNCHANGED <<trusted, blocked, session, index, unpaired>>
        /\ \/ /\ inFlight' = [inFlight EXCEPT ![d] = @ \ {p}]
              /\ task' = [task EXCEPT ![d][p] = NoConn]
           \/ UNCHANGED <<inFlight, task>> /\ p \notin trusted[d]
    BY <1>3, <2>1 DEF OnDialFailed, SetEnd, trustVars, sessVars
  <2>4. p \notin trusted[d] => p \notin inFlight[d]
    BY DEF LinkInv, DevInv, DialsInv, FlightInv
  <2> QED BY <2>1, <2>2, <2>3, <2>4, DialOver
<1>4. ASSUME NEW d \in Devices, EndStep(c, d)
      PROVE  \A f \in Devices : DevInv(f)'
  <2>0. d \in {conn[c].from, conn[c].to}
    BY <1>4 DEF EndStep
  <2>1. CASE OnHandshakeFailed(c, d)
    <3>1. PICK p \in Devices : p = Peer(c, d)
      BY <1>0, <2>0, PeerType
    <3>2. /\ ends[c][d].st \in {"failed", "hsfail"}
          /\ ends' = SetEnd(ends, c, d, NoEnd) /\ conn' = Reclaim(conn, ends')
          /\ targets' = [targets EXCEPT ![d] = @ \ {c}]
          /\ UNCHANGED <<trusted, blocked, session, index, unpaired>>
          /\ \/ /\ inFlight' = [inFlight EXCEPT ![d] = @ \ {p}]
                /\ task' = [task EXCEPT ![d][p] = NoConn]
             \/ UNCHANGED <<inFlight, task>> /\ c \notin targets[d]
      BY <2>1, <3>1 DEF OnHandshakeFailed, SetEnd, trustVars, sessVars
    <3> QED BY <2>0, <3>1, <3>2, DialOver
  <2> QED BY <1>4, <2>0, <2>1, TaskStep, PromoteInv, RefuseStep, UnpairedStep,
             OnClosedStep
          DEF EndStep
<1> QED BY <1>1, <1>2, <1>3, <1>4 DEF ConnStep

\* The invariant is inductive.
LEMMA LinkStep == LinkInv /\ [Next]_vars => LinkInv'
<1> SUFFICES ASSUME LinkInv, [Next]_vars PROVE LinkInv'
  OBVIOUS
<1>1. TypeInv'
  BY TypeStep DEF LinkInv
<1>2. CASE UNCHANGED vars
  <2>1. UnchangedTables /\ ends' = ends /\ conn' = conn
    BY <1>2 DEF vars, UnchangedTables
  <2>2. \A c \in Conns : \A f \in Devices : Kept(c, f)
    BY <2>1 DEF Kept
  <2>3. \A f \in Devices : DevInv(f)'
    BY <2>1, <2>2, StillInv
  <2> QED BY <1>1, <2>3 DEF LinkInv
<1>3. ASSUME NEW d \in Devices, DeviceStep(d) \/ UserStep(d) PROVE LinkInv'
  BY <1>1, <1>3, DeviceInv, UserInv DEF LinkInv
<1>4. ASSUME NEW c \in Conns, ConnStep(c) PROVE LinkInv'
  BY <1>1, <1>4, ConnInv DEF LinkInv
<1>5. CASE NetworkStep
  BY <1>1, <1>5, NetworkInv DEF LinkInv
<1> QED BY <1>2, <1>3, <1>4, <1>5 DEF Next

\* It holds at the start.
LEMMA LinkInit == Init => LinkInv
<1> SUFFICES ASSUME Init PROVE LinkInv
  OBVIOUS
<1>1. TypeInv
  BY TypeInit
<1>2. ASSUME NEW d \in Devices PROVE DevInv(d)
  <2>1. \A c \in Conns : ends[c][d].st = "none" /\ ends[c][d].reason = "none"
    BY DEF Init, NoEnd
  <2>2. /\ task[d] = [p \in Devices |-> NoConn]
        /\ session[d] = [p \in Devices |-> NoConn]
        /\ inFlight[d] = {} /\ targets[d] = {} /\ index[d] = {} /\ unpaired[d] = {}
    BY DEF Init
  <2>3. EndsInv(d) /\ DialsInv(d)
    BY <2>1, <2>2 DEF EndsInv, DialsInv, TasksInv, FlightInv, TargetsInv
  <2>4. SessInv(d)
    BY <2>2 DEF SessInv
  <2> QED BY <2>3, <2>4 DEF DevInv
<1> QED BY <1>1, <1>2 DEF LinkInv

\* It always holds.
LEMMA LinkCorrect == Spec => []LinkInv
<1> QED BY LinkInit, LinkStep, PTL DEF Spec

----------------------------------------------------------------------------
(* The results.                                                            *)

\* Whatever is dialed, promoted, closed, lost or restarted, and in whatever
\* order events are handled: sessions and conn_index name the same connections,
\* whose task serves the peer or has reported its end.
THEOREM SessionsCorrect == Spec => []SessionsIndexed
<1>1. LinkInv => SessionsIndexed
  BY DEF LinkInv, DevInv, SessInv, Served, SessionsIndexed
<1> QED BY <1>1, LinkCorrect, PTL

\* A dial state in flight always has a dial whose result is still to come, so
\* that no device waits for ever with the flag set.
THEOREM DialsCorrect == Spec => []NoStuckDial
<1>1. LinkInv => NoStuckDial
  BY DEF LinkInv, DevInv, DialsInv, FlightInv, TargetsInv, NoStuckDial
<1> QED BY <1>1, LinkCorrect, PTL

\* dial_targets, conn_index and the unpaired connections hold nothing that is
\* gone, and no connection is in two of the last.
THEOREM TablesCorrect == Spec => []NoLeaks
<1>1. LinkInv => NoLeaks
  BY DEF LinkInv, DevInv, DialsInv, TargetsInv, SessInv, Served, NoLeaks
<1> QED BY <1>1, LinkCorrect, PTL
=============================================================================
