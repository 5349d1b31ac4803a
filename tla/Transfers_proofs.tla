-------------------------- MODULE Transfers_proofs --------------------------
(* Proofs about Transfers for any clients, any number of pieces, any room in *)
(* the device and any faults.                                                *)
EXTENDS Transfers, SequenceTheorems, TLAPS

USE ChunksAssumption, DeviceAssumption, KindsAssumption, NoneAssumption

-----------------------------------------------------------------------------
(* Sequences and records.                                                    *)

Connection == [client : Clients, open : BOOLEAN, cmd : Command \cup {None}]

ClientState == [pc : {"idle", "done", "begin", "data", "finish",
                      "await begin", "await data", "await finish"},
                sum : Clients \cup {None}, sent : 0..Chunks]

\* Replacing one element keeps the length and the other elements.
LEMMA ReplaceElement ==
  ASSUME NEW S, NEW s \in Seq(S), NEW i \in 1..Len(s), NEW e \in S
  PROVE  /\ [s EXCEPT ![i] = e] \in Seq(S)
         /\ Len([s EXCEPT ![i] = e]) = Len(s)
         /\ \A j \in 1..Len(s) : [s EXCEPT ![i] = e][j] = IF j = i THEN e ELSE s[j]
  BY ExceptSeq

\* Appending and removing the first keep the type.
LEMMA AppendElement ==
  ASSUME NEW S, NEW s \in Seq(S), NEW e \in S
  PROVE  /\ Append(s, e) \in Seq(S)
         /\ Len(Append(s, e)) = Len(s) + 1
         /\ \A j \in 1..Len(s) : Append(s, e)[j] = s[j]
         /\ Append(s, e)[Len(s) + 1] = e
  BY AppendProperties

LEMMA TailElements ==
  ASSUME NEW S, NEW s \in Seq(S), s # <<>>
  PROVE  /\ Tail(s) \in Seq(S)
         /\ Len(s) \in Nat \ {0}
         /\ Len(Tail(s)) = Len(s) - 1
         /\ \A j \in 1..Len(Tail(s)) : Tail(s)[j] = s[j + 1]
         /\ Head(s) \in S /\ Head(s) = s[1]
  BY HeadTailProperties, EmptySeq

\* The changes the clients and the port make to one connection.
LEMMA WithLine ==
  ASSUME NEW x \in Connection, NEW l \in Command \cup {None}
  PROVE  /\ [x EXCEPT !.cmd = l] \in Connection
         /\ [x EXCEPT !.cmd = l].client = x.client
         /\ [x EXCEPT !.cmd = l].open = x.open
         /\ [x EXCEPT !.cmd = l].cmd = l
  BY DEF Connection

LEMMA WithOpen ==
  ASSUME NEW x \in Connection, NEW b \in BOOLEAN
  PROVE  /\ [x EXCEPT !.open = b] \in Connection
         /\ [x EXCEPT !.open = b].client = x.client
         /\ [x EXCEPT !.open = b].open = b
         /\ [x EXCEPT !.open = b].cmd = x.cmd
  BY DEF Connection

\* A line is written, or taken off: what that leaves behind.
LEMMA LineChanged ==
  ASSUME conns \in Seq(Connection), NEW m \in 1..Len(conns),
         NEW l \in Command \cup {None}, conns' = [conns EXCEPT ![m].cmd = l]
  PROVE  /\ conns' \in Seq(Connection)
         /\ Len(conns') = Len(conns)
         /\ conns'[m].client = conns[m].client /\ conns'[m].open = conns[m].open
         /\ conns'[m].cmd = l
         /\ \A j \in 1..Len(conns) : j # m => conns'[j] = conns[j]
<1> DEFINE r == [conns[m] EXCEPT !.cmd = l]
<1>1. conns[m] \in Connection
  BY ElementOfSeq
<1>2. /\ r \in Connection /\ r.client = conns[m].client /\ r.open = conns[m].open /\ r.cmd = l
  BY <1>1, WithLine
<1>3. conns' = [conns EXCEPT ![m] = r]
  OBVIOUS
<1> HIDE DEF r
<1>4. QED BY <1>2, <1>3, ReplaceElement

\* A client leaves, with nothing more or with a line left behind.
LEMMA ConnectionClosed ==
  ASSUME conns \in Seq(Connection), NEW m \in 1..Len(conns),
         NEW l \in Command \cup {None},
         \/ conns' = [conns EXCEPT ![m].open = FALSE] /\ l = conns[m].cmd
         \/ conns' = [conns EXCEPT ![m].cmd = l, ![m].open = FALSE]
  PROVE  /\ conns' \in Seq(Connection)
         /\ Len(conns') = Len(conns)
         /\ conns'[m].client = conns[m].client /\ ~conns'[m].open
         /\ conns'[m].cmd = l
         /\ \A j \in 1..Len(conns) : j # m => conns'[j] = conns[j]
<1>1. conns[m] \in Connection
  BY ElementOfSeq
<1>2. PICK r \in Connection : /\ r.client = conns[m].client /\ ~r.open /\ r.cmd = l
                              /\ conns' = [conns EXCEPT ![m] = r]
  <2>1. CASE conns' = [conns EXCEPT ![m].open = FALSE] /\ l = conns[m].cmd
    <3> DEFINE r == [conns[m] EXCEPT !.open = FALSE]
    <3>1. r \in Connection /\ r.client = conns[m].client /\ r.open = FALSE /\ r.cmd = conns[m].cmd
      BY <1>1, WithOpen
    <3>2. conns' = [conns EXCEPT ![m] = r]
      BY <2>1
    <3> HIDE DEF r
    <3>3. QED BY <3>1, <3>2, <2>1
  <2>2. CASE conns' = [conns EXCEPT ![m].cmd = l, ![m].open = FALSE]
    <3> DEFINE q == [conns[m] EXCEPT !.cmd = l]
               r == [q EXCEPT !.open = FALSE]
    <3>1. q \in Connection /\ q.client = conns[m].client /\ q.cmd = l
      BY <1>1, WithLine
    <3>2. conns' = [conns EXCEPT ![m] = r]
      BY <2>2, ElementOfSeq
    <3> HIDE DEF q
    <3>3. r \in Connection /\ r.client = q.client /\ r.open = FALSE /\ r.cmd = q.cmd
      BY <3>1, WithOpen
    <3> HIDE DEF r
    <3>4. QED BY <3>1, <3>2, <3>3
  <2>3. QED BY <2>1, <2>2
<1>3. QED BY <1>2, ReplaceElement

\* A client that is at something is found at its connection.
LEMMA MineIsOpen ==
  ASSUME ConnectedOnce, NEW c \in Clients, Active(c)
  PROVE  Mine(c) \in 1..Len(conns) /\ IsOpen(Mine(c), c)
  BY DEF ConnectedOnce, Mine, IsOpen

\* The initial state.
LEMMA InitIInv == Init => IInv
<1> SUFFICES ASSUME Init PROVE IInv
  OBVIOUS
<1>1. TypeOK
  <2>1. client \in [Clients -> ClientState]
    BY DEF Init, Idle, ClientState
  <2>2. \A S : <<>> \in Seq(S)
    OBVIOUS
  <2>3. Len(<<>>) = 0 /\ 0 <= Waiting /\ 0 <= Lines
    OBVIOUS
  <2>4. QED BY <2>1, <2>2, <2>3 DEF Init, TypeOK, ClientState, Connection
<1>2. ConnectedOnce /\ SentSoFar
  <2>1. Len(conns) = 0
    BY DEF Init
  <2>2. \A c \in Clients : client[c].pc = "idle"
    BY DEF Init, Idle
  <2>3. SentSoFar
    BY <2>2 DEF SentSoFar
  <2>4. ConnectedOnce
    BY <2>1, <2>2 DEF ConnectedOnce, Active
  <2>5. QED BY <2>3, <2>4
<1>3. GuestAtWork /\ InstalledIsWhole /\ BinaryOfStep
  BY DEF Init, GuestAtWork, InstalledIsWhole, Files, BinaryOfStep
<1>4. ReportedIsInstalled /\ Patient /\ OwnSum /\ Served
  <2>1. Len(conns) = 0
    BY DEF Init
  <2>2. QED BY <2>1 DEF Init, ReportedIsInstalled, Patient, OwnSum, Served, Unserved, Quiet, Idle
<1>5. QED BY <1>1, <1>2, <1>3, <1>4 DEF IInv
-----------------------------------------------------------------------------
(* Type correctness, and what the clients know of themselves.                *)

\* What the clients and the port change, and its types.
HostType == /\ client \in [Clients -> ClientState]
            /\ conns \in Seq(Connection) /\ wire \in Seq(Command)
            /\ back \in Seq({"ok", "error"})
            /\ Len(conns) <= Waiting /\ Len(wire) <= Lines /\ Len(back) <= Lines

\* What only the guest changes, and its types.
GuestType == /\ kind \in Kinds
             /\ up \in BOOLEAN /\ step \in {"listen", "swap", "rename", "install"}
             /\ xfer \in Clients \cup {None}
             /\ tmp = None \/ tmp \in Seq(AnyPiece)
             /\ gaveUp \in BOOLEAN /\ installed \subseteq Clients

\* The type invariant says just that.
LEMMA TypesApart == TypeOK <=> HostType /\ GuestType
  BY DEF TypeOK, HostType, GuestType, ClientState, Connection

\* A line of a client is a command.
LEMMA LineType ==
  ASSUME NEW sum \in Clients \cup {None}, NEW phase \in {"begin", "data", "finish"},
         NEW chunk, IF phase = "data" THEN chunk \in AnyPiece ELSE chunk = None
  PROVE  Line(phase, sum, chunk) \in Command
  BY DEF Line, Command

\* A client that is at nothing.
LEMMA IdleType == Idle \in ClientState
  BY DEF ClientState, Idle

\* A step of a client keeps the types and what is said of its connection and of
\* what it has sent (libvirt/comm.go, runtime.go).
LEMMA ConnectStep ==
  ASSUME IInv, NEW c \in Clients, NEW sum \in {c, None}, Connect(c, sum)
  PROVE  HostType' /\ GuestType' /\ ConnectedOnce' /\ SentSoFar'
<1>0. HostType /\ GuestType /\ ConnectedOnce /\ SentSoFar
  BY TypesApart DEF IInv
<1> DEFINE new == [client |-> c, open |-> TRUE, cmd |-> None]
<1>1. /\ [pc |-> "begin", sum |-> sum, sent |-> 0] \in ClientState
      /\ new \in Connection
  BY DEF ClientState, Connection
<1>2. /\ conns' = Append(conns, new)
      /\ client' = [client EXCEPT ![c] = [pc |-> "begin", sum |-> sum, sent |-> 0]]
      /\ UNCHANGED <<kind, wire, back, up, step, xfer, tmp, gaveUp>>
      /\ installed' = installed \ {c} /\ Len(conns) < Waiting /\ ~Active(c)
  BY DEF Connect, Active
<1>3. /\ Len(conns) \in Nat /\ Len(conns') = Len(conns) + 1 /\ conns' \in Seq(Connection)
      /\ \A j \in 1..Len(conns) : conns'[j] = conns[j]
      /\ conns'[Len(conns) + 1].client = c /\ conns'[Len(conns) + 1].open
  BY <1>0, <1>1, <1>2, AppendElement DEF HostType
<1>4. HostType'
  BY <1>0, <1>1, <1>2, <1>3 DEF HostType
<1>5. GuestType'
  BY <1>0, <1>2 DEF GuestType
<1>6. SentSoFar'
  BY <1>0, <1>2 DEF SentSoFar, HostType
<1>7. ASSUME NEW d \in Clients
      PROVE  /\ Active(d)' <=> \E i \in 1..Len(conns') : IsOpen(i, d)'
             /\ \A i, j \in 1..Len(conns') : IsOpen(i, d)' /\ IsOpen(j, d)' => i = j
  <2>1. CASE d = c
    <3>1. Active(d)'
      BY <1>0, <1>2, <2>1 DEF Active, HostType
    <3>2. \A i \in 1..Len(conns) : ~IsOpen(i, c)
      BY <1>0, <1>2 DEF ConnectedOnce
    <3>3. \A i \in 1..Len(conns') : IsOpen(i, d)' <=> i = Len(conns) + 1
      BY <1>3, <3>2, <2>1 DEF IsOpen
    <3>4. QED BY <1>3, <3>1, <3>3
  <2>2. CASE d # c
    <3>1. Active(d)' <=> Active(d)
      BY <1>0, <1>2, <2>2 DEF Active, HostType
    <3>2. \A i \in 1..Len(conns') : IsOpen(i, d)' <=> i \in 1..Len(conns) /\ IsOpen(i, d)
      BY <1>3, <2>2 DEF IsOpen
    <3>3. QED BY <1>0, <1>3, <3>1, <3>2 DEF ConnectedOnce
  <2>3. QED BY <2>1, <2>2
<1>8. ConnectedOnce'
  BY <1>7 DEF ConnectedOnce
<1>9. QED BY <1>4, <1>5, <1>6, <1>8

\* Nobody opens or closes a connection, or begins or ends.
LEMMA StaysConnected ==
  ASSUME ConnectedOnce, HostType, Len(conns') = Len(conns),
         \A j \in 1..Len(conns) : /\ conns'[j].client = conns[j].client
                                  /\ conns'[j].open = conns[j].open,
         \A d \in Clients : Active(d)' <=> Active(d)
  PROVE  ConnectedOnce'
<1>1. \A d \in Clients, j \in 1..Len(conns) : IsOpen(j, d)' <=> IsOpen(j, d)
  BY DEF IsOpen
<1>2. QED BY <1>1 DEF ConnectedOnce

\* A client ends and closes its connection.
LEMMA Disconnects ==
  ASSUME ConnectedOnce, HostType, NEW c \in Clients, Active(c), ~Active(c)',
         \A d \in Clients \ {c} : client'[d] = client[d],
         Len(conns') = Len(conns), ~conns'[Mine(c)].open,
         \A j \in 1..Len(conns) : j # Mine(c) => conns'[j] = conns[j]
  PROVE  ConnectedOnce'
<1>1. \A i \in 1..Len(conns) : IsOpen(i, c) <=> i = Mine(c)
  BY MineIsOpen DEF ConnectedOnce
<1>2. \A i \in 1..Len(conns) : ~IsOpen(i, c)'
  BY <1>1 DEF IsOpen
<1>3. ASSUME NEW d \in Clients \ {c}, NEW i \in 1..Len(conns)
      PROVE  IsOpen(i, d)' <=> IsOpen(i, d)
  <2>1. CASE i = Mine(c)
    BY <1>1, <2>1 DEF IsOpen
  <2>2. CASE i # Mine(c)
    BY <2>2 DEF IsOpen
  <2>3. QED BY <2>1, <2>2
<1>4. \A d \in Clients \ {c} : Active(d)' <=> Active(d)
  BY DEF Active
<1>5. QED BY <1>2, <1>3, <1>4 DEF ConnectedOnce

LEMMA SendStep ==
  ASSUME IInv, NEW c \in Clients, SendCommand(c)
  PROVE  HostType' /\ GuestType' /\ ConnectedOnce' /\ SentSoFar'
<1>0. HostType /\ GuestType /\ ConnectedOnce /\ SentSoFar
  BY TypesApart DEF IInv
<1> DEFINE x == client[c]  m == Mine(c)
<1>1. /\ x \in ClientState /\ x.pc \in {"begin", "data", "finish"} /\ Active(c)
      /\ m \in 1..Len(conns) /\ IsOpen(m, c)
  BY <1>0, MineIsOpen DEF HostType, SendCommand, Active
<1>2. PICK chunk \in IF x.pc = "data" THEN Pieces(c, x.sent + 1) ELSE {None} :
         conns' = [conns EXCEPT ![m].cmd = Line(x.pc, x.sum, chunk)]
  BY DEF SendCommand
<1>3. IF x.pc = "data" THEN chunk \in AnyPiece ELSE chunk = None
  <2>1. CASE x.pc = "data"
    <3>1. x.sent \in 0..Chunks /\ x.sent < Chunks
      BY <1>0, <1>1, <2>1 DEF SentSoFar, ClientState
    <3>2. QED BY <1>2, <2>1, <3>1 DEF Pieces, AnyPiece
  <2>2. QED BY <1>2, <2>1
<1>4. Line(x.pc, x.sum, chunk) \in Command
  BY <1>1, <1>3, LineType DEF ClientState
<1>5. /\ conns' \in Seq(Connection) /\ Len(conns') = Len(conns)
      /\ \A j \in 1..Len(conns) : /\ conns'[j].client = conns[j].client
                                  /\ conns'[j].open = conns[j].open
  BY <1>0, <1>1, <1>2, <1>4, LineChanged DEF HostType
<1>6. /\ client' = [client EXCEPT ![c].pc = Awaiting(@)]
      /\ UNCHANGED <<kind, wire, back, guest, gaveUp>>
  BY DEF SendCommand
<1>7. [x EXCEPT !.pc = Awaiting(x.pc)] \in ClientState
  BY <1>1 DEF Awaiting, ClientState
<1>8. /\ client' \in [Clients -> ClientState]
      /\ \A d \in Clients \ {c} : client'[d] = client[d]
      /\ client'[c] = [x EXCEPT !.pc = Awaiting(x.pc)]
  BY <1>0, <1>6, <1>7 DEF HostType
<1>9. /\ client'[c].pc = Awaiting(x.pc) /\ client'[c].sent = x.sent
      /\ \A d \in Clients : Active(d)' <=> Active(d)
  BY <1>1, <1>8 DEF ClientState, Active, Awaiting
<1>10. HostType'
  BY <1>0, <1>5, <1>6, <1>8 DEF HostType
<1>11. GuestType'
  BY <1>0, <1>6 DEF GuestType, guest
<1>12. ConnectedOnce'
  BY <1>0, <1>5, <1>9, StaysConnected
<1>13. SentSoFar'
  BY <1>0, <1>1, <1>8, <1>9 DEF SentSoFar, Awaiting
<1>14. QED BY <1>10, <1>11, <1>12, <1>13

LEMMA AnsweredStep ==
  ASSUME IInv, NEW c \in Clients, Answered(c)
  PROVE  HostType' /\ GuestType' /\ ConnectedOnce' /\ SentSoFar'
<1>0. HostType /\ GuestType /\ ConnectedOnce /\ SentSoFar
  BY TypesApart DEF IInv
<1> DEFINE x == client[c]  m == Mine(c)
           sent == IF x.pc = "await data" THEN x.sent + 1 ELSE x.sent
<1>1. /\ x \in ClientState /\ x.pc \in {"await begin", "await data", "await finish"}
      /\ Active(c) /\ m \in 1..Len(conns) /\ back # <<>> /\ back' = Tail(back)
      /\ UNCHANGED <<kind, wire, guest, gaveUp>>
  BY <1>0, MineIsOpen DEF HostType, Answered, Awaits, Active
<1>2. back' \in Seq({"ok", "error"}) /\ Len(back') <= Lines
  <2>1. back \in Seq({"ok", "error"}) /\ Len(back) <= Lines
    BY <1>0 DEF HostType
  <2>2. Tail(back) \in Seq({"ok", "error"}) /\ Len(back) \in Nat /\ Len(Tail(back)) = Len(back) - 1
    BY <1>1, <2>1, TailElements
  <2>3. back' = Tail(back)
    BY <1>1
  <2> HIDE DEF x, m, sent
  <2>4. QED BY <2>1, <2>2, <2>3
<1>3. GuestType'
  BY <1>0, <1>1 DEF GuestType, guest
<1>4. CASE /\ x.pc # "await finish" /\ UNCHANGED conns
           /\ client' = [client EXCEPT ![c].sent = sent,
                                       ![c].pc = IF AllSent(sent) THEN "finish" ELSE "data"]
  <2>1. sent \in 0..Chunks /\ (~AllSent(sent) => sent < Chunks)
    <3>1. x.sent \in 0..Chunks /\ Chunks \in Nat \ {0}
      BY <1>1 DEF ClientState
    <3>2. /\ x.pc = "await data" => x.sent < Chunks
          /\ x.pc = "await begin" => x.sent = 0
      BY <1>0 DEF SentSoFar
    <3>3. sent \in 0..Chunks /\ (sent # Chunks => sent < Chunks)
      <4>1. x.pc = "await data" \/ x.pc = "await begin"
        BY <1>1, <1>4
      <4>2. CASE x.pc = "await data"
        <5>1. sent = x.sent + 1
          BY <4>2
        <5>2. x.sent \in 0..Chunks /\ x.sent < Chunks
          BY <3>1, <3>2, <4>2
        <5> HIDE DEF x, sent
        <5>3. QED BY <3>1, <5>1, <5>2
      <4>3. CASE x.pc = "await begin"
        <5>1. sent = 0
          BY <3>2, <4>3
        <5> HIDE DEF x, sent
        <5>2. QED BY <3>1, <5>1
      <4>4. QED BY <4>1, <4>2, <4>3
    <3>4. QED BY <3>3 DEF AllSent
  <2> DEFINE y == [[x EXCEPT !.sent = sent] EXCEPT !.pc = IF AllSent(sent) THEN "finish" ELSE "data"]
  <2>2. y \in ClientState /\ y.sent = sent /\ y.pc = IF AllSent(sent) THEN "finish" ELSE "data"
    BY <1>1, <2>1 DEF ClientState
  <2>3. client' = [client EXCEPT ![c] = y]
    BY <1>0, <1>4 DEF HostType
  <2> HIDE DEF y, sent
  <2>4. /\ client' \in [Clients -> ClientState] /\ client'[c] = y
        /\ \A d \in Clients \ {c} : client'[d] = client[d]
    BY <1>0, <2>2, <2>3 DEF HostType
  <2>5. HostType'
    BY <1>0, <1>1, <1>2, <1>4, <2>4 DEF HostType
  <2>6. \A d \in Clients : Active(d)' <=> Active(d)
    BY <1>1, <2>2, <2>4 DEF Active
  <2>7. ConnectedOnce'
    BY <1>0, <1>4, <2>6, StaysConnected
  <2>8. SentSoFar'
    BY <1>0, <2>1, <2>2, <2>4 DEF SentSoFar
  <2>9. QED BY <1>3, <2>5, <2>7, <2>8
<1>5. CASE /\ Close(c)
           /\ client' = [client EXCEPT ![c].pc = "done"] \/ client' = [client EXCEPT ![c] = Idle]
  <2>1. [x EXCEPT !.pc = "done"] \in ClientState /\ Idle \in ClientState
    <3>1. [x EXCEPT !.pc = "done"] \in ClientState
      BY <1>1 DEF ClientState
    <3>2. QED BY <3>1, IdleType
  <2>2. /\ client' \in [Clients -> ClientState]
        /\ client'[c].pc \in {"idle", "done"}
        /\ \A d \in Clients \ {c} : client'[d] = client[d]
    <3> DEFINE y == [x EXCEPT !.pc = "done"]
    <3>1. y.pc = "done" /\ Idle.pc = "idle"
      BY <1>1 DEF ClientState, Idle
    <3>2. client' = [client EXCEPT ![c] = y] \/ client' = [client EXCEPT ![c] = Idle]
      BY <1>5
    <3> HIDE DEF y
    <3>3. QED BY <1>0, <2>1, <3>1, <3>2 DEF HostType, y
  <2>3. conns[m].cmd \in Command \cup {None}
    <3>1. conns[m] \in Connection
      BY <1>0, <1>1, ElementOfSeq DEF HostType
    <3>2. QED BY <3>1 DEF Connection
  <2>4. /\ conns' \in Seq(Connection) /\ Len(conns') = Len(conns) /\ ~conns'[m].open
        /\ \A j \in 1..Len(conns) : j # m => conns'[j] = conns[j]
    BY <1>0, <1>1, <1>5, <2>3, ConnectionClosed DEF HostType, Close
  <2>5. HostType'
    BY <1>0, <1>1, <1>2, <2>2, <2>4 DEF HostType
  <2>6. ConnectedOnce'
    BY <1>0, <1>1, <2>2, <2>4, Disconnects DEF Active
  <2>7. SentSoFar'
    BY <1>0, <2>2 DEF SentSoFar
  <2>8. QED BY <1>3, <2>5, <2>6, <2>7
<1>6. QED BY <1>4, <1>5 DEF Answered

LEMMA GivesUpStep ==
  ASSUME IInv, NEW c \in Clients, GivesUp(c)
  PROVE  HostType' /\ GuestType' /\ ConnectedOnce' /\ SentSoFar'
<1>0. HostType /\ GuestType /\ ConnectedOnce /\ SentSoFar
  BY TypesApart DEF IInv
<1> DEFINE m == Mine(c)
<1>1. /\ Active(c) /\ m \in 1..Len(conns)
      /\ client' = [client EXCEPT ![c] = Idle] /\ gaveUp' = TRUE
      /\ UNCHANGED <<kind, wire, back, guest>>
  BY <1>0, MineIsOpen DEF HostType, GivesUp, Awaits, Active
<1>2. /\ client' \in [Clients -> ClientState] /\ client'[c].pc = "idle"
      /\ \A d \in Clients \ {c} : client'[d] = client[d]
  BY <1>0, <1>1, IdleType DEF HostType, Idle
<1>3. PICK left \in Command \cup {None} :
         conns' = [conns EXCEPT ![m].cmd = left, ![m].open = FALSE]
  <2>1. conns[m].cmd \in Command \cup {None} /\ Torn \in Command
    <3>1. conns[m] \in Connection
      BY <1>0, <1>1, ElementOfSeq DEF HostType
    <3>2. Torn \in Command
      BY DEF Torn, Line, Command
    <3>3. QED BY <3>1, <3>2 DEF Connection
  <2>2. QED BY <2>1 DEF GivesUp
<1>4. /\ conns' \in Seq(Connection) /\ Len(conns') = Len(conns) /\ ~conns'[m].open
      /\ \A j \in 1..Len(conns) : j # m => conns'[j] = conns[j]
  BY <1>0, <1>1, <1>3, ConnectionClosed DEF HostType
<1>5. HostType' /\ GuestType'
  BY <1>0, <1>1, <1>2, <1>4 DEF HostType, GuestType, guest
<1>6. ConnectedOnce'
  BY <1>0, <1>1, <1>2, <1>4, Disconnects DEF Active
<1>7. SentSoFar'
  BY <1>0, <1>2 DEF SentSoFar
<1>8. QED BY <1>5, <1>6, <1>7

\* The same of the port: nothing but lines move, and it lets go of connections
\* that are closed.
LEMMA ForwardStep ==
  ASSUME IInv, Forward
  PROVE  HostType' /\ GuestType' /\ ConnectedOnce' /\ SentSoFar'
<1>0. HostType /\ GuestType /\ ConnectedOnce /\ SentSoFar
  BY TypesApart DEF IInv
<1>1. /\ conns # <<>> /\ conns[1].cmd # None /\ conns' = [conns EXCEPT ![1].cmd = None]
      /\ UNCHANGED <<kind, client, back, guest, gaveUp>>
  BY DEF Forward
<1>2. 1 \in 1..Len(conns) /\ conns[1] \in Connection /\ conns[1].cmd \in Command
  <2>1. Len(conns) \in Nat \ {0} /\ Head(conns) \in Connection /\ Head(conns) = conns[1]
    BY <1>0, <1>1, TailElements DEF HostType
  <2>2. 1 \in 1..Len(conns) /\ conns[1] \in Connection
    BY <2>1
  <2>3. QED BY <1>1, <2>2 DEF Connection
<1>3. /\ conns' \in Seq(Connection) /\ Len(conns') = Len(conns)
      /\ \A j \in 1..Len(conns) : /\ conns'[j].client = conns[j].client
                                  /\ conns'[j].open = conns[j].open
  BY <1>0, <1>1, <1>2, LineChanged DEF HostType
<1>4. wire' \in Seq(Command) /\ Len(wire') <= Lines
  <2>1. CASE Len(wire) < Lines /\ wire' = Append(wire, conns[1].cmd)
    BY <1>0, <1>2, <2>1, AppendElement DEF HostType
  <2>2. CASE /\ Torn \in Range(wire)
             /\ wire' = [wire EXCEPT ![Len(wire)] =
                            IF conns[1].cmd = Torn THEN Torn ELSE Line("garbled", None, None)]
    <3>1. Len(wire) \in 1..Len(wire)
      BY <1>0, <2>2 DEF HostType, Range
    <3>2. Torn \in Command /\ Line("garbled", None, None) \in Command
      BY DEF Torn, Line, Command
    <3>3. QED BY <1>0, <2>2, <3>1, <3>2, ReplaceElement DEF HostType
  <2>3. QED BY <2>1, <2>2 DEF Forward
<1>5. HostType' /\ GuestType'
  BY <1>0, <1>1, <1>3, <1>4 DEF HostType, GuestType, guest
<1>6. ConnectedOnce' /\ SentSoFar'
  BY <1>0, <1>1, <1>3, StaysConnected DEF Active, SentSoFar
<1>7. QED BY <1>5, <1>6

LEMMA NextConnectionStep ==
  ASSUME IInv, NextConnection
  PROVE  HostType' /\ GuestType' /\ ConnectedOnce' /\ SentSoFar'
<1>0. HostType /\ GuestType /\ ConnectedOnce /\ SentSoFar
  BY TypesApart DEF IInv
<1>1. /\ conns # <<>> /\ ~conns[1].open /\ conns' = Tail(conns)
      /\ UNCHANGED <<kind, client, wire, back, guest, gaveUp>>
  BY DEF NextConnection
<1>2. /\ conns' \in Seq(Connection) /\ Len(conns) \in Nat \ {0}
      /\ Len(conns') = Len(conns) - 1
      /\ \A j \in 1..Len(conns') : conns'[j] = conns[j + 1]
  BY <1>0, <1>1, TailElements DEF HostType
<1>3. HostType' /\ GuestType'
  BY <1>0, <1>1, <1>2 DEF HostType, GuestType, guest
<1>4. SentSoFar'
  BY <1>0, <1>1 DEF SentSoFar
<1>5. \A d \in Clients : Active(d)' <=> Active(d)
  BY <1>1 DEF Active
<1>6. ASSUME NEW d \in Clients
      PROVE  /\ \A j \in 1..Len(conns') : IsOpen(j, d)' <=> IsOpen(j + 1, d)
             /\ \A i \in 1..Len(conns) : IsOpen(i, d) => i - 1 \in 1..Len(conns') /\ IsOpen(i - 1, d)'
  <2>1. \A j \in 1..Len(conns') : IsOpen(j, d)' <=> IsOpen(j + 1, d)
    BY <1>2 DEF IsOpen
  <2>2. ASSUME NEW i \in 1..Len(conns), IsOpen(i, d)
        PROVE  i - 1 \in 1..Len(conns') /\ IsOpen(i - 1, d)'
    <3>1. i # 1
      BY <1>1, <2>2 DEF IsOpen
    <3>2. i - 1 \in 1..Len(conns') /\ (i - 1) + 1 = i
      BY <1>2, <3>1
    <3>3. QED BY <2>1, <2>2, <3>2
  <2>3. QED BY <2>1, <2>2
<1>7. ASSUME NEW d \in Clients
      PROVE  /\ Active(d)' <=> \E i \in 1..Len(conns') : IsOpen(i, d)'
             /\ \A i, j \in 1..Len(conns') : IsOpen(i, d)' /\ IsOpen(j, d)' => i = j
  <2>1. \A j \in 1..Len(conns') : j + 1 \in 1..Len(conns)
    BY <1>2
  <2>2. Active(d)' <=> \E i \in 1..Len(conns') : IsOpen(i, d)'
    BY <1>0, <1>5, <1>6, <2>1 DEF ConnectedOnce
  <2>3. ASSUME NEW i \in 1..Len(conns'), NEW j \in 1..Len(conns'), IsOpen(i, d)', IsOpen(j, d)'
        PROVE  i = j
    <3>1. i + 1 = j + 1
      BY <1>0, <1>6, <2>1, <2>3 DEF ConnectedOnce
    <3>2. QED BY <1>2, <3>1
  <2>4. QED BY <2>2, <2>3
<1>8. QED BY <1>3, <1>4, <1>7 DEF ConnectedOnce

LEMMA LoseAnswerStep ==
  ASSUME IInv, LoseAnswer
  PROVE  HostType' /\ GuestType' /\ ConnectedOnce' /\ SentSoFar'
<1>0. HostType /\ GuestType /\ ConnectedOnce /\ SentSoFar
  BY TypesApart DEF IInv
<1>1. back # <<>> /\ back' = Tail(back) /\ UNCHANGED <<wire, host, guest>>
  BY DEF LoseAnswer
<1>2. back' \in Seq({"ok", "error"}) /\ Len(back') <= Lines
  <2>1. back \in Seq({"ok", "error"}) /\ Len(back) <= Lines
    BY <1>0 DEF HostType
  <2>2. Tail(back) \in Seq({"ok", "error"}) /\ Len(back) \in Nat /\ Len(Tail(back)) = Len(back) - 1
    BY <1>1, <2>1, TailElements
  <2>3. QED BY <1>1, <2>1, <2>2
<1>3. HostType' /\ GuestType'
  BY <1>0, <1>1, <1>2 DEF HostType, GuestType, host, guest
<1>4. UNCHANGED <<client, conns>>
  BY <1>1 DEF host
<1>5. QED BY <1>0, <1>3, <1>4 DEF ConnectedOnce, SentSoFar, Active, IsOpen
-----------------------------------------------------------------------------
(* The guest: what a transfer in progress has, what is installed, and where  *)
(* the agent's binary is.                                                    *)

\* What these say of the agent's files.
GuestFiles == GuestAtWork /\ InstalledIsWhole /\ BinaryOfStep

\* An answer keeps the types of the device.
LEMMA ReplyType ==
  ASSUME HostType, NEW status \in {"ok", "error"}, Reply(status),
         wire # <<>>, Len(back) < Lines
  PROVE  HostType'
<1>1. wire' \in Seq(Command) /\ Len(wire') <= Lines
  <2>1. wire \in Seq(Command) /\ Len(wire) <= Lines
    BY DEF HostType
  <2>2. Tail(wire) \in Seq(Command) /\ Len(wire) \in Nat /\ Len(Tail(wire)) = Len(wire) - 1
    BY <2>1, TailElements
  <2>3. wire' = Tail(wire)
    BY DEF Reply
  <2>4. QED BY <2>1, <2>2, <2>3
<1>2. back' \in Seq({"ok", "error"}) /\ Len(back') <= Lines
  <2>1. back \in Seq({"ok", "error"}) /\ Len(back) \in Nat
    BY DEF HostType
  <2>2. Append(back, status) \in Seq({"ok", "error"}) /\ Len(Append(back, status)) = Len(back) + 1
    BY <2>1, AppendElement
  <2>3. back' = Append(back, status)
    BY DEF Reply
  <2>4. QED BY <2>1, <2>2, <2>3
<1>3. QED BY <1>1, <1>2 DEF HostType, Reply, host

\* Nothing that clients and the port do disturbs the guest: a line that is being
\* answered stays where it is, and room for its answer remains.
LEMMA HostLeavesGuest ==
  ASSUME GuestFiles, UNCHANGED <<kind, up, step, xfer, tmp, place, backup>>,
         step # "listen" => /\ wire' # <<>> /\ Head(wire').phase = "finish"
                            /\ Len(back') < Lines
  PROVE  GuestFiles'
  BY DEF GuestFiles, GuestAtWork, InstalledIsWhole, BinaryOfStep, SumMatches, Files

\* So it is for every one of their steps.
LEMMA ClientFiles ==
  ASSUME IInv, NEW c \in Clients, Client(c)
  PROVE  GuestFiles'
<1>0. HostType /\ GuestFiles
  BY TypesApart DEF IInv, GuestFiles
<1>1. /\ UNCHANGED <<kind, up, step, xfer, tmp, place, backup, wire>>
      /\ back' = back \/ (back # <<>> /\ back' = Tail(back))
  BY DEF Client, Connect, SendCommand, Answered, GivesUp, guest
<1>2. Len(back') <= Len(back)
  <2>1. back \in Seq({"ok", "error"})
    BY <1>0 DEF HostType
  <2>2. back # <<>> => Len(back) \in Nat /\ Len(Tail(back)) = Len(back) - 1
    BY <2>1, TailElements
  <2>3. Len(back) \in Nat
    BY <2>1
  <2>4. QED BY <1>1, <2>2, <2>3
<1>3. Len(back) \in Nat /\ Len(back') \in Nat
  <2>1. back \in Seq({"ok", "error"})
    BY <1>0 DEF HostType
  <2>2. back # <<>> => Tail(back) \in Seq({"ok", "error"})
    BY <2>1, TailElements
  <2>3. QED BY <1>1, <2>1, <2>2
<1>4. step # "listen" => /\ wire' # <<>> /\ Head(wire').phase = "finish"
                         /\ Len(back') < Lines
  BY <1>0, <1>1, <1>2, <1>3 DEF GuestFiles, GuestAtWork
<1>5. QED BY <1>0, <1>1, <1>4, HostLeavesGuest

LEMMA PortFiles ==
  ASSUME IInv, Port
  PROVE  GuestFiles'
<1>0. HostType /\ GuestFiles
  BY TypesApart DEF IInv, GuestFiles
<1>1. CASE Forward
  <2>1. /\ UNCHANGED <<kind, up, step, xfer, tmp, place, backup, back>>
    BY <1>1 DEF Forward, guest
  <2>2. ASSUME step # "listen"
        PROVE  wire' # <<>> /\ Head(wire').phase = "finish"
    <3>1. /\ wire # <<>> /\ wire \in Seq(Command) /\ Head(wire).phase = "finish"
      BY <1>0, <2>2 DEF HostType, GuestFiles, GuestAtWork
    <3>2. Len(wire) \in Nat \ {0} /\ Head(wire) = wire[1]
      BY <3>1, TailElements
    <3>3. CASE wire' = Append(wire, conns[1].cmd)
      BY <3>1, <3>2, <3>3
    <3>4. CASE /\ Torn \in Range(wire)
               /\ wire' = [wire EXCEPT ![Len(wire)] =
                              IF conns[1].cmd = Torn THEN Torn ELSE Line("garbled", None, None)]
      <4>1. PICK i \in 1..Len(wire) : wire[i] = Torn
        BY <3>1, <3>4 DEF Range
      <4>2. i # 1
        BY <3>1, <3>2, <4>1 DEF Torn, Line
      <4>3. Len(wire) # 1
        BY <3>2, <4>1, <4>2
      <4>4. Torn \in Command /\ Line("garbled", None, None) \in Command
        BY DEF Torn, Line, Command
      <4>5. wire' \in Seq(Command) /\ Len(wire') = Len(wire) /\ wire'[1] = wire[1]
        BY <3>1, <3>2, <3>4, <4>3, <4>4, ReplaceElement
      <4>6. wire' # <<>> /\ Head(wire') = wire'[1]
        BY <3>2, <4>5
      <4>7. QED BY <3>1, <3>2, <4>5, <4>6
    <3>5. QED BY <1>1, <3>3, <3>4 DEF Forward
  <2>3. step # "listen" => Len(back') < Lines
    BY <1>0, <2>1 DEF GuestFiles, GuestAtWork
  <2>4. QED BY <1>0, <2>1, <2>2, <2>3, HostLeavesGuest
<1>2. CASE NextConnection
  BY <1>0, <1>2, HostLeavesGuest DEF NextConnection, guest, GuestFiles, GuestAtWork
<1>3. CASE LoseAnswer
  <2>1. UNCHANGED <<kind, up, step, xfer, tmp, place, backup, wire>> /\ back' = Tail(back) /\ back # <<>>
    BY <1>3 DEF LoseAnswer, host, guest
  <2>2. back \in Seq({"ok", "error"})
    BY <1>0 DEF HostType
  <2>3. Len(back) \in Nat /\ Len(Tail(back)) = Len(back) - 1
    BY <2>1, <2>2, TailElements
  <2>4. step # "listen" => /\ wire' # <<>> /\ Head(wire').phase = "finish"
                           /\ Len(back') < Lines
    BY <1>0, <2>1, <2>3 DEF GuestFiles, GuestAtWork
  <2>5. QED BY <1>0, <2>1, <2>4, HostLeavesGuest
<1>4. QED BY <1>1, <1>2, <1>3 DEF Port

\* A command that is taken leaves room for its answer; the first line of the
\* device is a command.
LEMMA Taken ==
  ASSUME HostType, NEW phase, Takes(phase)
  PROVE  /\ up /\ step = "listen" /\ wire # <<>> /\ Len(back) < Lines
         /\ Head(wire) \in Command /\ Head(wire).phase = phase
<1>1. wire \in Seq(Command) /\ wire # <<>>
  BY DEF HostType, Takes
<1>2. Head(wire) \in Command
  BY <1>1, TailElements
<1>3. QED BY <1>2 DEF Takes

\* While the agent listens, files that are installed stay where they are, and a
\* transfer keeps its file or ends.
LEMMA ListensOn ==
  ASSUME GuestFiles, step = "listen", step' = "listen",
         UNCHANGED <<kind, up, place, backup>>,
         xfer' # None => tmp' \in Seq(AnyPiece)
  PROVE  GuestFiles'
  BY DEF GuestFiles, GuestAtWork, InstalledIsWhole, BinaryOfStep, SumMatches, Files

LEMMA GarbledStep ==
  ASSUME IInv, Garbled
  PROVE  HostType' /\ GuestType' /\ GuestFiles'
<1>0. HostType /\ GuestType /\ GuestFiles
  BY TypesApart DEF IInv, GuestFiles
<1>1. HostType'
  BY <1>0, Taken, ReplyType DEF Garbled
<1>2. GuestType'
  BY <1>0 DEF Garbled, Reply, host, GuestType
<1>3. GuestFiles'
  BY <1>0, Taken, ListensOn DEF Garbled, Reply, host, GuestFiles, GuestAtWork
<1>4. QED BY <1>1, <1>2, <1>3

LEMMA BeginStep ==
  ASSUME IInv, Begin
  PROVE  HostType' /\ GuestType' /\ GuestFiles'
<1>0. HostType /\ GuestType /\ GuestFiles
  BY TypesApart DEF IInv, GuestFiles
<1>1. HostType'
  BY <1>0, Taken, ReplyType DEF Begin
<1>2. Head(wire).sum \in Clients \cup {None} /\ <<>> \in Seq(AnyPiece)
  BY <1>0, Taken DEF Begin, Command
<1>3. \/ UNCHANGED <<xfer, tmp>>
      \/ xfer' = Head(wire).sum /\ tmp' = <<>>
      \/ xfer' = None /\ tmp' = None
  BY DEF Begin, Cleanup, Discard, Drop
<1>4. UNCHANGED <<kind, up, step, place, backup, installed, gaveUp>>
  BY DEF Begin, Reply, host
<1>5. GuestType'
  BY <1>0, <1>2, <1>3, <1>4 DEF GuestType
<1>6. step = "listen" /\ (xfer' # None => tmp' \in Seq(AnyPiece))
  BY <1>0, <1>2, <1>3, Taken DEF GuestFiles, GuestAtWork, Begin
<1>7. GuestFiles'
  BY <1>0, <1>4, <1>6, ListensOn
<1>8. QED BY <1>1, <1>5, <1>7

LEMMA DataStep ==
  ASSUME IInv, Data
  PROVE  HostType' /\ GuestType' /\ GuestFiles'
<1>0. HostType /\ GuestType /\ GuestFiles
  BY TypesApart DEF IInv, GuestFiles
<1>1. HostType'
  BY <1>0, Taken, ReplyType DEF Data
<1>2. Head(wire).chunk \in AnyPiece
  BY <1>0, Taken DEF Data, Command
<1>3. \/ UNCHANGED <<xfer, tmp>>
      \/ xfer # None /\ UNCHANGED xfer /\ tmp' = Extended(tmp, Head(wire).chunk)
      \/ xfer' = None /\ tmp' = None
  BY DEF Data, Discard, Drop
<1>4. UNCHANGED <<kind, up, step, place, backup, installed, gaveUp>>
  BY DEF Data, Reply, host
<1>5. xfer # None => tmp \in Seq(AnyPiece) /\ Extended(tmp, Head(wire).chunk) \in Seq(AnyPiece)
  <2>1. xfer # None => tmp \in Seq(AnyPiece)
    BY <1>0 DEF GuestFiles, GuestAtWork
  <2>2. xfer # None => Append(tmp, Head(wire).chunk) \in Seq(AnyPiece)
    BY <1>2, <2>1, AppendElement
  <2>3. QED BY <2>1, <2>2 DEF Extended
<1>6. GuestType'
  BY <1>0, <1>3, <1>4, <1>5 DEF GuestType
<1>7. step = "listen" /\ (xfer' # None => tmp' \in Seq(AnyPiece))
  BY <1>0, <1>3, <1>5, Taken DEF Data
<1>8. GuestFiles'
  BY <1>0, <1>4, <1>7, ListensOn
<1>9. QED BY <1>1, <1>6, <1>8

LEMMA FinishRefusedStep ==
  ASSUME IInv, FinishRefused
  PROVE  HostType' /\ GuestType' /\ GuestFiles'
<1>0. HostType /\ GuestType /\ GuestFiles
  BY TypesApart DEF IInv, GuestFiles
<1>1. HostType'
  BY <1>0, Taken, ReplyType DEF FinishRefused
<1>2. UNCHANGED <<xfer, tmp>> \/ (xfer' = None /\ tmp' = None)
  BY DEF FinishRefused, Discard, Drop
<1>3. UNCHANGED <<kind, up, step, place, backup, installed, gaveUp>>
  BY DEF FinishRefused, Reply, host
<1>4. GuestType'
  BY <1>0, <1>2, <1>3 DEF GuestType
<1>5. step = "listen" /\ (xfer' # None => tmp' \in Seq(AnyPiece))
  BY <1>0, <1>2, Taken DEF GuestFiles, GuestAtWork, FinishRefused
<1>6. GuestFiles'
  BY <1>0, <1>3, <1>5, ListensOn
<1>7. QED BY <1>1, <1>4, <1>6

\* What is installed is the file whose checksum was announced.
LEMMA FinishStep ==
  ASSUME IInv, Finish
  PROVE  HostType' /\ GuestType' /\ GuestFiles'
<1>0. HostType /\ GuestType /\ GuestFiles
  BY TypesApart DEF IInv, GuestFiles
<1>1. HostType'
  BY <1>0, Taken, ReplyType DEF Finish
<1>2. /\ kind # "update" /\ up /\ step = "listen" /\ xfer \in Clients /\ tmp = Whole(xfer)
      /\ place' = tmp /\ installed' = installed \cup {xfer} /\ xfer' = None /\ tmp' = None
      /\ UNCHANGED <<kind, up, step, backup, gaveUp>>
  BY <1>0, Taken DEF Finish, Installed, Discard, Drop, Reply, host, SumMatches, GuestType
<1>3. GuestType'
  BY <1>0, <1>2 DEF GuestType
<1>4. GuestFiles'
  BY <1>0, <1>2 DEF GuestFiles, GuestAtWork, InstalledIsWhole, BinaryOfStep, Files
<1>5. QED BY <1>1, <1>3, <1>4

\* The binary is swapped in steps: it is in its place until its backup is.
LEMMA SwapSteps ==
  ASSUME IInv, FinishUpdate \/ RemoveBackup
  PROVE  HostType' /\ GuestType' /\ GuestFiles'
<1>0. HostType /\ GuestType /\ GuestFiles
  BY TypesApart DEF IInv, GuestFiles
<1>1. HostType'
  BY <1>0 DEF FinishUpdate, RemoveBackup, host, HostType
<1>2. CASE FinishUpdate
  BY <1>0, <1>1, <1>2, Taken DEF FinishUpdate, host, GuestType, GuestFiles, GuestAtWork,
     InstalledIsWhole, BinaryOfStep, SumMatches
<1>3. CASE RemoveBackup
  BY <1>0, <1>1, <1>3 DEF RemoveBackup, host, GuestType, GuestFiles, GuestAtWork,
     InstalledIsWhole, BinaryOfStep, SumMatches, Files
<1>4. QED BY <1>2, <1>3

LEMMA KeepCurrentStep ==
  ASSUME IInv, KeepCurrent
  PROVE  HostType' /\ GuestType' /\ GuestFiles'
<1>0. HostType /\ GuestType /\ GuestFiles
  BY TypesApart DEF IInv, GuestFiles
<1>1. /\ up /\ kind = "update" /\ wire # <<>> /\ Len(back) < Lines /\ step = "rename"
      /\ xfer # None /\ SumMatches /\ place # None
  BY <1>0 DEF KeepCurrent, GuestFiles, GuestAtWork, BinaryOfStep
<1>2. CASE step' = "install" /\ backup' = place /\ place' = None
           /\ UNCHANGED <<wire, back, host, xfer, tmp, up, installed>>
  <2>1. HostType' /\ GuestType'
    BY <1>0, <1>2 DEF HostType, GuestType, host
  <2>2. GuestFiles'
    BY <1>0, <1>1, <1>2 DEF host, GuestFiles, GuestAtWork, InstalledIsWhole, BinaryOfStep,
       SumMatches, Files
  <2>3. QED BY <2>1, <2>2
<1>3. CASE step' = "listen" /\ Discard /\ Reply("error") /\ UNCHANGED <<place, backup, up, installed>>
  <2>1. HostType'
    BY <1>0, <1>1, <1>3, ReplyType
  <2>2. GuestType'
    BY <1>0, <1>3 DEF GuestType, Reply, host, Discard, Drop
  <2>3. GuestFiles'
    BY <1>0, <1>1, <1>3 DEF Reply, host, Discard, Drop, GuestFiles, GuestAtWork,
       InstalledIsWhole, BinaryOfStep, Files
  <2>4. QED BY <2>1, <2>2, <2>3
<1>4. QED BY <1>2, <1>3 DEF KeepCurrent

LEMMA InstallUpdateStep ==
  ASSUME IInv, InstallUpdate
  PROVE  HostType' /\ GuestType' /\ GuestFiles'
<1>0. HostType /\ GuestType /\ GuestFiles
  BY TypesApart DEF IInv, GuestFiles
<1>1. /\ up /\ kind = "update" /\ wire # <<>> /\ Len(back) < Lines
      /\ step = "install" /\ step' = "listen" /\ up' = up
      /\ xfer \in Clients /\ tmp = Whole(xfer) /\ backup # None
  BY <1>0 DEF InstallUpdate, GuestFiles, GuestAtWork, BinaryOfStep, SumMatches, GuestType
<1>2. HostType'
  BY <1>0, <1>1, ReplyType DEF InstallUpdate
<1>3. \/ /\ place' = tmp /\ installed' = installed \cup {xfer} /\ xfer' = None /\ tmp' = None
         /\ backup' = backup
      \/ /\ place' = backup /\ backup' = None /\ xfer' = None
         /\ UNCHANGED <<tmp, installed>>
  BY DEF InstallUpdate, Installed, RestoreFromBackup, Discard, Drop
<1>4. UNCHANGED <<kind, gaveUp>>
  BY DEF InstallUpdate, Reply, host
<1>5. GuestType'
  BY <1>0, <1>1, <1>3, <1>4 DEF GuestType
<1>6. place' # None
  BY <1>1, <1>3
<1>7. GuestFiles'
  BY <1>0, <1>1, <1>3, <1>4, <1>6 DEF GuestFiles, GuestAtWork, InstalledIsWhole, BinaryOfStep, Files
<1>8. QED BY <1>2, <1>5, <1>7

\* A crash finds the binary or its backup; OpenRC needs the binary.
LEMMA CrashStep ==
  ASSUME IInv, Crash \/ Start
  PROVE  HostType' /\ GuestType' /\ GuestFiles'
<1>0. HostType /\ GuestType /\ GuestFiles
  BY TypesApart DEF IInv, GuestFiles
<1>1. CASE Crash
  <2>1. HostType'
    <3>1. wire' \in {wire, <<>>} /\ back' \in {back, <<>>} /\ UNCHANGED host
      BY <1>1 DEF Crash
    <3>2. /\ \A S : <<>> \in Seq(S)
          /\ Len(<<>>) = 0 /\ 0 <= Lines
      OBVIOUS
    <3>3. QED BY <1>0, <3>1, <3>2 DEF HostType, host
  <2>2. GuestType'
    BY <1>0, <1>1 DEF Crash, GuestType, host
  <2>3. GuestFiles'
    BY <1>0, <1>1 DEF Crash, host, GuestFiles, GuestAtWork, InstalledIsWhole, BinaryOfStep, Files,
       GuestType
  <2>4. QED BY <2>1, <2>2, <2>3
<1>2. CASE Start
  <2>1. HostType' /\ GuestType'
    BY <1>0, <1>2 DEF Start, HostType, GuestType, host
  <2>2. GuestFiles'
    BY <1>0, <1>2 DEF Start, host, GuestFiles, GuestAtWork, InstalledIsWhole, BinaryOfStep,
       SumMatches, Files
  <2>3. QED BY <2>1, <2>2
<1>3. QED BY <1>1, <1>2
-----------------------------------------------------------------------------
(* One answer at a time, and for the client that waits for it.               *)

Orderly == Patient /\ OwnSum /\ Served /\ ReportedIsInstalled

\* The client of an open connection is at something; that of a line that was
\* written and that of a connection behind the first are such clients.
LEMMA OpenAndActive ==
  ASSUME HostType, ConnectedOnce, Patient, Served, NEW i \in 1..Len(conns)
  PROVE  /\ conns[i] \in Connection /\ conns[i].client \in Clients
         /\ conns[i].open => Active(conns[i].client)
         /\ conns[i].open => \A j \in 1..Len(conns) :
                conns[j].open /\ conns[j].client = conns[i].client => j = i
         /\ i # 1 => conns[i].open
         /\ conns[i].cmd # None => conns[i].open
<1>1. Len(conns) \in Nat /\ conns[i] \in Connection
  BY ElementOfSeq DEF HostType
<1>2. conns[i].client \in Clients
  BY <1>1 DEF Connection
<1>3. conns[i].open => Active(conns[i].client)
  BY <1>2 DEF ConnectedOnce, IsOpen
<1>4. conns[i].open => \A j \in 1..Len(conns) :
                conns[j].open /\ conns[j].client = conns[i].client => j = i
  BY <1>2 DEF ConnectedOnce, IsOpen
<1>5. i # 1 => conns[i].open
  <2>1. i # 1 => i \in 2..Len(conns)
    BY <1>1
  <2>2. QED BY <2>1 DEF Patient
<1>6. conns # <<>>
  BY <1>1
<1>7. conns[1].cmd # None => conns[1].open
  BY <1>6 DEF Served, Unserved
<1>8. conns[i].cmd # None => conns[i].open
  BY <1>5, <1>7
<1>9. QED BY <1>1, <1>2, <1>3, <1>4, <1>5, <1>8

\* Steps that leave clients and connections alone: what is left to show.
LEMMA GuestOrderly ==
  ASSUME IInv, ~gaveUp, UNCHANGED host,
         Served', installed \subseteq installed'
  PROVE  Orderly'
  BY DEF IInv, Orderly, Patient, OwnSum, ReportedIsInstalled, host

\* What the answer to the line the first client waits for has to leave behind.
Serves(status, c) ==
    Awaits(c) /\ client[c].pc = Awaiting(Head(wire).phase)
      /\ Head(wire).sum = client[c].sum /\ OwnTransfer(c)
    => /\ client[c].pc \in {"await data", "await finish"} => xfer' \in {c, None}
       /\ status = "ok" => /\ client[c].pc = "await begin" => xfer' \in {c, None}
                           /\ client[c].pc = "await finish" => c \in installed'

\* The guest answers the line it got, and that is the first client's.
LEMMA ReplyServes ==
  ASSUME IInv, ~gaveUp, NEW status \in {"ok", "error"}, Reply(status), wire # <<>>,
         installed \subseteq installed', \A c \in Clients : Serves(status, c)
  PROVE  Orderly'
<1>0. HostType /\ ConnectedOnce /\ Patient /\ OwnSum /\ Served
  BY TypesApart DEF IInv
<1>1. ~Unserved
  BY <1>0 DEF Served, Quiet
<1> DEFINE d == conns[1].client
<1>2. /\ conns[1].cmd = None /\ back = <<>> /\ Len(wire) = 1 /\ Awaits(d)
      /\ client[d].pc = Awaiting(wire[1].phase) /\ wire[1].sum = client[d].sum
      /\ OwnTransfer(d)
  BY <1>0, <1>1 DEF Served, OneLine, Quiet
<1>3. d \in Clients
  <2>1. conns # <<>> /\ conns \in Seq(Connection)
    BY <1>0, <1>1 DEF Unserved, HostType
  <2>2. Len(conns) \in Nat \ {0}
    BY <2>1, TailElements
  <2>3. 1 \in 1..Len(conns)
    BY <2>2
  <2>4. QED BY <1>0, <2>3, OpenAndActive
<1>4. wire' = <<>> /\ Head(wire) = wire[1]
  <2>1. wire \in Seq(Command) /\ wire' = Tail(wire)
    BY <1>0 DEF HostType, Reply
  <2>2. Tail(wire) \in Seq(Command) /\ Len(Tail(wire)) = Len(wire) - 1 /\ Head(wire) = wire[1]
    BY <2>1, TailElements
  <2>a. Len(wire) = 1
    BY <1>2
  <2>b. Len(Tail(wire)) = 0
    BY <2>2, <2>a
  <2>3. Tail(wire) = <<>>
    BY <2>2, <2>b, EmptySeq
  <2>4. QED BY <2>1, <2>2, <2>3
<1>5. Len(back') = 1 /\ (back' = <<"ok">> => status = "ok") /\ UNCHANGED <<conns, client, gaveUp>>
  <2>1. back' = Append(back, status) /\ UNCHANGED <<conns, client, gaveUp>>
    BY DEF Reply, host
  <2>2. back \in Seq({"ok", "error"}) /\ Len(back) = 0
    BY <1>2
  <2>3. Len(back') = 1 /\ back'[1] = status
    BY <2>1, <2>2, AppendElement
  <2>4. back' = <<"ok">> => back'[1] = "ok"
    OBVIOUS
  <2>5. UNCHANGED <<conns, client, gaveUp>>
    BY <2>1
  <2>6. QED BY <2>3, <2>4, <2>5
<1>6. OneLine(d)'
  BY <1>2, <1>4, <1>5 DEF OneLine, Awaits
<1>7. OwnTransfer(d)'
  <2>1. Serves(status, d)
    BY <1>3
  <2>2. QED BY <1>2, <1>4, <1>5, <2>1 DEF OwnTransfer, Awaits, Serves
<1>8. Served'
  <2>1. ~Unserved' /\ conns'[1].client = d
    BY <1>1, <1>5 DEF Unserved
  <2>2. OneLine(conns[1].client)' /\ OwnTransfer(conns[1].client)'
    BY <1>6, <1>7, <2>1
  <2>3. QED BY <2>1, <2>2 DEF Served
<1>9. QED BY <1>8, GuestOrderly DEF Reply

\* The guest's steps that answer.
LEMMA AnswersServe ==
  ASSUME IInv, ~gaveUp, Garbled \/ Begin \/ Data \/ FinishRefused \/ Finish
  PROVE  Orderly'
<1>0. HostType /\ GuestType
  BY TypesApart DEF IInv
<1>1. CASE Garbled
  <2>1. \A c \in Clients : Serves("error", c)
    BY <1>1 DEF Serves, Garbled, OwnTransfer
  <2>2. QED BY <1>0, <1>1, <2>1, Taken, ReplyServes DEF Garbled
<1>2. CASE Begin
  <2>1. /\ Head(wire).phase = "begin" /\ wire # <<>>
        /\ Reply("error") \/ (Reply("ok") /\ xfer' = Head(wire).sum)
        /\ installed' = installed
    BY <1>0, <1>2, Taken DEF Begin
  <2>2. \A c \in Clients : client[c].sum \in {c, None}
    BY DEF IInv, OwnSum
  <2>3. ASSUME Reply("error") PROVE \A c \in Clients : Serves("error", c)
    BY <2>1 DEF Serves, Awaits, Awaiting
  <2>4. ASSUME xfer' = Head(wire).sum PROVE \A c \in Clients : Serves("ok", c)
    BY <2>1, <2>2, <2>4 DEF Serves, Awaits, Awaiting
  <2>5. QED BY <2>1, <2>3, <2>4, ReplyServes
<1>3. CASE Data
  <2>1. /\ Head(wire).phase = "data" /\ wire # <<>>
        /\ Reply("error") \/ Reply("ok")
        /\ xfer' = xfer \/ xfer' = None
        /\ installed' = installed
    BY <1>0, <1>3, Taken DEF Data, Discard, Drop
  <2>2. \A c \in Clients : Serves("error", c) /\ Serves("ok", c)
    BY <2>1 DEF Serves, Awaits, Awaiting, OwnTransfer
  <2>3. QED BY <2>1, <2>2, ReplyServes
<1>4. CASE FinishRefused
  <2>1. wire # <<>> /\ Reply("error") /\ (xfer' = xfer \/ xfer' = None) /\ installed' = installed
    BY <1>0, <1>4, Taken DEF FinishRefused, Discard, Drop
  <2>2. \A c \in Clients : Serves("error", c)
    BY <2>1 DEF Serves, OwnTransfer
  <2>3. QED BY <2>1, <2>2, ReplyServes
<1>5. CASE Finish
  <2>1. /\ Head(wire).phase = "finish" /\ wire # <<>> /\ Reply("ok")
        /\ xfer # None /\ xfer' = None /\ installed' = installed \cup {xfer}
    BY <1>0, <1>5, Taken DEF Finish, Installed, Discard, Drop
  <2>2. \A c \in Clients : Serves("ok", c)
    BY <2>1 DEF Serves, Awaits, Awaiting, OwnTransfer
  <2>3. QED BY <2>1, <2>2, ReplyServes
<1>6. QED BY <1>1, <1>2, <1>3, <1>4, <1>5

\* The steps of an update, of which the last ones answer.
LEMMA SwapServes ==
  ASSUME IInv, ~gaveUp, FinishUpdate \/ RemoveBackup \/ KeepCurrent \/ InstallUpdate
  PROVE  Orderly'
<1>0. HostType /\ GuestType /\ Served /\ GuestAtWork
  BY TypesApart DEF IInv
<1>1. CASE UNCHANGED <<host, wire, back, xfer, installed>>
  <2>1. Served'
    BY <1>0, <1>1 DEF Served, Unserved, Quiet, OneLine, OwnTransfer, host, Awaits
  <2>2. QED BY <1>1, <2>1, GuestOrderly DEF host
<1>2. CASE KeepCurrent /\ Reply("error")
  <2>1. wire # <<>> /\ xfer' = None /\ installed' = installed
    BY <1>0, <1>2 DEF KeepCurrent, GuestAtWork, Discard, Drop, Reply
  <2>2. \A c \in Clients : Serves("error", c)
    BY <2>1 DEF Serves
  <2>3. QED BY <1>2, <2>1, <2>2, ReplyServes
<1>3. CASE InstallUpdate
  <2>1. /\ wire # <<>> /\ Head(wire).phase = "finish" /\ xfer # None /\ xfer' = None
        /\ \/ Reply("ok") /\ installed' = installed \cup {xfer}
           \/ Reply("error") /\ installed' = installed
    BY <1>0, <1>3 DEF InstallUpdate, GuestAtWork, Installed, Discard, Drop
  <2>2. \A c \in Clients : Serves("error", c)
    BY <2>1 DEF Serves
  <2>3. installed' = installed \cup {xfer} => \A c \in Clients : Serves("ok", c)
    BY <2>1 DEF Serves, Awaits, Awaiting, OwnTransfer
  <2>4. QED BY <2>1, <2>2, <2>3, ReplyServes
<1>4. QED BY <1>1, <1>2, <1>3 DEF FinishUpdate, RemoveBackup, KeepCurrent, host

\* What a crash loses, the first client waits for in vain.
LEMMA CrashServes ==
  ASSUME IInv, ~gaveUp, Crash \/ Start
  PROVE  Orderly'
<1>0. HostType /\ Served
  BY TypesApart DEF IInv
<1>1. CASE Crash
  <2>1. /\ wire' \in {wire, <<>>} /\ back' \in {back, <<>>} /\ xfer' = None
        /\ UNCHANGED <<host, conns, client, installed>>
    BY <1>1 DEF Crash, host
  <2>2. CASE Unserved
    <3>1. Quiet' /\ Unserved'
      BY <1>0, <2>1, <2>2 DEF Served, Quiet, Unserved
    <3>2. Served'
      BY <1>0, <2>1, <2>2, <3>1 DEF Served
    <3>3. QED BY <2>1, <3>2, GuestOrderly
  <2>3. CASE ~Unserved
    <3> DEFINE c == conns[1].client
    <3>1. OneLine(c) /\ OwnTransfer(c)
      BY <1>0, <2>3 DEF Served
    <3>2. OneLine(c)'
      <4>1. CASE Quiet
        BY <2>1, <3>1, <4>1 DEF OneLine, Quiet, Awaits
      <4>2. CASE /\ conns[1].cmd = None /\ back = <<>> /\ Len(wire) = 1
                 /\ Awaits(c) /\ client[c].pc = Awaiting(wire[1].phase) /\ wire[1].sum = client[c].sum
        <5>1. CASE wire' = wire
          BY <2>1, <4>2, <5>1 DEF OneLine, Awaits
        <5>2. CASE wire' = <<>>
          BY <2>1, <4>2, <5>2 DEF OneLine, Quiet
        <5>3. QED BY <2>1, <5>1, <5>2
      <4>3. CASE conns[1].cmd = None /\ wire = <<>> /\ Len(back) = 1 /\ Awaits(c)
        <5>1. CASE back' = back
          BY <2>1, <4>3, <5>1 DEF OneLine, Awaits
        <5>2. CASE back' = <<>>
          BY <2>1, <4>3, <5>2 DEF OneLine, Quiet
        <5>3. QED BY <2>1, <5>1, <5>2
      <4>4. QED BY <3>1, <4>1, <4>2, <4>3 DEF OneLine
    <3>3. OwnTransfer(c)'
      <4>1. <<"ok">> # <<>>
        OBVIOUS
      <4>2. back' = <<"ok">> => back = <<"ok">>
        BY <2>1, <4>1
      <4>3. QED BY <2>1, <3>1, <4>2 DEF OwnTransfer
    <3>4. ~Unserved' /\ conns'[1].client = c
      BY <2>1, <2>3 DEF Unserved
    <3>5. Served'
      BY <3>2, <3>3, <3>4 DEF Served
    <3>6. QED BY <2>1, <3>5, GuestOrderly
  <2>4. QED BY <2>2, <2>3
<1>2. CASE Start
  <2>1. Served'
    BY <1>0, <1>2 DEF Start, Served, Unserved, Quiet, OneLine, OwnTransfer, host, Awaits
  <2>2. QED BY <1>2, <2>1, GuestOrderly DEF Start
<1>3. QED BY <1>1, <1>2

\* A new connection waits its turn, or finds the device quiet.
LEMMA ConnectServes ==
  ASSUME IInv, ~gaveUp, NEW c \in Clients, NEW sum \in {c, None}, Connect(c, sum)
  PROVE  Orderly'
<1>0. /\ HostType /\ ConnectedOnce /\ Patient /\ OwnSum /\ Served /\ ReportedIsInstalled
      /\ HostType' /\ ConnectedOnce'
  BY TypesApart, ConnectStep DEF IInv
<1> DEFINE new == [client |-> c, open |-> TRUE, cmd |-> None]
<1>1. /\ conns' = Append(conns, new)
      /\ client' = [client EXCEPT ![c] = [pc |-> "begin", sum |-> sum, sent |-> 0]]
      /\ UNCHANGED <<wire, back, xfer, gaveUp>>
      /\ installed' = installed \ {c} /\ ~Active(c)
  BY DEF Connect, Active
<1>2. /\ Len(conns) \in Nat /\ Len(conns') = Len(conns) + 1
      /\ \A j \in 1..Len(conns) : conns'[j] = conns[j]
      /\ conns'[Len(conns) + 1] = new
  <2>1. conns \in Seq(Connection) /\ new \in Connection
    BY <1>0 DEF HostType, Connection
  <2>2. QED BY <1>1, <2>1, AppendElement
<1>3. /\ client'[c].pc = "begin" /\ client'[c].sum = sum
      /\ \A d \in Clients \ {c} : client'[d] = client[d]
  BY <1>0, <1>1 DEF HostType
<1>4. ASSUME NEW i \in 1..Len(conns)
      PROVE  /\ conns[i].client \in Clients
             /\ conns[i].open => conns[i].client # c
             /\ i # 1 => conns[i].open
             /\ conns[i].cmd # None => conns[i].open
  BY <1>0, <1>1, OpenAndActive
<1>5. ReportedIsInstalled'
  BY <1>0, <1>1, <1>3 DEF ReportedIsInstalled
<1>6. OwnSum'
  <2>1. \A d \in Clients : client'[d].sum \in {d, None}
    BY <1>0, <1>3 DEF OwnSum
  <2>2. ASSUME NEW i \in 1..Len(conns'), conns'[i].cmd # None
        PROVE  conns'[i].cmd.sum = client'[conns'[i].client].sum
    <3>1. i \in 1..Len(conns) /\ conns'[i] = conns[i]
      BY <1>2, <2>2
    <3>2. client'[conns[i].client] = client[conns[i].client]
      BY <1>3, <1>4, <2>2, <3>1
    <3>3. QED BY <1>0, <2>2, <3>1, <3>2 DEF OwnSum
  <2>3. QED BY <2>1, <2>2 DEF OwnSum
<1>7. Patient'
  <2>1. ASSUME NEW i \in 2..Len(conns')
        PROVE  /\ conns'[i].open
               /\ client'[conns'[i].client].pc \in {"begin", "await begin"}
               /\ conns'[i].cmd # None => /\ client'[conns'[i].client].pc = "await begin"
                                         /\ conns'[i].cmd.phase = "begin"
    <3>1. CASE i = Len(conns) + 1
      <4>1. conns'[i] = new
        BY <1>2, <3>1
      <4>2. new.open /\ new.client = c /\ new.cmd = None
        OBVIOUS
      <4> HIDE DEF new
      <4>3. QED BY <1>3, <4>1, <4>2
    <3>2. CASE i # Len(conns) + 1
      <4>1. i \in 2..Len(conns) /\ i \in 1..Len(conns) /\ conns'[i] = conns[i]
        BY <1>2, <3>2
      <4>2. conns[i].open
        BY <1>0, <4>1 DEF Patient
      <4>3. client'[conns[i].client] = client[conns[i].client]
        BY <1>3, <1>4, <4>1, <4>2
      <4>4. QED BY <1>0, <4>1, <4>3 DEF Patient
    <3>3. QED BY <3>1, <3>2
  <2>2. QED BY <2>1 DEF Patient
<1>8. Served'
  <2>1. CASE conns = <<>>
    <3>1. Quiet /\ conns'[1] = new /\ conns' # <<>>
      <4>1. Len(conns) = 0
        BY <2>1
      <4>2. conns'[1] = new /\ Len(conns') = 1
        BY <1>2, <4>1
      <4>3. QED BY <1>0, <2>1, <4>2 DEF Served, Unserved
    <3>2. OneLine(c)' /\ OwnTransfer(c)'
      <4>1. <<"ok">> # <<>>
        OBVIOUS
      <4>2. Quiet' /\ conns'[1].cmd = None
        BY <1>1, <3>1 DEF Quiet
      <4>3. OneLine(c)'
        BY <4>2 DEF OneLine
      <4>4. back' # <<"ok">>
        BY <4>1, <4>2 DEF Quiet
      <4>5. QED BY <1>3, <4>3, <4>4 DEF OwnTransfer
    <3>3. QED BY <3>1, <3>2 DEF Served, Unserved
  <2>2. CASE conns # <<>>
    <3>1. /\ 1 \in 1..Len(conns) /\ conns'[1] = conns[1] /\ conns' # <<>>
      <4>1. Len(conns) # 0
        BY <1>0, <2>2, EmptySeq DEF HostType
      <4>2. 1 \in 1..Len(conns) /\ Len(conns') # 0
        BY <1>2, <4>1
      <4>3. QED BY <1>2, <4>2
    <3>2. CASE ~conns[1].open
      BY <1>0, <1>1, <2>2, <3>1, <3>2 DEF Served, Unserved, Quiet
    <3>3. CASE conns[1].open
      <4> DEFINE d == conns[1].client
      <4>1. OneLine(d) /\ OwnTransfer(d) /\ d \in Clients /\ d # c
        BY <1>0, <1>4, <2>2, <3>1, <3>3 DEF Served, Unserved
      <4>2. client'[d] = client[d]
        BY <1>3, <4>1
      <4>3. OneLine(d)'
        BY <1>1, <3>1, <4>1, <4>2 DEF OneLine, Quiet, Awaits
      <4>4. OwnTransfer(d)'
        BY <1>1, <3>1, <4>1, <4>2 DEF OwnTransfer
      <4>5. ~Unserved'
        BY <3>1, <3>3 DEF Unserved
      <4>6. QED BY <4>3, <4>4, <4>5 DEF Served
    <3>4. QED BY <3>2, <3>3
  <2>3. QED BY <2>1, <2>2
<1>9. QED BY <1>5, <1>6, <1>7, <1>8 DEF Orderly

\* A line is written behind those of others, or into a quiet device.
LEMMA SendServes ==
  ASSUME IInv, ~gaveUp, NEW c \in Clients, SendCommand(c)
  PROVE  Orderly'
<1>0. HostType /\ ConnectedOnce /\ Patient /\ OwnSum /\ Served /\ ReportedIsInstalled
  BY TypesApart DEF IInv
<1> DEFINE x == client[c]  m == Mine(c)
<1>1. /\ x \in ClientState /\ x.pc \in {"begin", "data", "finish"} /\ Active(c)
      /\ m \in 1..Len(conns) /\ IsOpen(m, c) /\ conns[m].cmd = None
      /\ UNCHANGED <<wire, back, xfer, installed, gaveUp>>
  BY <1>0, MineIsOpen DEF HostType, SendCommand, Active, guest
<1>2. PICK chunk : conns' = [conns EXCEPT ![m].cmd = Line(x.pc, x.sum, chunk)]
  BY DEF SendCommand
<1>3. /\ Len(conns') = Len(conns) /\ conns'[m].cmd.phase = x.pc /\ conns'[m].cmd.sum = x.sum
      /\ conns'[m].open = conns[m].open /\ conns'[m].client = conns[m].client
      /\ \A j \in 1..Len(conns) : j # m => conns'[j] = conns[j]
  <2>1. conns[m] \in Connection /\ conns \in Seq(Connection)
    BY <1>0, <1>1, ElementOfSeq DEF HostType
  <2> DEFINE l == Line(x.pc, x.sum, chunk)
  <2>2. l.phase = x.pc /\ l.sum = x.sum
    BY DEF Line
  <2> HIDE DEF l
  <2>3. conns' = [conns EXCEPT ![m].cmd = l]
    BY <1>2 DEF l
  <2>4. /\ Len(conns') = Len(conns) /\ conns'[m] = [conns[m] EXCEPT !.cmd = l]
        /\ \A j \in 1..Len(conns) : j # m => conns'[j] = conns[j]
    BY <1>1, <2>1, <2>3
  <2>5. conns'[m].cmd = l /\ conns'[m].open = conns[m].open /\ conns'[m].client = conns[m].client
    BY <2>1, <2>4 DEF Connection
  <2>6. QED BY <2>2, <2>4, <2>5
<1>4. /\ client'[c].pc = Awaiting(x.pc) /\ client'[c].sum = x.sum
      /\ \A d \in Clients \ {c} : client'[d] = client[d]
  BY <1>0, <1>1 DEF HostType, SendCommand, ClientState
<1>5. ASSUME NEW i \in 1..Len(conns), i # m
      PROVE  /\ conns[i].client \in Clients
             /\ conns[i].open => conns[i].client # c
             /\ i # 1 => conns[i].open
             /\ conns[i].cmd # None => conns[i].open
  BY <1>0, <1>1, <1>5, OpenAndActive DEF IsOpen
<1>6. ReportedIsInstalled'
  BY <1>0, <1>1, <1>4 DEF ReportedIsInstalled, Awaiting
<1>7. OwnSum'
  <2>1. \A d \in Clients : client'[d].sum \in {d, None}
    BY <1>0, <1>4 DEF OwnSum
  <2>2. ASSUME NEW i \in 1..Len(conns'), conns'[i].cmd # None
        PROVE  conns'[i].cmd.sum = client'[conns'[i].client].sum
    <3>1. CASE i = m
      BY <1>1, <1>3, <1>4, <3>1 DEF IsOpen
    <3>2. CASE i # m
      <4>1. i \in 1..Len(conns) /\ conns'[i] = conns[i]
        BY <1>3, <3>2
      <4>2. client'[conns[i].client] = client[conns[i].client]
        BY <1>4, <1>5, <2>2, <3>2, <4>1
      <4>3. QED BY <1>0, <2>2, <4>1, <4>2 DEF OwnSum
    <3>3. QED BY <3>1, <3>2
  <2>3. QED BY <2>1, <2>2 DEF OwnSum
<1>8. \A i \in 2..Len(conns) : i \in 1..Len(conns) /\ i # 1
  BY <1>0 DEF HostType
<1>9. Patient'
  <2>1. ASSUME NEW i \in 2..Len(conns')
        PROVE  /\ conns'[i].open
               /\ client'[conns'[i].client].pc \in {"begin", "await begin"}
               /\ conns'[i].cmd # None => /\ client'[conns'[i].client].pc = "await begin"
                                         /\ conns'[i].cmd.phase = "begin"
    <3>1. i \in 2..Len(conns) /\ i \in 1..Len(conns) /\ i # 1
      BY <1>3, <1>8
    <3>2. CASE i = m
      <4>1. x.pc = "begin" /\ conns[m].open
        BY <1>0, <1>1, <3>1, <3>2 DEF Patient, IsOpen
      <4>2. QED BY <1>1, <1>3, <1>4, <3>2, <4>1 DEF IsOpen, Awaiting
    <3>3. CASE i # m
      <4>1. conns[i].open /\ client'[conns[i].client] = client[conns[i].client]
        BY <1>4, <1>5, <3>1, <3>3
      <4>2. conns'[i] = conns[i]
        BY <1>3, <3>1, <3>3
      <4>3. QED BY <1>0, <3>1, <4>1, <4>2 DEF Patient
    <3>4. QED BY <3>2, <3>3
  <2>2. QED BY <2>1 DEF Patient
<1>10. Served'
  <2>0. 1 \in 1..Len(conns) /\ conns # <<>> /\ conns' # <<>>
    <3>1. Len(conns) \in Nat /\ 1 \in 1..Len(conns)
      BY <1>0, <1>1 DEF HostType
    <3>2. Len(conns) # 0 /\ Len(conns') # 0
      BY <1>3, <3>1
    <3>3. QED BY <3>1, <3>2
  <2>1. CASE m = 1
    <3>1. conns[1].open /\ conns[1].client = c /\ conns'[1].open /\ conns'[1].client = c
      BY <1>1, <1>3, <2>1 DEF IsOpen
    <3>2. OneLine(c) /\ OwnTransfer(c)
      BY <1>0, <2>0, <3>1 DEF Served, Unserved
    <3>3. ~Awaits(c)
      BY <1>1 DEF Awaits
    <3>4. Quiet /\ Quiet'
      BY <1>1, <3>2, <3>3 DEF OneLine, Quiet
    <3>5. Awaits(c)' /\ client'[c].pc = Awaiting(conns'[1].cmd.phase)
      BY <1>1, <1>3, <1>4, <2>1 DEF Awaits, Awaiting
    <3>6. OneLine(c)'
      BY <3>4, <3>5 DEF OneLine
    <3>7. OwnTransfer(c)'
      <4>1. <<"ok">> # <<>>
        OBVIOUS
      <4>2. back' # <<"ok">>
        BY <3>4, <4>1 DEF Quiet
      <4>3. client'[c].pc \in {"await data", "await finish"} => client[c].pc \in {"data", "finish"}
        BY <1>1, <1>4 DEF Awaiting
      <4>4. client'[c].pc \notin {"data", "finish"}
        BY <1>1, <1>4 DEF Awaiting
      <4>5. QED BY <1>1, <3>2, <4>2, <4>3, <4>4 DEF OwnTransfer
    <3>8. QED BY <2>0, <3>1, <3>6, <3>7 DEF Served, Unserved
  <2>2. CASE m # 1
    <3>1. conns'[1] = conns[1]
      BY <1>3, <2>0, <2>2
    <3>2. CASE ~conns[1].open
      BY <1>0, <1>1, <2>0, <3>1, <3>2 DEF Served, Unserved, Quiet
    <3>3. CASE conns[1].open
      <4> DEFINE d == conns[1].client
      <4>1. OneLine(d) /\ OwnTransfer(d) /\ d \in Clients /\ d # c
        BY <1>0, <1>5, <2>0, <2>2, <3>3 DEF Served, Unserved
      <4>2. client'[d] = client[d]
        BY <1>4, <4>1
      <4>3. OneLine(d)'
        BY <1>1, <3>1, <4>1, <4>2 DEF OneLine, Quiet, Awaits
      <4>4. OwnTransfer(d)'
        BY <1>1, <3>1, <4>1, <4>2 DEF OwnTransfer
      <4>5. ~Unserved'
        BY <2>0, <3>1, <3>3 DEF Unserved
      <4>6. QED BY <4>3, <4>4, <4>5 DEF Served
    <3>4. QED BY <3>2, <3>3
  <2>3. QED BY <2>1, <2>2
<1>11. QED BY <1>6, <1>7, <1>9, <1>10 DEF Orderly

\* The answer is that of the client that takes it; one that ends leaves a quiet
\* device behind.
LEMMA AnsweredServes ==
  ASSUME IInv, ~gaveUp, NEW c \in Clients, Answered(c)
  PROVE  Orderly'
<1>0. HostType /\ ConnectedOnce /\ Patient /\ OwnSum /\ Served /\ ReportedIsInstalled
  BY TypesApart DEF IInv
<1> DEFINE x == client[c]
<1>1. /\ x \in ClientState /\ x.pc \in {"await begin", "await data", "await finish"}
      /\ Active(c) /\ Mine(c) = 1 /\ 1 \in 1..Len(conns) /\ IsOpen(1, c)
      /\ back # <<>> /\ back' = Tail(back)
      /\ UNCHANGED <<wire, xfer, installed, gaveUp>>
  <2>1. /\ x \in ClientState /\ x.pc \in {"await begin", "await data", "await finish"}
        /\ Active(c) /\ Mine(c) = 1
        /\ back # <<>> /\ back' = Tail(back)
        /\ UNCHANGED <<wire, xfer, installed, gaveUp>>
    BY <1>0 DEF HostType, Answered, Awaits, Active, guest
  <2>2. QED BY <1>0, <2>1, MineIsOpen
<1>2. conns # <<>> /\ Len(conns) \in Nat
  <2>1. conns \in Seq(Connection)
    BY <1>0 DEF HostType
  <2>2. Len(conns) \in Nat
    BY <2>1
  <2>3. 1 \in 1..Len(conns)
    BY <1>1
  <2>4. Len(conns) # 0
    BY <2>2, <2>3
  <2>5. QED BY <2>2, <2>4
<1>3. conns[1].open /\ conns[1].client = c /\ ~Unserved
  BY <1>1, <1>2 DEF IsOpen, Unserved
<1>4. OneLine(c) /\ OwnTransfer(c)
  BY <1>0, <1>3 DEF Served
<1>5. conns[1].cmd = None /\ wire = <<>> /\ Len(back) = 1
  BY <1>1, <1>4 DEF OneLine, Quiet
<1>6. back' = <<>> /\ (Head(back) = "ok" => back = <<"ok">>)
  <2>1. back \in Seq({"ok", "error"})
    BY <1>0 DEF HostType
  <2>2. Tail(back) \in Seq({"ok", "error"}) /\ Len(Tail(back)) = Len(back) - 1 /\ Head(back) = back[1]
    BY <1>1, <2>1, TailElements
  <2>3. Len(Tail(back)) = 0
    BY <1>5, <2>2
  <2>4. Tail(back) = <<>>
    BY <2>2, <2>3, EmptySeq
  <2>5. back[1] = "ok" => back = <<"ok">>
    BY <1>5, <2>1
  <2>6. QED BY <1>1, <2>2, <2>4, <2>5
<1>7. ASSUME NEW i \in 1..Len(conns), i # 1
      PROVE  /\ conns[i].client \in Clients /\ conns[i].open
             /\ conns[i].client # c
  BY <1>0, <1>1, <1>3, <1>7, OpenAndActive
<1>8. \A i \in 2..Len(conns) : i \in 1..Len(conns) /\ i # 1
  BY <1>2
<1>9. CASE /\ Head(back) = "ok" /\ x.pc # "await finish" /\ UNCHANGED conns
           /\ client'[c].pc \in {"data", "finish"} /\ client'[c].sum = x.sum
           /\ \A d \in Clients \ {c} : client'[d] = client[d]
  <2>1. ReportedIsInstalled'
    BY <1>0, <1>1, <1>9 DEF ReportedIsInstalled
  <2>2. \A d \in Clients : client'[d].sum = client[d].sum
    BY <1>9
  <2>3. OwnSum'
    <3>1. \A d \in Clients : client'[d].sum \in {d, None}
      BY <1>0, <2>2 DEF OwnSum
    <3>2. ASSUME NEW i \in 1..Len(conns), conns[i].cmd # None
          PROVE  conns[i].cmd.sum = client'[conns[i].client].sum
      BY <1>0, <1>5, <1>7, <2>2, <3>2 DEF OwnSum
    <3>3. QED BY <1>9, <3>1, <3>2 DEF OwnSum
  <2>4. Patient'
    <3>1. \A i \in 2..Len(conns) : client'[conns[i].client] = client[conns[i].client]
      BY <1>7, <1>8, <1>9
    <3>2. QED BY <1>0, <1>9, <3>1 DEF Patient
  <2>5. xfer \in {c, None}
    BY <1>1, <1>4, <1>6, <1>9 DEF OwnTransfer
  <2>6. OwnTransfer(c)'
    <3>1. <<"ok">> # <<>>
      OBVIOUS
    <3>2. QED BY <1>1, <1>6, <2>5, <3>1 DEF OwnTransfer
  <2>7. OneLine(c)'
    BY <1>1, <1>5, <1>6, <1>9 DEF OneLine, Quiet
  <2>8. Served'
    BY <1>2, <1>3, <1>9, <2>6, <2>7 DEF Served, Unserved
  <2>9. QED BY <2>1, <2>3, <2>4, <2>8 DEF Orderly
<1>10. CASE /\ Close(c)
            /\ client'[c].pc \in {"idle", "done"} /\ client'[c].sum \in {x.sum, None}
            /\ client'[c].pc = "done" => x.pc = "await finish" /\ Head(back) = "ok"
            /\ \A d \in Clients \ {c} : client'[d] = client[d]
  <2>1. ReportedIsInstalled'
    <3>1. client'[c].pc = "done" => c \in installed
      BY <1>4, <1>6, <1>10 DEF OwnTransfer
    <3>2. QED BY <1>0, <1>1, <1>10, <3>1 DEF ReportedIsInstalled
  <2>2. /\ Len(conns') = Len(conns) /\ ~conns'[1].open /\ conns'[1].cmd = None
        /\ \A j \in 1..Len(conns) : j # 1 => conns'[j] = conns[j]
    <3>1. conns' = [conns EXCEPT ![1].open = FALSE] /\ conns \in Seq(Connection)
      BY <1>0, <1>1, <1>10 DEF Close, HostType
    <3>2. conns[1].cmd \in Command \cup {None}
      BY <1>5
    <3>3. QED BY <1>1, <1>5, <3>1, <3>2, ConnectionClosed
  <2>3. OwnSum'
    <3>1. \A d \in Clients : client'[d].sum \in {d, None}
      BY <1>0, <1>10 DEF OwnSum
    <3>2. ASSUME NEW i \in 1..Len(conns'), conns'[i].cmd # None
          PROVE  conns'[i].cmd.sum = client'[conns'[i].client].sum
      <4>1. i \in 1..Len(conns) /\ i # 1 /\ conns'[i] = conns[i]
        BY <2>2, <3>2
      <4>2. client'[conns[i].client] = client[conns[i].client]
        BY <1>7, <1>10, <4>1
      <4>3. QED BY <1>0, <3>2, <4>1, <4>2 DEF OwnSum
    <3>3. QED BY <3>1, <3>2 DEF OwnSum
  <2>4. Patient'
    <3>1. \A i \in 2..Len(conns) : /\ client'[conns[i].client] = client[conns[i].client]
                                   /\ conns'[i] = conns[i]
      <4>1. ASSUME NEW i \in 2..Len(conns)
            PROVE  /\ client'[conns[i].client] = client[conns[i].client]
                   /\ conns'[i] = conns[i]
        <5>1. i \in 1..Len(conns) /\ i # 1
          BY <1>8
        <5>2. conns[i].client \in Clients \ {c}
          BY <1>7, <5>1
        <5>3. QED BY <1>10, <2>2, <5>1, <5>2
      <4>2. QED BY <4>1
    <3>2. 2..Len(conns') = 2..Len(conns)
      BY <2>2
    <3>3. ASSUME NEW i \in 2..Len(conns')
          PROVE  /\ conns'[i].open
                 /\ client'[conns'[i].client].pc \in {"begin", "await begin"}
                 /\ conns'[i].cmd # None => /\ client'[conns'[i].client].pc = "await begin"
                                           /\ conns'[i].cmd.phase = "begin"
      <4>1. i \in 2..Len(conns)
        BY <3>2
      <4>2. /\ client'[conns'[i].client] = client[conns[i].client]
            /\ conns'[i] = conns[i]
        BY <3>1, <4>1
      <4>3. QED BY <1>0, <4>1, <4>2 DEF Patient
    <3>4. QED BY <3>3 DEF Patient
  <2>5. Quiet' /\ Unserved' /\ conns'[1].cmd = None
    BY <1>1, <1>5, <1>6, <2>2 DEF Quiet, Unserved
  <2>6. Served'
    BY <2>5 DEF Served
  <2>7. QED BY <2>1, <2>3, <2>4, <2>6 DEF Orderly
<1>11. QED
  <2>1. CASE /\ Head(back) = "ok" /\ x.pc # "await finish" /\ UNCHANGED conns
             /\ \E sent : client' = [client EXCEPT ![c].sent = sent,
                                ![c].pc = IF AllSent(sent) THEN "finish" ELSE "data"]
    <3>1. PICK sent : client' = [client EXCEPT ![c].sent = sent,
                                ![c].pc = IF AllSent(sent) THEN "finish" ELSE "data"]
      BY <2>1
    <3> DEFINE p == IF AllSent(sent) THEN "finish" ELSE "data"
               y == [[x EXCEPT !.sent = sent] EXCEPT !.pc = p]
    <3>2. y.pc = p /\ y.sum = x.sum /\ p \in {"data", "finish"}
      BY <1>1 DEF ClientState
    <3>3. client' = [client EXCEPT ![c] = y]
      BY <1>0, <3>1 DEF HostType
    <3> HIDE DEF y, p
    <3>4. client'[c] = y /\ \A d \in Clients \ {c} : client'[d] = client[d]
      BY <1>0, <3>3 DEF HostType
    <3>5. QED BY <1>9, <2>1, <3>2, <3>4
  <2>2. CASE /\ Close(c) /\ Head(back) = "ok" /\ x.pc = "await finish"
             /\ client' = [client EXCEPT ![c].pc = "done"]
    <3>1. /\ client'[c].pc = "done" /\ client'[c].sum = x.sum
          /\ \A d \in Clients \ {c} : client'[d] = client[d]
      BY <1>0, <1>1, <2>2 DEF HostType, ClientState
    <3>2. QED BY <1>10, <2>2, <3>1
  <2>3. CASE Close(c) /\ client' = [client EXCEPT ![c] = Idle]
    <3>1. /\ client'[c].pc = "idle" /\ client'[c].sum = None
          /\ \A d \in Clients \ {c} : client'[d] = client[d]
      BY <1>0, <2>3 DEF HostType, Idle
    <3>2. QED BY <1>10, <2>3, <3>1
  <2>4. QED BY <2>1, <2>2, <2>3 DEF Answered, IsOK

\* The line that is passed on is the command the first client waits for.
LEMMA ForwardServes ==
  ASSUME IInv, ~gaveUp, Forward
  PROVE  Orderly'
<1>0. HostType /\ ConnectedOnce /\ Patient /\ OwnSum /\ Served /\ ReportedIsInstalled
  BY TypesApart DEF IInv
<1> DEFINE l == conns[1].cmd
<1>1. /\ conns # <<>> /\ l # None /\ conns' = [conns EXCEPT ![1].cmd = None]
      /\ UNCHANGED <<client, back, xfer, installed, gaveUp>>
  BY DEF Forward, guest
<1>2. 1 \in 1..Len(conns) /\ conns[1].client \in Clients /\ l \in Command
  <2>1. Len(conns) \in Nat \ {0} /\ Head(conns) \in Connection /\ Head(conns) = conns[1]
    BY <1>0, <1>1, TailElements DEF HostType
  <2>2. 1 \in 1..Len(conns) /\ conns[1] \in Connection
    BY <2>1
  <2>3. QED BY <1>1, <2>2 DEF Connection
<1>c. PICK c \in Clients : conns[1].client = c
  BY <1>2
<1>3. ~Unserved /\ conns[1].open /\ OneLine(c) /\ OwnTransfer(c)
  BY <1>0, <1>1, <1>c DEF Served, Unserved
<1>4. Quiet /\ Awaits(c) /\ client[c].pc = Awaiting(l.phase) /\ l.sum = client[c].sum
  BY <1>0, <1>1, <1>2, <1>3, <1>c DEF OneLine, OwnSum
<1>5. /\ Len(conns') = Len(conns)
      /\ conns'[1].client = c /\ conns'[1].open /\ conns'[1].cmd = None
      /\ \A j \in 1..Len(conns) : j # 1 => conns'[j] = conns[j]
  BY <1>0, <1>1, <1>2, <1>3, <1>c, LineChanged DEF HostType
<1> HIDE DEF l
<1>6. wire' = <<l>>
  <2>1. wire = <<>>
    BY <1>4 DEF Quiet
  <2>2. Torn \notin Range(wire)
    BY <2>1 DEF Range
  <2>3. wire' = Append(wire, l)
    BY <2>2 DEF Forward, l
  <2>4. QED BY <2>1, <2>3
<1>7. ReportedIsInstalled'
  BY <1>0, <1>1 DEF ReportedIsInstalled
<1>8. OwnSum'
  <2>1. ASSUME NEW i \in 1..Len(conns'), conns'[i].cmd # None
        PROVE  conns'[i].cmd.sum = client'[conns'[i].client].sum
    <3>1. i \in 1..Len(conns) /\ conns'[i] = conns[i]
      BY <1>5, <2>1
    <3>2. QED BY <1>0, <1>1, <2>1, <3>1 DEF OwnSum
  <2>2. QED BY <1>0, <1>1, <2>1 DEF OwnSum
<1>9. Patient'
  <2>1. ASSUME NEW i \in 2..Len(conns')
        PROVE  i \in 2..Len(conns) /\ conns'[i] = conns[i]
    <3>1. conns \in Seq(Connection)
      BY <1>0 DEF HostType
    <3>2. Len(conns) \in Nat
      BY <3>1
    <3>3. i \in 2..Len(conns) /\ i \in 1..Len(conns) /\ i # 1
      BY <1>5, <3>2
    <3>4. QED BY <1>5, <3>3
  <2>2. QED BY <1>0, <1>1, <2>1 DEF Patient
<1>10. OneLine(c)'
  <2>1. Len(wire') = 1 /\ wire'[1] = l /\ back' = <<>>
    BY <1>1, <1>4, <1>6 DEF Quiet
  <2>2. QED BY <1>1, <1>4, <1>5, <2>1 DEF OneLine, Awaits
<1>11. OwnTransfer(c)'
  BY <1>1, <1>3 DEF OwnTransfer
<1>12. ~Unserved'
  <2>1. Len(conns') # 0
    BY <1>2, <1>5
  <2>2. conns' # <<>>
    BY <2>1
  <2>3. QED BY <1>5, <2>2 DEF Unserved
<1>13. Served'
  BY <1>5, <1>10, <1>11, <1>12 DEF Served
<1>14. QED BY <1>7, <1>8, <1>9, <1>13 DEF Orderly

\* The next client finds a quiet device, and has at most written a begin.
LEMMA NextConnectionServes ==
  ASSUME IInv, ~gaveUp, NextConnection
  PROVE  Orderly'
<1>0. HostType /\ ConnectedOnce /\ Patient /\ OwnSum /\ Served /\ ReportedIsInstalled
  BY TypesApart DEF IInv
<1>1. /\ conns # <<>> /\ ~conns[1].open /\ conns' = Tail(conns)
      /\ UNCHANGED <<client, wire, back, xfer, installed, gaveUp>>
  BY DEF NextConnection, guest
<1>2. /\ Len(conns) \in Nat \ {0} /\ Len(conns') = Len(conns) - 1 /\ conns' \in Seq(Connection)
      /\ \A j \in 1..Len(conns') : conns'[j] = conns[j + 1]
  BY <1>0, <1>1, TailElements DEF HostType
<1>3. \A j \in 1..Len(conns') : j + 1 \in 2..Len(conns) /\ j + 1 \in 1..Len(conns)
  BY <1>2
<1>4. Quiet
  BY <1>0, <1>1 DEF Served, Unserved
<1>5. ReportedIsInstalled'
  BY <1>0, <1>1 DEF ReportedIsInstalled
<1>6. OwnSum'
  BY <1>0, <1>1, <1>2, <1>3 DEF OwnSum
<1>7. ASSUME NEW j \in 1..Len(conns')
      PROVE  /\ conns'[j].open
             /\ client'[conns'[j].client].pc \in {"begin", "await begin"}
             /\ conns'[j].cmd # None => /\ client'[conns'[j].client].pc = "await begin"
                                       /\ conns'[j].cmd.phase = "begin"
  <2>1. conns'[j] = conns[j + 1] /\ j + 1 \in 2..Len(conns)
    BY <1>2, <1>3
  <2>2. QED BY <1>0, <1>1, <2>1 DEF Patient
<1>8. Patient'
  <2>1. \A i \in 2..Len(conns') : i \in 1..Len(conns')
    BY <1>2
  <2>2. QED BY <1>7, <2>1 DEF Patient
<1>9. Served'
  <2>1. CASE conns' = <<>>
    BY <1>1, <1>4, <2>1 DEF Served, Unserved, Quiet
  <2>2. CASE conns' # <<>>
    <3>1. 1 \in 1..Len(conns')
      <4>1. Len(conns') # 0 /\ Len(conns') \in Nat
        BY <1>2, <2>2, EmptySeq
      <4>2. QED BY <4>1
    <3>c. PICK c : conns'[1].client = c
      OBVIOUS
    <3>2. /\ conns'[1].open /\ client'[c].pc \in {"begin", "await begin"}
          /\ conns'[1].cmd # None => /\ client'[c].pc = "await begin"
                                    /\ conns'[1].cmd.phase = "begin"
      BY <1>7, <3>1, <3>c
    <3>3. Quiet'
      BY <1>1, <1>4 DEF Quiet
    <3>4. OneLine(c)'
      BY <3>2, <3>3 DEF OneLine, Awaits, Awaiting
    <3>5. OwnTransfer(c)'
      <4>1. <<"ok">> # <<>>
        OBVIOUS
      <4>2. back' # <<"ok">>
        BY <3>3, <4>1 DEF Quiet
      <4>3. QED BY <3>2, <4>2 DEF OwnTransfer
    <3>6. QED BY <2>2, <3>2, <3>4, <3>5, <3>c DEF Served, Unserved
  <2>3. QED BY <2>1, <2>2
<1>10. QED BY <1>5, <1>6, <1>8, <1>9 DEF Orderly

\* Every step of a client, of the port and of the guest keeps the order.
LEMMA NextServes ==
  ASSUME IInv, ~gaveUp', Next
  PROVE  Orderly'
<1>1. ASSUME NEW c \in Clients, Client(c) PROVE Orderly'
  <2>1. ~GivesUp(c)
    BY DEF GivesUp
  <2>2. ~gaveUp
    BY <1>1, <2>1 DEF Client, Connect, SendCommand, Answered
  <2>3. QED BY <1>1, <2>1, <2>2, ConnectServes, SendServes, AnsweredServes DEF Client
<1>2. CASE Port
  <2>1. ~gaveUp
    BY <1>2 DEF Port, Forward, NextConnection, LoseAnswer, host
  <2>2. ~LoseAnswer
    BY <2>1 DEF LoseAnswer, IInv, Served, Unserved, Quiet
  <2>3. QED BY <1>2, <2>1, <2>2, ForwardServes, NextConnectionServes DEF Port
<1>3. CASE Guest
  <2>1. ~gaveUp
    BY <1>3 DEF Guest, Garbled, Begin, Data, FinishRefused, Finish, FinishUpdate, RemoveBackup,
       KeepCurrent, InstallUpdate, Crash, Start, Reply, host
  <2>2. QED BY <1>3, <2>1, AnswersServe, SwapServes, CrashServes DEF Guest
<1>4. QED BY <1>1, <1>2, <1>3 DEF Next

LEMMA NextIInv == IInv /\ [Next]_vars => IInv'
<1> SUFFICES ASSUME IInv, [Next]_vars PROVE IInv'
  OBVIOUS
<1>0. HostType /\ GuestType /\ ConnectedOnce /\ SentSoFar
  BY TypesApart DEF IInv
<1>1. CASE UNCHANGED vars
  <2>1. (HostType /\ GuestType)'
    BY <1>0, <1>1 DEF vars, HostType, GuestType
  <2>2. TypeOK'
    BY <2>1 DEF TypeOK, HostType, GuestType, ClientState, Connection
  <2>3. (ConnectedOnce /\ SentSoFar)'
    BY <1>0, <1>1 DEF vars, ConnectedOnce, SentSoFar, Active, IsOpen
  <2>4. (GuestAtWork /\ InstalledIsWhole /\ BinaryOfStep /\ ReportedIsInstalled)'
    BY <1>1 DEF vars, IInv, GuestAtWork, SumMatches, InstalledIsWhole, Files, BinaryOfStep,
       ReportedIsInstalled
  <2>5. (~gaveUp => Patient /\ OwnSum /\ Served)'
    BY <1>1 DEF vars, IInv, Patient, OwnSum, Served, Unserved, Quiet, OneLine, OwnTransfer, Awaits
  <2>6. QED BY <2>2, <2>3, <2>4, <2>5 DEF IInv
<1>2. CASE Next
  <2>1. HostType' /\ GuestType' /\ ConnectedOnce' /\ SentSoFar' /\ GuestFiles'
    <3>1. ASSUME NEW c \in Clients, Client(c)
          PROVE  HostType' /\ GuestType' /\ ConnectedOnce' /\ SentSoFar' /\ GuestFiles'
      BY <3>1, ConnectStep, SendStep, AnsweredStep, GivesUpStep, ClientFiles DEF Client
    <3>2. CASE Port
      BY <3>2, ForwardStep, NextConnectionStep, LoseAnswerStep, PortFiles DEF Port
    <3>3. CASE Guest
      <4>1. UNCHANGED host
        BY <3>3 DEF Guest, Garbled, Begin, Data, FinishRefused, Finish, FinishUpdate,
           RemoveBackup, KeepCurrent, InstallUpdate, Crash, Start, Reply
      <4>2. ConnectedOnce' /\ SentSoFar'
        BY <1>0, <4>1 DEF host, ConnectedOnce, SentSoFar, Active, IsOpen
      <4>3. HostType' /\ GuestType' /\ GuestFiles'
        BY <3>3, GarbledStep, BeginStep, DataStep, FinishRefusedStep, FinishStep, SwapSteps,
           KeepCurrentStep, InstallUpdateStep, CrashStep DEF Guest
      <4>4. QED BY <4>2, <4>3
    <3>4. QED BY <1>2, <3>1, <3>2, <3>3 DEF Next
  <2>2. TypeOK'
    BY <2>1 DEF TypeOK, HostType, GuestType, ClientState, Connection
  <2>3. ~gaveUp' => Orderly'
    BY <1>2, NextServes
  <2>4. ReportedIsInstalled'
    BY <2>3 DEF Orderly, ReportedIsInstalled
  <2>5. QED BY <2>1, <2>2, <2>3, <2>4 DEF IInv, GuestFiles, Orderly
<1>3. QED BY <1>1, <1>2
-----------------------------------------------------------------------------
(* The transfers implement the promise of Installation.                      *)

\* A step that leaves what is installed where it is, and ends a transfer at most.
LEMMA KeepsPromise ==
  ASSUME Current' = Current, xfer' = xfer \/ xfer' = None
  PROVE  [Promise!Next]_(Promise!vars)
<1>1. CASE xfer' = xfer
  BY <1>1 DEF OnOffer, Promise!vars
<1>2. CASE xfer # None /\ xfer' = None
  <2>1. OnOffer' = None
    BY <1>2 DEF OnOffer
  <2>2. OnOffer = None => UNCHANGED Promise!vars
    BY <2>1 DEF Promise!vars
  <2>3. OnOffer # None => Promise!Withdraw
    BY <2>1 DEF Promise!Withdraw
  <2>4. QED BY <2>2, <2>3 DEF Promise!Next
<1>3. QED BY <1>1, <1>2

\* A step that puts the announced file in its place and ends its transfer.
LEMMA TakesOffer ==
  ASSUME GuestType, xfer # None, place' = Whole(xfer), xfer' = None
  PROVE  Promise!Next
<1>1. xfer \in Clients /\ OnOffer = Whole(xfer) /\ OnOffer # None
  BY DEF GuestType, OnOffer
<1>2. OnOffer' = None /\ Current' = OnOffer
  BY <1>1 DEF OnOffer, Current
<1>3. QED BY <1>1, <1>2 DEF Promise!Next, Promise!Take

\* The guest's commands: an offer is made by a begin, and taken by a finish.
LEMMA CommandPromise ==
  ASSUME IInv, Garbled \/ Begin \/ Data \/ FinishRefused \/ Finish
  PROVE  [Promise!Next]_(Promise!vars)
<1>0. HostType /\ GuestType
  BY TypesApart DEF IInv
<1>1. CASE Garbled \/ Data \/ FinishRefused
  <2>1. UNCHANGED <<place, backup>> /\ (xfer' = xfer \/ xfer' = None)
    BY <1>1 DEF Garbled, Data, FinishRefused, Discard, Drop
  <2>2. Current' = Current
    BY <2>1 DEF Current
  <2>3. QED BY <2>1, <2>2, KeepsPromise
<1>2. CASE Begin
  <2>1. Current' = Current
    BY <1>2 DEF Begin, Current
  <2>2. CASE xfer' = xfer \/ xfer' = None
    BY <2>1, <2>2, KeepsPromise
  <2>3. CASE Head(wire).sum # None /\ xfer' = Head(wire).sum
    <3>1. xfer' \in Clients
      BY <1>0, <1>2, <2>3, Taken DEF Begin, Command
    <3>2. OnOffer' = Whole(xfer') /\ Whole(xfer') \in {Whole(c) : c \in Clients}
      BY <3>1 DEF OnOffer, Whole
    <3>3. QED BY <2>1, <3>2 DEF Promise!Next, Promise!Offer
  <2>4. QED BY <1>2, <2>2, <2>3 DEF Begin, Cleanup, Discard, Drop
<1>3. CASE Finish
  <2>1. xfer # None /\ place' = Whole(xfer) /\ xfer' = None
    BY <1>3 DEF Finish, Installed, SumMatches, Discard, Drop
  <2>2. QED BY <1>0, <2>1, TakesOffer
<1>4. QED BY <1>1, <1>2, <1>3

\* The steps of the swap: the binary is where it was, under one name or the
\* other, until the new one is in its place.
LEMMA SwapPromise ==
  ASSUME IInv, FinishUpdate \/ RemoveBackup \/ KeepCurrent \/ InstallUpdate
  PROVE  [Promise!Next]_(Promise!vars)
<1>0. GuestType /\ GuestFiles
  BY TypesApart DEF IInv, GuestFiles
<1>1. CASE FinishUpdate
  <2>1. UNCHANGED <<place, backup, xfer>>
    BY <1>1 DEF FinishUpdate
  <2>2. QED BY <2>1, KeepsPromise DEF Current
<1>2. CASE RemoveBackup
  <2>1. UNCHANGED <<place, xfer>> /\ place # None
    BY <1>0, <1>2 DEF RemoveBackup, GuestFiles, GuestAtWork, BinaryOfStep
  <2>2. QED BY <2>1, KeepsPromise DEF Current
<1>3. CASE KeepCurrent
  <2>1. place # None
    BY <1>0, <1>3 DEF KeepCurrent, GuestFiles, GuestAtWork, BinaryOfStep
  <2>2. \/ backup' = place /\ place' = None /\ xfer' = xfer
        \/ UNCHANGED <<place, backup>> /\ xfer' = None
    BY <1>3 DEF KeepCurrent, Discard, Drop
  <2>3. QED BY <2>1, <2>2, KeepsPromise DEF Current
<1>4. CASE InstallUpdate
  <2>1. xfer # None /\ SumMatches /\ place = None /\ backup # None
    BY <1>0, <1>4 DEF InstallUpdate, GuestFiles, GuestAtWork, BinaryOfStep
  <2>2. \/ place' = tmp /\ xfer' = None
        \/ place' = backup /\ xfer' = None
    BY <1>4 DEF InstallUpdate, Installed, RestoreFromBackup, Discard, Drop
  <2>3. CASE place' = tmp /\ xfer' = None
    BY <1>0, <2>1, <2>3, TakesOffer DEF SumMatches
  <2>4. CASE place' = backup /\ xfer' = None
    BY <2>1, <2>4, KeepsPromise DEF Current
  <2>5. QED BY <2>2, <2>3, <2>4
<1>5. QED BY <1>1, <1>2, <1>3, <1>4

\* Every step is one of the promise, or none.
LEMMA StepKeepsPromise ==
  IInv /\ [Next]_vars => [Promise!Next]_(Promise!vars)
<1> SUFFICES ASSUME IInv, [Next]_vars PROVE [Promise!Next]_(Promise!vars)
  OBVIOUS
<1>1. CASE UNCHANGED <<place, backup>> /\ (xfer' = xfer \/ xfer' = None)
  BY <1>1, KeepsPromise DEF Current
<1>2. CASE UNCHANGED vars \/ Port \/ \E c \in Clients : Client(c)
  <2>1. UNCHANGED <<place, backup, xfer>>
    BY <1>2 DEF vars, Port, Forward, NextConnection, LoseAnswer, Client, Connect, SendCommand,
       Answered, GivesUp, guest
  <2>2. QED BY <1>1, <2>1
<1>3. CASE Guest
  <2>1. CASE Crash \/ Start
    BY <1>1, <2>1 DEF Crash, Start
  <2>2. QED BY <1>3, <2>1, CommandPromise, SwapPromise DEF Guest
<1>4. QED BY <1>2, <1>3 DEF Next
-----------------------------------------------------------------------------
(* The theorems.                                                             *)

\* What every state of a behaviour satisfies (internal/init/comm.go, init.go;
\* internal/agent/runtime/libvirt/comm.go, runtime.go).
THEOREM Invariant == Spec => []IInv
<1>1. Init => IInv
  BY InitIInv
<1>2. IInv /\ [Next]_vars => IInv'
  BY NextIInv
<1>3. QED BY <1>1, <1>2, PTL DEF Spec

\* Clients, connections, the serial device and the guest have their types, no
\* client sends more than its file, and the device holds at most Lines lines.
THEOREM TypeCorrect == Spec => []TypeOK
<1>1. IInv => TypeOK
  BY DEF IInv
<1>2. QED BY <1>1, Invariant, PTL

\* A file is replaced at once, by the whole of the one announced last, although
\* the agent's binary is swapped in three steps that may fail and be interrupted
\* (init.go:552-624, 745-800, 894-966).
THEOREM ImplementsInstallation == Spec => ReplacedAtOnce
<1>1. Init => Promise!Init
  BY DEF Init, Promise!Init, Current, OnOffer
<1>2. IInv /\ [Next]_vars => [Promise!Next]_(Promise!vars)
  BY StepKeepsPromise
<1>3. QED BY <1>1, <1>2, Invariant, PTL DEF Spec, ReplacedAtOnce, Promise!Spec

\* A checksum is compared before any rename, so what is installed is never a
\* part of a file nor a mixture of two (init.go: the finish handlers).
THEOREM WholeFiles == Spec => []InstalledIsWhole
<1>1. IInv => InstalledIsWhole
  BY DEF IInv
<1>2. QED BY <1>1, Invariant, PTL

\* The agent's binary or its backup is on the disk after each step of an update
\* and each crash between two (init.go:589-613).
THEOREM NeverWithoutBinary == Spec => []BinarySurvives
<1>1. IInv => BinarySurvives
  BY DEF IInv, TypeOK, BinaryOfStep, BinarySurvives
<1>2. QED BY <1>1, Invariant, PTL

\* A transfer that was reported as done was installed, unless some client left
\* before its answer came (docs/cli-reference.md:339).
THEOREM DoneMeansInstalled == Spec => []ReportedIsInstalled
<1>1. IInv => ReportedIsInstalled
  BY DEF IInv
<1>2. QED BY <1>1, Invariant, PTL
=============================================================================
