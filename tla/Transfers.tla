------------------------------ MODULE Transfers ------------------------------
(***************************************************************************)
(* Files sent into a VM over its serial channel: binaries of apps, images  *)
(* and the agent's own binary.  The clients are Runtime.UploadBinary,      *)
(* Runtime.UploadImage and "goship project update-init", each on a         *)
(* VMCommunicator of its own (internal/agent/runtime/libvirt/runtime.go,   *)
(* comm.go); the guest is the command loop of goship-init and its handlers *)
(* (internal/init/comm.go, init.go).                                       *)
(*                                                                         *)
(* A transfer is begin, one command per chunk, finish; each waits for one  *)
(* line of answer.  Neither commands nor answers name their transfer.      *)
(* Between them is QEMU's serial port, which serves one connection at a    *)
(* time, keeps the others waiting, and passes on what a client wrote       *)
(* before it left.  Each client sends its own file, cut into Chunks pieces.*)
(* The kinds of transfer keep their state apart and share only the channel:*)
(* in one behaviour all transfers are of one kind.                         *)
(* AnyAnswer, OneMore, AnyContent, DropCurrent and NotInstalled are faulty *)
(* variants of the definitions that follow them.                           *)
(***************************************************************************)
EXTENDS Naturals, Sequences, Functions

CONSTANTS Clients,   \* commands and handlers that send a file
          Kinds,     \* kinds of transfer, a subset of AllKinds
          Chunks,    \* pieces of a file
          Waiting,   \* connections to the port, the one it serves included
          Lines,     \* commands, and answers, under way in the serial device
          None,      \* no file, no transfer, no command
          Faults     \* what may go wrong

\* update: the agent's binary; upload: an app's binary, or an image, for which
\* the handlers take the same steps.
AllKinds == {"update", "upload"}

\* timeout: a client's context ends; disk: a system call (or Docker) fails in
\* the guest, at most one of those a finish depends on; crash: the agent dies,
\* and is started again with its VM; rewrite: the client's file changes after
\* its checksum was computed.
AllFaults == {"timeout", "disk", "crash", "rewrite"}

ASSUME ChunksAssumption == Chunks \in Nat \ {0}
ASSUME DeviceAssumption == Waiting \in Nat \ {0} /\ Lines \in Nat \ {0}
ASSUME KindsAssumption  == Kinds \subseteq AllKinds /\ Faults \subseteq AllFaults

VARIABLES kind,         \* the kind of the transfers
          client,       \* what each client is at
          conns,        \* the port's connections, the first being served
          wire, back,   \* commands and answers in the serial device
          up, step,     \* the agent runs; how far it is with a command
          xfer,         \* Init.update, Init.upload or Init.imageUpload: the
                        \* checksum that was announced, known by its file
          tmp,          \* the temporary file
          place, backup,  \* what is installed; goship-init.old
          gaveUp,       \* a client left before its answer came
          installed     \* clients whose file was installed since they connected

host  == <<kind, client, conns, gaveUp>>
guest == <<up, step, xfer, tmp, place, backup, installed>>
vars  == <<kind, client, conns, wire, back, up, step, xfer, tmp, place, backup,
           gaveUp, installed>>

Whole(c) == [i \in 1..Chunks |-> <<c, i>>]
First    == <<None>>    \* the binary that the disk image came with

ASSUME NoneAssumption == /\ None \notin Clients /\ None # First
                         /\ \A c \in Clients : None # Whole(c)

Idle == [pc |-> "idle", sum |-> None, sent |-> 0]

Init == /\ kind \in Kinds
        /\ client = [c \in Clients |-> Idle]
        /\ conns = <<>> /\ wire = <<>> /\ back = <<>>
        /\ up = TRUE /\ step = "listen"
        /\ xfer = None /\ tmp = None
        /\ place = IF kind = "update" THEN First ELSE None
        /\ backup = None
        /\ gaveUp = FALSE
        /\ installed = {}
-----------------------------------------------------------------------------
(* The clients.                                                             *)

\* NewVMCommunicator: the connection waits for the ones before it.  Only the
\* command line sends update-init, and it computes the checksum: the API's
\* update-init and push-image are uploads without one.
Connect(c, sum) ==
    /\ sum = None => kind # "update"
    /\ client[c].pc \in {"idle", "done"} /\ Len(conns) < Waiting
    /\ client' = [client EXCEPT ![c] = [pc |-> "begin", sum |-> sum, sent |-> 0]]
    /\ conns' = Append(conns, [client |-> c, open |-> TRUE, cmd |-> None])
    /\ installed' = installed \ {c}
    /\ UNCHANGED <<kind, wire, back, up, step, xfer, tmp, place, backup, gaveUp>>

Mine(c) == CHOOSE i \in 1..Len(conns) : conns[i].client = c /\ conns[i].open

Line(phase, sum, chunk) == [phase |-> phase, sum |-> sum, chunk |-> chunk]

\* The beginning of a line.
Torn == Line("torn", None, None)

\* The n-th piece of the file, or what replaced it since: of a file that was
\* rewritten, the last piece is another one.
Pieces(c, n) == {<<c, n>>} \cup IF "rewrite" \in Faults /\ n = Chunks THEN {<<c, 0>>} ELSE {}

Awaiting(pc) == CASE pc = "begin"  -> "await begin"
                  [] pc = "data"   -> "await data"
                  [] pc = "finish" -> "await finish"

\* SendCommand writes a line ...
SendCommand(c) ==
    LET x == client[c] IN
    /\ x.pc \in {"begin", "data", "finish"}
    /\ conns[Mine(c)].cmd = None
    /\ \E chunk \in IF x.pc = "data" THEN Pieces(c, x.sent + 1) ELSE {None} :
          conns' = [conns EXCEPT ![Mine(c)].cmd = Line(x.pc, x.sum, chunk)]
    /\ client' = [client EXCEPT ![c].pc = Awaiting(@)]
    /\ UNCHANGED <<kind, wire, back, guest, gaveUp>>

Awaits(c) == client[c].pc \in {"await begin", "await data", "await finish"}

Close(c)  == conns' = [conns EXCEPT ![Mine(c)].open = FALSE]

AnyAnswer(status) == TRUE
IsOK(status)      == status = "ok"

OneMore(sent)     == sent > Chunks
AllSent(sent)     == sent = Chunks

\* ... and takes the next line it gets for the answer to it.
Answered(c) ==
    LET x == client[c]
        sent == IF x.pc = "await data" THEN x.sent + 1 ELSE x.sent
    IN  /\ Awaits(c) /\ Mine(c) = 1 /\ back # <<>>
        /\ back' = Tail(back)
        /\ \/ /\ IsOK(Head(back)) /\ x.pc # "await finish"
              /\ client' = [client EXCEPT
                   ![c].sent = sent,
                   ![c].pc = IF AllSent(sent) THEN "finish" ELSE "data"]
              /\ UNCHANGED conns
           \/ /\ IsOK(Head(back)) /\ x.pc = "await finish"
              /\ client' = [client EXCEPT ![c].pc = "done"] /\ Close(c)
           \/ /\ ~IsOK(Head(back))
              /\ client' = [client EXCEPT ![c] = Idle] /\ Close(c)
        /\ UNCHANGED <<kind, wire, guest, gaveUp>>

\* The deadline passes while the client writes or reads; what was written of
\* the line stays written.
GivesUp(c) ==
    /\ "timeout" \in Faults /\ Awaits(c)
    /\ client' = [client EXCEPT ![c] = Idle]
    /\ \E left \in IF conns[Mine(c)].cmd = None THEN {None}
                   ELSE {conns[Mine(c)].cmd, Torn, None} :
          conns' = [conns EXCEPT ![Mine(c)].cmd = left, ![Mine(c)].open = FALSE]
    /\ gaveUp' = TRUE
    /\ UNCHANGED <<kind, wire, back, guest>>
-----------------------------------------------------------------------------
(* The serial port.                                                         *)

\* A line that follows the beginning of another one is no command.
Forward ==
    /\ conns # <<>> /\ conns[1].cmd # None
    /\ \/ /\ Len(wire) < Lines /\ Torn \notin Range(wire)
          /\ wire' = Append(wire, conns[1].cmd)
       \/ /\ Torn \in Range(wire)
          /\ wire' = [wire EXCEPT ![Len(wire)] =
                         IF conns[1].cmd = Torn THEN Torn ELSE Line("garbled", None, None)]
    /\ conns' = [conns EXCEPT ![1].cmd = None]
    /\ UNCHANGED <<kind, client, back, guest, gaveUp>>

NextConnection ==
    /\ conns # <<>> /\ conns[1].cmd = None /\ ~conns[1].open
    /\ conns' = Tail(conns)
    /\ UNCHANGED <<kind, client, wire, back, guest, gaveUp>>

\* An answer nobody is there to read is lost, or is read by the next client.
LoseAnswer ==
    /\ back # <<>>
    /\ conns # <<>> => ~conns[1].open
    /\ back' = Tail(back)
    /\ UNCHANGED <<wire, host, guest>>
-----------------------------------------------------------------------------
(* The guest: Communicator.Listen takes one command after the other.        *)

Takes(phase) == /\ up /\ step = "listen" /\ wire # <<>> /\ Len(back) < Lines
                /\ Head(wire).phase = phase
Reply(status)   == /\ back' = Append(back, status)
                   /\ wire' = Tail(wire)
                   /\ UNCHANGED host

\* The end of a transfer: its state is dropped, its file remains or not.
Drop    == xfer' = None
Discard == Drop /\ tmp' = None

\* cleanupUpdate, cleanupUpload, cleanupImageUpload
Cleanup == IF xfer = None THEN UNCHANGED <<xfer, tmp>> ELSE Discard

\* What is not JSON is answered, and nothing else.
Garbled == /\ Takes("garbled") /\ Reply("error")
           /\ UNCHANGED <<up, step, xfer, tmp, place, backup, installed>>

\* A begin without checksum leaves a transfer in progress alone; any other
\* takes its place.
Begin ==
    LET sum == Head(wire).sum IN
    /\ Takes("begin")
    /\ \/ sum = None /\ Reply("error") /\ UNCHANGED <<xfer, tmp>>
       \/ /\ sum # None /\ Reply("ok")
          /\ xfer' = sum
          /\ tmp' = <<>>
       \/ sum # None /\ "disk" \in Faults /\ Reply("error") /\ Cleanup
    /\ UNCHANGED <<up, step, place, backup, installed>>

\* Nothing limits what is written; a file that is too long is just that.
Extended(file, chunk) == IF Len(file) > Chunks THEN file ELSE Append(file, chunk)

Data ==
    /\ Takes("data")
    /\ \/ xfer = None /\ Reply("error") /\ UNCHANGED <<xfer, tmp>>
       \/ /\ xfer # None /\ Reply("ok")
          /\ tmp' = Extended(tmp, Head(wire).chunk)
          /\ UNCHANGED xfer
       \/ xfer # None /\ "disk" \in Faults /\ Reply("error") /\ Discard
    /\ UNCHANGED <<up, step, place, backup, installed>>

\* fileSHA256 of the temporary file against the checksum of the begin.
AnyContent == TRUE
SumMatches == tmp = Whole(xfer)

FinishRefused ==
    /\ Takes("finish") /\ Reply("error")
    /\ \/ xfer = None /\ UNCHANGED <<xfer, tmp>>
       \/ /\ xfer # None
          /\ ~SumMatches \/ "disk" \in Faults
          /\ Discard
    /\ UNCHANGED <<up, step, place, backup, installed>>

Installed == /\ place' = tmp
             /\ installed' = installed \cup {xfer}
             /\ Discard

\* One rename installs a binary, LoadImage an image.
Finish ==
    /\ kind # "update" /\ Takes("finish")
    /\ xfer # None /\ SumMatches
    /\ Installed /\ Reply("ok")
    /\ UNCHANGED <<up, step, backup>>

\* The agent's binary is swapped in three steps, the old backup going first.
FinishUpdate ==
    /\ kind = "update" /\ Takes("finish")
    /\ xfer # None /\ SumMatches
    /\ step' = "swap"
    /\ UNCHANGED <<host, wire, back, up, xfer, tmp, place, backup, installed>>

RemoveBackup ==
    /\ up /\ step = "swap" /\ step' = "rename"
    /\ \/ backup' = None
       \/ "disk" \in Faults /\ UNCHANGED backup
    /\ UNCHANGED <<host, wire, back, up, xfer, tmp, place, installed>>

DropCurrent ==
    /\ up /\ step = "rename" /\ step' = "install"
    /\ place' = None
    /\ UNCHANGED <<host, wire, back, up, xfer, tmp, backup, installed>>

KeepCurrent ==
    /\ up /\ step = "rename"
    /\ \/ /\ step' = "install"
          /\ backup' = place
          /\ place' = None
          /\ UNCHANGED <<wire, back, host, xfer, tmp>>
       \/ /\ "disk" \in Faults /\ step' = "listen"
          /\ Discard /\ Reply("error")
          /\ UNCHANGED <<place, backup>>
    /\ UNCHANGED <<up, installed>>

\* When the new binary cannot be installed the old one is put back, and the
\* temporary file stays.
NotInstalled      == UNCHANGED <<place, backup>>
RestoreFromBackup == /\ place' = backup
                     /\ backup' = None

InstallUpdate ==
    /\ up /\ step = "install" /\ step' = "listen"
    /\ \/ Installed /\ Reply("ok") /\ UNCHANGED backup
       \/ /\ "disk" \in Faults
          /\ RestoreFromBackup /\ Drop /\ Reply("error")
          /\ UNCHANGED <<tmp, installed>>
    /\ UNCHANGED up

\* The agent dies (or its VM is reset) with what it had in memory; commands
\* and answers in the device may go with it.
Crash ==
    /\ "crash" \in Faults /\ up
    /\ up' = FALSE /\ step' = "listen"
    /\ xfer' = None
    /\ wire' \in {wire, <<>>} /\ back' \in {back, <<>>}
    /\ UNCHANGED <<host, tmp, place, backup, installed>>

\* OpenRC starts /opt/goship/goship-init, if there is one, with the VM.
Start ==
    /\ ~up /\ up' = TRUE
    /\ kind = "update" => place # None
    /\ UNCHANGED <<host, wire, back, step, xfer, tmp, place, backup, installed>>
-----------------------------------------------------------------------------
Client(c) == \/ \E sum \in {c, None} : Connect(c, sum)
             \/ SendCommand(c) \/ Answered(c) \/ GivesUp(c)

Port == Forward \/ NextConnection \/ LoseAnswer

Guest == \/ Garbled \/ Begin \/ Data \/ FinishRefused \/ Finish
         \/ FinishUpdate \/ RemoveBackup \/ KeepCurrent \/ InstallUpdate
         \/ Crash \/ Start

Next == (\E c \in Clients : Client(c)) \/ Port \/ Guest

Spec == Init /\ [][Next]_vars
-----------------------------------------------------------------------------
(* Properties.                                                               *)

AnyPiece == Clients \X (0..Chunks)
Command  == [phase : {"begin", "finish", "torn", "garbled"},
             sum : Clients \cup {None}, chunk : {None}]
            \cup [phase : {"data"}, sum : Clients \cup {None}, chunk : AnyPiece]

\* Type invariant of the clients, the port and the guest; no client sends more
\* than its file, and the serial device is never asked to hold more than Lines.
TypeOK == /\ kind \in Kinds
          /\ client \in [Clients ->
                [pc : {"idle", "done", "begin", "data", "finish",
                       "await begin", "await data", "await finish"},
                 sum : Clients \cup {None}, sent : 0..Chunks]]
          /\ conns \in Seq([client : Clients, open : BOOLEAN,
                            cmd : Command \cup {None}])
          /\ wire \in Seq(Command) /\ back \in Seq({"ok", "error"})
          /\ Len(conns) <= Waiting /\ Len(wire) <= Lines /\ Len(back) <= Lines
          /\ up \in BOOLEAN /\ step \in {"listen", "swap", "rename", "install"}
          /\ xfer \in Clients \cup {None}
          /\ tmp = None \/ tmp \in Seq(AnyPiece)
          /\ gaveUp \in BOOLEAN
          /\ installed \subseteq Clients

Files == {Whole(c) : c \in Clients} \cup {First, None}

\* What is installed and what was kept of it is one client's whole file, never
\* a part and never a mixture (init.go: the checksum is compared before any
\* rename).
InstalledIsWhole == backup \in Files /\ place \in Files

\* What is installed, seen from outside: the backup counts while the binary is
\* being swapped.  What is on offer: the file of the transfer in progress.
Current == IF place # None THEN place ELSE backup
OnOffer == IF xfer = None THEN None ELSE Whole(xfer)
Promise == INSTANCE Installation WITH
              Files <- {Whole(c) : c \in Clients}, Before <- {First, None},
              current <- Current, offer <- OnOffer

\* Whatever commands of whatever clients reach the agent, and wherever it fails
\* or dies: a file is replaced in one step by the whole of the file that was
\* announced last, and once there is one it never goes (init.go:552-624, "Atomic
\* swap"; init.go:745-800, 894-966).
ReplacedAtOnce == Promise!Spec

\* The agent's binary is never lost: it or its backup is on the disk after
\* every step of an update and after a crash between two of them, and whenever
\* the agent is ready for a command the binary is in its place, an update that
\* failed having put the old one back (init.go:589-613).
BinarySurvives ==
    kind = "update" => /\ place # None \/ backup # None
                       /\ up /\ step = "listen" => place # None

\* As long as no client has left before its answer, a transfer that was
\* reported as done was installed, from a begin with checksum to the end
\* (docs/cli-reference.md:339: "with SHA256 verification").
ReportedIsInstalled ==
    ~gaveUp => \A c \in Clients : client[c].pc = "done" => c \in installed
-----------------------------------------------------------------------------
(* The inductive invariant behind these properties, one part per idea.       *)

Active(c)   == client[c].pc \notin {"idle", "done"}
IsOpen(i, c) == conns[i].open /\ conns[i].client = c

\* A client that is at something has one open connection, another one none.
ConnectedOnce ==
    /\ \A c \in Clients : Active(c) <=> \E i \in 1..Len(conns) : IsOpen(i, c)
    /\ \A c \in Clients : \A i, j \in 1..Len(conns) : IsOpen(i, c) /\ IsOpen(j, c) => i = j

\* How much of the file was sent, told from what a client is at.
SentSoFar ==
    \A c \in Clients : /\ client[c].pc \in {"begin", "await begin"} => client[c].sent = 0
                       /\ client[c].pc \in {"data", "await data"} => client[c].sent < Chunks

\* A transfer in progress has a temporary file, and while the binary is swapped
\* that file is the one announced, and its finish not answered yet.
GuestAtWork ==
    /\ xfer # None => tmp \in Seq(AnyPiece)
    /\ step # "listen" => /\ up /\ kind = "update"
                          /\ wire # <<>> /\ Head(wire).phase = "finish"
                          /\ Len(back) < Lines
                          /\ xfer # None /\ SumMatches

\* Where the agent's binary is between the steps of its replacement.
BinaryOfStep ==
    kind = "update" => CASE step = "listen"  -> place # None \/ (~up /\ backup # None)
                         [] step = "install" -> place = None /\ backup # None
                         [] OTHER            -> place # None

\* As long as nobody left early, the connections behind the first have at most
\* written a begin; ...
Patient ==
    \A i \in 2..Len(conns) :
        LET x == client[conns[i].client] IN
        /\ conns[i].open /\ x.pc \in {"begin", "await begin"}
        /\ conns[i].cmd # None => x.pc = "await begin" /\ conns[i].cmd.phase = "begin"

\* ... lines carry the checksum of the client that wrote them, ...
OwnSum == /\ \A c \in Clients : client[c].sum \in {c, None}
          /\ \A i \in 1..Len(conns) :
                conns[i].cmd # None => conns[i].cmd.sum = client[conns[i].client].sum

\* ... at most one line is under way, the command the first one waits for or
\* its answer, ...
Quiet      == wire = <<>> /\ back = <<>>
OneLine(c) ==
    \/ /\ Quiet
       /\ conns[1].cmd # None => Awaits(c) /\ client[c].pc = Awaiting(conns[1].cmd.phase)
    \/ /\ conns[1].cmd = None /\ back = <<>> /\ Len(wire) = 1
       /\ Awaits(c) /\ client[c].pc = Awaiting(wire[1].phase) /\ wire[1].sum = client[c].sum
    \/ /\ conns[1].cmd = None /\ wire = <<>> /\ Len(back) = 1
       /\ Awaits(c)

\* ... and the transfer in progress is its own, or was lost.
OwnTransfer(c) ==
    /\ client[c].pc \in {"data", "await data", "finish", "await finish"} => xfer \in {c, None}
    /\ back = <<"ok">> => /\ client[c].pc = "await begin" => xfer \in {c, None}
                          /\ client[c].pc = "await finish" => c \in installed

Unserved == conns = <<>> \/ ~conns[1].open
Served   == IF Unserved THEN Quiet /\ (conns # <<>> => conns[1].cmd = None)
            ELSE OneLine(conns[1].client) /\ OwnTransfer(conns[1].client)

IInv == /\ TypeOK /\ ConnectedOnce /\ SentSoFar /\ GuestAtWork /\ InstalledIsWhole
        /\ BinaryOfStep /\ ReportedIsInstalled
        /\ ~gaveUp => Patient /\ OwnSum /\ Served
=============================================================================
