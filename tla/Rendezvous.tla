------------------------------ MODULE Rendezvous ------------------------------
(***************************************************************************)
(* get_exp_redis() (utils/comm_utils.py): the processes of a job meet      *)
(* through a file in a shared directory.  The one that creates the file    *)
(* starts the Redis server and publishes its port there; the others wait   *)
(* for it and connect.  Nobody takes the file away at the end: a job with  *)
(* the same EXP_ID finds what the last one has left.  A file that is older *)
(* than a day is removed by whoever finds it, a younger one is trusted.    *)
(*                                                                         *)
(* A process stands for its host as well, and a port for the process whose *)
(* server has it.  Both writes of the file are os.replace() and atomic.    *)
(***************************************************************************)
EXTENDS FiniteSets

CONSTANTS
  Procs,    \* the processes that call get_exp_redis()
  Clients,  \* those with CANNOT_BE_REDIS_SERVER=1
  MayFail,  \* whether the server may fail to start and waiting may time out
  MayAge    \* whether the file may turn a day old while processes still come

\* The two contents of the file that are no process's: none at all, and what
\* O_CREAT leaves, which cannot be unpickled.
CONSTANTS NoFile, Empty

\* Names of no process of the job: not known, a process of a job of more than a
\* day ago, and one of a job of less than a day ago.
None == "none"
Old == "old"
Recent == "recent"

RendezvousAssumption ==
  /\ IsFiniteSet(Procs) /\ Clients \subseteq Procs
  /\ MayFail \in BOOLEAN /\ MayAge \in BOOLEAN
  /\ Procs \cap {None, Old, Recent} = {} /\ NoFile # Empty

VARIABLES
  file,    \* the rendezvous file
  proc,    \* [Procs -> [pc, master, port]]: master_process and port
  servers  \* processes that have started a server

vars == <<file, proc, servers>>

State(master, port, stale) == [master |-> master, port |-> port, stale |-> stale]

\* What an earlier job may have left: nothing, or what it died with, after its
\* O_CREAT, while its server started, or with the server's port in the file.
Leftovers ==
  {NoFile, Empty} \cup {State(Old, port, TRUE) : port \in {None, Old}}
                  \cup {State(Recent, port, FALSE) : port \in {None, Recent}}

Init ==
  /\ file \in Leftovers
  /\ proc = [p \in Procs |-> [pc |-> "read", master |-> None, port |-> None]]
  /\ servers = {}

At(p, pc) == proc[p].pc = pc

Goes(p, pc) == proc' = [proc EXCEPT ![p].pc = pc]

\* Mutant: the age of the file is not looked at.
NeverStale(state) == FALSE

IsStateStale(state) == state.stale

Readable == file \notin {NoFile, Empty}

\* read_state() finds nothing; a client tries again later.
ReadNothing(p) ==
  /\ At(p, "read") /\ ~Readable /\ p \notin Clients
  /\ Goes(p, "claim")
  /\ UNCHANGED <<file, servers>>

ReadStale(p) ==
  /\ At(p, "read") /\ Readable /\ IsStateStale(file)
  /\ Goes(p, "remove")
  /\ UNCHANGED <<file, servers>>

\* The first master seen is kept, the port is the one that is there now.
ReadState(p) ==
  /\ At(p, "read") /\ Readable /\ ~IsStateStale(file)
  /\ proc' = [proc EXCEPT ![p] =
       [pc |-> IF file.port = None THEN "read" ELSE "connected",
        master |-> IF @.master = None THEN file.master ELSE @.master,
        port |-> file.port]]
  /\ UNCHANGED <<file, servers>>

\* The port does not come within two minutes, or nothing does within an hour.
TimeOut(p) ==
  /\ MayFail /\ At(p, "read")
  /\ (IF Readable THEN ~IsStateStale(file) /\ file.port = None ELSE TRUE)
  /\ Goes(p, "raised")
  /\ UNCHANGED <<file, servers>>

\* Whatever the file is by now.
Remove(p) ==
  /\ At(p, "remove")
  /\ file' = NoFile
  /\ Goes(p, IF p \in Clients THEN "read" ELSE "claim")
  /\ UNCHANGED servers

\* try_claim_master().
Claim(p) ==
  /\ At(p, "claim")
  /\ IF file = NoFile THEN file' = Empty /\ Goes(p, "write")
                      ELSE UNCHANGED file /\ Goes(p, "read")
  /\ UNCHANGED servers

WriteMaster(p) ==
  /\ At(p, "write")
  /\ file' = State(p, None, FALSE)
  /\ Goes(p, "start")
  /\ UNCHANGED servers

StartRedis(p) ==
  /\ At(p, "start")
  /\ servers' = servers \cup {p}
  /\ Goes(p, "publish")
  /\ UNCHANGED file

StartFails(p) ==
  /\ MayFail /\ At(p, "start")
  /\ file' = NoFile
  /\ Goes(p, "raised")
  /\ UNCHANGED servers

Publish(p) ==
  /\ At(p, "publish")
  /\ file' = State(p, p, FALSE)
  /\ proc' = [proc EXCEPT ![p] = [pc |-> "connected", master |-> p, port |-> p]]
  /\ UNCHANGED servers

\* The file turns a day old: one of an earlier job at any time, this job's when
\* its server runs, for a server does not take a day to start.
DayPasses ==
  /\ MayAge /\ Readable /\ (file.port # None \/ file.master = Recent)
  /\ file' = [file EXCEPT !.stale = TRUE]
  /\ UNCHANGED <<proc, servers>>

Next ==
  \/ DayPasses
  \/ \E p \in Procs :
       \/ ReadNothing(p) \/ ReadStale(p) \/ ReadState(p) \/ TimeOut(p)
       \/ Remove(p) \/ Claim(p)
       \/ WriteMaster(p) \/ StartRedis(p) \/ StartFails(p) \/ Publish(p)

Spec == Init /\ [][Next]_vars
-----------------------------------------------------------------------------
(* Properties.                                                             *)

Names == Procs \cup {None, Old, Recent}

\* Shapes of the rendezvous: the file is absent, empty or a state.
TypeOK ==
  /\ file \in {NoFile, Empty} \cup [master : Names, port : Names, stale : BOOLEAN]
  /\ proc \in [Procs -> [pc : {"read", "remove", "claim", "write", "start", "publish",
                              "connected", "raised"},
                        master : Names, port : Names]]
  /\ servers \subseteq Procs

Connected == {p \in Procs : At(p, "connected")}

Connects(p) == ~At(p, "connected") /\ At(p, "connected")'

\* Through claims, removals, failures and files that turn old, a process takes
\* the port of a server that this job has started, or that of a job of less than
\* a day ago, whose file it finds; and that one only as long as this job has
\* started no server.  A file that is a day old gives nobody its port
\* (comm_utils.py:145-216).
TrustedPort ==
  [][\A p \in Procs : Connects(p) =>
       \/ proc'[p].port \in servers
       \/ proc'[p].port = Recent /\ servers = {}]_vars

\* get_exp_redis(): the file serves "to elect a master and publish the Redis
\* server port": the processes of the job meet at one server, at its address.
OneMeetingPoint ==
  \A p, q \in Connected : proc[p].master = proc[q].port
=============================================================================
