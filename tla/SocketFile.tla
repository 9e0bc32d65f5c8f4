----------------------------- MODULE SocketFile -----------------------------
(***************************************************************************)
(* The file of a Unix socket and the processes that listen on it.  start() *)
(* of dao/socketServer.js looks at the path, removes a socket it finds and *)
(* binds; each is a system call, and other processes act in between.       *)
(* Processes crash and leave the file behind; closing a listener removes   *)
(* the file by its name, whoever made it (libuv, external).  Other programs *)
(* replace or remove the file at any moment.                               *)
(*                                                                         *)
(* Processes are independent owners of the path, or the workers of         *)
(* example/clusterUnixSocket/cluster-server.js, which listen through one   *)
(* handle of their primary process.                                        *)
(*                                                                         *)
(* FileInit, FileNext and so on have names that a module can use next to   *)
(* those of StreamServer, as StreamServerProofs does.                      *)
(***************************************************************************)
EXTENDS Integers, FiniteSets

CONSTANT Procs  \* processes, or workers

ASSUME ProcsAssumption == Procs \cap {"absent", "regular", "stale", "primary"} = {}

VARIABLES
    cluster,  \* the processes are workers of a primary
    primary,  \* the primary process runs
    file,     \* who bound the file at the path; or what it is
    pc,       \* where each process is in start()
    sharing,  \* the workers that listen on the primary's handle
    alone,    \* history: processes that nobody interfered with since start()
    looked,   \* history: processes that were past lstat when the file came
    touched   \* history: another program changed the file since the primary started

fileVars == <<cluster, primary, file, pc, sharing, alone, looked, touched>>

Files == {"absent", "regular", "stale", "primary"} \cup Procs

FileTypeOK ==
    /\ cluster \in BOOLEAN /\ primary \in BOOLEAN
    /\ file \in Files
    /\ pc \in [Procs -> {"down", "lstat", "unlink", "bind", "listening", "failed"}]
    /\ sharing \in SUBSET Procs /\ alone \in SUBSET Procs /\ looked \in SUBSET Procs
    /\ touched \in BOOLEAN

FileInit ==
    /\ cluster \in BOOLEAN /\ primary = FALSE
    /\ file \in {"absent", "regular", "stale"}
    /\ pc = [p \in Procs |-> "down"]
    /\ sharing = {} /\ alone = {} /\ looked = {}
    /\ touched = FALSE

Goes(p, step) == pc' = [pc EXCEPT ![p] = step]

\* A step of p, after which no other process is undisturbed.
Disturbs(p) == alone' = alone \cap {p}

-----------------------------------------------------------------------------
\* Faulty variant: the workers of a cluster unlink, too.
AlwaysUnlinks(p) == TRUE

\* config.unlink: the default, and the setting of the cluster example.
UnlinksFirst(p) == ~cluster

\* start()
ProcessStarts(p) ==
    /\ IF cluster THEN primary /\ pc[p] = "down" ELSE pc[p] \in {"down", "failed"}
    /\ Goes(p, IF UnlinksFirst(p) THEN "lstat" ELSE "bind")
    /\ alone' = {p}
    /\ looked' = looked \ {p}
    /\ UNCHANGED <<cluster, primary, file, sharing, touched>>

\* Faulty variant: any file is taken for a socket.
LstatBlind(p) ==
    /\ pc[p] = "lstat"
    /\ Goes(p, IF file = "absent" THEN "bind" ELSE "unlink")
    /\ Disturbs(p)
    /\ UNCHANGED <<cluster, primary, file, sharing, looked, touched>>

\* unlinkSocket: fs.lstatSync.  It refuses what is not a socket.
Lstat(p) ==
    /\ pc[p] = "lstat"
    /\ Goes(p, CASE file = "absent" -> "bind" [] file = "regular" -> "failed" [] OTHER -> "unlink")
    /\ Disturbs(p)
    /\ UNCHANGED <<cluster, primary, file, sharing, looked, touched>>

\* unlinkSocket: fs.unlinkSync.  It throws if the file has gone meanwhile.
Unlink(p) ==
    /\ pc[p] = "unlink"
    /\ file' = "absent"
    /\ Goes(p, IF file = "absent" THEN "failed" ELSE "bind")
    /\ Disturbs(p)
    /\ UNCHANGED <<cluster, primary, sharing, looked, touched>>

\* serverError: 'error' is published, and nothing listens.
ServerError(p) == Goes(p, "failed")

\* startServer: listen({path}).  A worker shares the handle of its primary, who
\* binds for the first of them.
Listen(p) ==
    /\ pc[p] = "bind"
    /\ IF cluster /\ sharing # {}
       THEN Goes(p, "listening") /\ UNCHANGED file
       ELSE IF file = "absent"
            THEN Goes(p, "listening") /\ file' = IF cluster THEN "primary" ELSE p
            ELSE ServerError(p) /\ UNCHANGED file
    /\ sharing' = IF cluster /\ pc'[p] = "listening" THEN sharing \cup {p} ELSE sharing
    /\ Disturbs(p)
    /\ UNCHANGED <<cluster, primary, looked, touched>>

\* stop(): server.close().  The last worker closes the primary's handle.
ProcessStops(p) ==
    /\ pc[p] = "listening"
    /\ Goes(p, "down")
    /\ sharing' = sharing \ {p}
    /\ file' = IF sharing' = {} THEN "absent" ELSE file
    /\ Disturbs(p)
    /\ UNCHANGED <<cluster, primary, looked, touched>>

\* The process is killed.  The primary notices that a worker is gone.
Crash(p) ==
    /\ pc[p] # "down"
    /\ Goes(p, "down")
    /\ sharing' = sharing \ {p}
    /\ file' = IF sharing = {p} THEN "absent" ELSE IF file = p THEN "stale" ELSE file
    /\ alone' = {}
    /\ UNCHANGED <<cluster, primary, looked, touched>>

-----------------------------------------------------------------------------
\* The primary removes the file, whatever it is, before it forks.
PrimaryStarts ==
    /\ cluster /\ ~primary
    /\ primary' = TRUE
    /\ file' = "absent"
    /\ touched' = FALSE
    /\ UNCHANGED <<cluster, pc, sharing, alone, looked>>

\* Its workers go down with it.
PrimaryCrashes ==
    /\ primary
    /\ primary' = FALSE
    /\ file' = IF file = "primary" THEN "stale" ELSE file
    /\ pc' = [p \in Procs |-> "down"]
    /\ sharing' = {} /\ alone' = {}
    /\ UNCHANGED <<cluster, looked, touched>>

\* Another program, at any moment: it renames a file of its own to the path, or
\* removes what is there.
OtherProgram ==
    /\ \/ /\ file' = "regular"
          /\ looked' = {p \in Procs : pc[p] \in {"unlink", "bind", "listening"}}
       \/ /\ file' = "absent"
          /\ UNCHANGED looked
    /\ alone' = {}
    /\ touched' = TRUE
    /\ UNCHANGED <<cluster, primary, pc, sharing>>

FileNext ==
    \/ \E p \in Procs : ProcessStarts(p) \/ Lstat(p) \/ Unlink(p) \/ Listen(p) \/ ProcessStops(p) \/ Crash(p)
    \/ PrimaryStarts \/ PrimaryCrashes \/ OtherProgram

FileSpec == FileInit /\ [][FileNext]_fileVars

-----------------------------------------------------------------------------
\* A server with nobody else at its path gets it and keeps it, whatever crash
\* left the file there.  What stops it is a file that is no socket.
OneOwnerSucceeds ==
    ~cluster => \A p \in alone :
        /\ pc[p] = "listening" => file = p
        /\ pc[p] = "failed" => file = "regular"

\* Workers that listen can be reached, through the file of their primary, and
\* none of them fails to listen, unless another program touches the file.
WorkersAreReachable ==
    cluster /\ ~touched => \A p \in Procs :
        /\ pc[p] = "listening" => p \in sharing /\ file = "primary"
        /\ pc[p] # "failed"

\* Who listens is reached, alone or as a worker, and who may listen does.
ListenersAreReachable == FileTypeOK /\ OneOwnerSucceeds /\ WorkersAreReachable

\* A server removes a file that is not a socket only if that file has taken the
\* place of the socket it saw or made: it came after the server's lstat, and goes
\* with its unlink or with its listener.  What was there before is never removed.
RegularFilesAreKept ==
    [][~cluster /\ file = "regular" /\ file' # "regular" =>
           \/ OtherProgram
           \/ \E p \in looked : Unlink(p) \/ ProcessStops(p)]_fileVars
=============================================================================
