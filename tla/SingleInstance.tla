--------------------------- MODULE SingleInstance ---------------------------
(***************************************************************************)
(* The lock that keeps a second client of the same agent from starting     *)
(* (main.py:109-155): a file under a fixed path, locked with flock, which  *)
(* holds the PID of its owner.  The processes interleave at every system   *)
(* call.  A file is an inode: unlinking the path leaves the inode to those *)
(* who have it open, and the next open of the path makes another one.      *)
(***************************************************************************)
EXTENDS Naturals

CONSTANTS
    Processes,    \* the processes that start a client of the agent, by PID
    MaxFiles      \* bound: the inodes ever made

VARIABLES
    pc,         \* where each process is
    fp,         \* the inode each process has open
    path,       \* the inode the path names, 0 for none
    content,    \* the PID in each inode: a set of at most one
    holder,     \* who holds the flock of each inode: a set of at most one
    made,       \* the number of inodes made
    found       \* history: the clients that ran when each process was started

vars == <<pc, fp, path, content, holder, made, found>>

Inodes == 1 .. MaxFiles

Init ==
    /\ pc = [p \in Processes |-> "down"]
    /\ fp = [p \in Processes |-> 0]
    /\ path = 0
    /\ content = [i \in Inodes |-> {}]
    /\ holder = [i \in Inodes |-> {}]
    /\ made = 0
    /\ found = [p \in Processes |-> {}]

Alive(p) == pc[p] \notin {"down", "ended"}

Goto(p, label) == pc' = [pc EXCEPT ![p] = label]

(* open(lock_file, "w"): makes the file or truncates the one there is. *)
Open(p) ==
    /\ pc[p] \in {"down", "opening"}
    /\ Goto(p, "locking")
    /\ \/ /\ path = 0 /\ made < MaxFiles
          /\ made' = made + 1
          /\ path' = made'
          /\ UNCHANGED content
       \/ /\ path # 0
          /\ content' = [content EXCEPT ![path] = {}]
          /\ UNCHANGED <<path, made>>
    /\ fp' = [fp EXCEPT ![p] = path']
    /\ found' = IF pc[p] = "down"
                THEN [found EXCEPT ![p] = {q \in Processes : pc[q] = "running"}]
                ELSE found
    /\ UNCHANGED holder

(* flock with LOCK_NB. *)
Lock(p) ==
    /\ pc[p] = "locking"
    /\ IF holder[fp[p]] = {}
       THEN holder' = [holder EXCEPT ![fp[p]] = {p}] /\ Goto(p, "writing")
       ELSE UNCHANGED holder /\ Goto(p, "reading")
    /\ UNCHANGED <<fp, path, content, made, found>>

WritePid(p) ==
    /\ pc[p] = "writing"
    /\ content' = [content EXCEPT ![fp[p]] = {p}]
    /\ Goto(p, "running")
    /\ UNCHANGED <<fp, path, holder, made, found>>

(* _try_recover_stale: a PID that is alive means a conflict; anything else *)
(* (no file, no PID in it, a dead one) a stale lock.                       *)
ReadPid(p) ==
    /\ pc[p] = "reading"
    /\ Goto(p, IF path # 0 /\ \E q \in content[path] : Alive(q)
               THEN "refused" ELSE "removing")
    /\ UNCHANGED <<fp, path, content, holder, made, found>>

RemoveStale(p) ==
    /\ pc[p] = "removing"
    /\ path' = 0
    /\ Goto(p, "opening")
    /\ UNCHANGED <<fp, content, holder, made, found>>

(* release, from close: a refused process runs it too (main.py:1726-1731), *)
(* since it has the file open.                                             *)
Unlock(p) ==
    /\ pc[p] \in {"running", "refused"}
    /\ holder' = [holder EXCEPT ![fp[p]] = @ \ {p}]
    /\ Goto(p, "leaving")
    /\ UNCHANGED <<fp, path, content, made, found>>

Unlink(p) ==
    /\ pc[p] = "leaving"
    /\ path' = 0
    /\ Goto(p, "ended")
    /\ UNCHANGED <<fp, content, holder, made, found>>

(* The operating system drops the flock of a process that dies. *)
Crash(p) ==
    /\ Alive(p)
    /\ holder' = [i \in Inodes |-> holder[i] \ {p}]
    /\ Goto(p, "ended")
    /\ UNCHANGED <<fp, path, content, made, found>>

Next ==
    \E p \in Processes :
        \/ Open(p) \/ Lock(p) \/ WritePid(p) \/ ReadPid(p)
        \/ RemoveStale(p) \/ Unlock(p) \/ Unlink(p) \/ Crash(p)

Spec == Init /\ [][Next]_vars

(* main.py:115: a process that is started while a client of the agent runs *)
(* refuses to run: it never runs beside that client.  (Two that start at   *)
(* the same time are left aside.)                                          *)
OneInstance ==
    \A p \in Processes :
        pc[p] = "running" => \A q \in found[p] \ {p} : pc[q] # "running"

=============================================================================
