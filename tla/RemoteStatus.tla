---------------------------- MODULE RemoteStatus ----------------------------
(***************************************************************************)
(* What the status files of the QuarkDAV remotes promise to their readers  *)
(* (the remotes list, the rclone integration): the state machine of        *)
(* docs/QUARKDAV_COOKIE_KERNEL_PORT.md, section 5, seen from outside.      *)
(* STARTING is shown only when a kernel is launched, RUNNING only while    *)
(* the kernel the service supervises has said that it is ready, and        *)
(* STOPPED only when none is supervised or the remote is deleted.  One     *)
(* writer, that of the kernel's process number, writes back the state it   *)
(* read a moment ago, whatever has been written meanwhile.                 *)
(***************************************************************************)

CONSTANTS Remotes

VARIABLES shown,  \* the state in each status file; no file reads as STOPPED
          kernel, \* the kernel under supervision
          known,  \* the remote has a metadata file
          noted,  \* the state that the writer of the process number has read
          late    \* a thread of a service being closed may still write

vars == <<shown, kernel, known, noted, late>>

States == {"STOPPED", "STARTING", "RUNNING", "ERROR"}

Init == /\ shown = [r \in Remotes |-> "STOPPED"]
        /\ kernel = [r \in Remotes |-> "none"]
        /\ known \in [Remotes -> BOOLEAN]
        /\ noted = [r \in Remotes |-> "none"]
        /\ late = [r \in Remotes |-> FALSE]

\* STOPPED, ERROR or a state left over -> STARTING: a kernel is launched.
Launch(r) == /\ kernel[r] = "none"
             /\ kernel'[r] = "starting"
             /\ shown'[r] = "STARTING"
             /\ known'[r] = known[r]

\* The supervised kernel says it is ready; the file follows.
Ready(r) == /\ kernel[r] = "starting"
            /\ kernel'[r] = "ready"
            /\ shown'[r] = shown[r]
            /\ known'[r] = known[r]

\* STARTING -> RUNNING, and the heartbeat repeating it.
Announce(r) == /\ kernel[r] = "ready"
               /\ shown'[r] = "RUNNING"
               /\ kernel'[r] = kernel[r]
               /\ known'[r] = known[r]

\* The process number of the supervised kernel is added to what was read.
WriteBack(r) == /\ kernel[r] # "none" /\ noted[r] # "none"
                /\ shown'[r] = noted[r]
                /\ kernel'[r] = kernel[r]
                /\ known'[r] = known[r]

\* The kernel leaves supervision: stopped, exited, or the service is gone.
Leave(r) == /\ kernel[r] # "none"
            /\ kernel'[r] = "none"
            /\ shown'[r] = shown[r]
            /\ known'[r] = known[r]

\* RUNNING or STARTING -> STOPPED or ERROR, once nothing is supervised.
Report(r) == /\ kernel[r] = "none"
             /\ shown'[r] \in {"STOPPED", "ERROR"}
             /\ kernel'[r] = kernel[r]
             /\ known'[r] = known[r]

\* The user's process reports that it cannot reach the service.
Unreachable(r) == /\ shown'[r] = "ERROR"
                  /\ kernel'[r] = kernel[r]
                  /\ known'[r] = known[r]

\* The user deletes the remote, and with it the file.
Delete(r) == /\ ~known'[r]
             /\ shown'[r] = "STOPPED"
             /\ kernel'[r] = kernel[r]

\* A save that read the metadata before the deletion writes it back.
Resurrect(r) == /\ ~known[r] /\ known'[r]
                /\ shown'[r] = shown[r]
                /\ kernel'[r] = kernel[r]

\* A service being closed no longer has one writer: its last write may come
\* after the STOPPED of the thread that closes it.
Overtake(r) == /\ late[r]
               /\ shown'[r] \in States
               /\ kernel'[r] = kernel[r]
               /\ known'[r] = known[r]

Rest(r) == /\ shown'[r] = shown[r]
           /\ kernel'[r] = kernel[r]
           /\ known'[r] = known[r]

Step(r) == \/ Launch(r) \/ Ready(r) \/ Announce(r) \/ WriteBack(r) \/ Leave(r) \/ Report(r)
           \/ Unreachable(r) \/ Delete(r) \/ Resurrect(r) \/ Overtake(r) \/ Rest(r)

\* That writer reads STARTING or RUNNING of a supervised kernel, and forgets.
Notes(r) == \/ noted'[r] \in {noted[r], "none"}
            \/ /\ kernel[r] # "none" /\ shown[r] \in {"STARTING", "RUNNING"}
               /\ noted'[r] = shown[r]

\* Whether a thread of a closed service is still there is not told.
Next == \A r \in Remotes : Step(r) /\ Notes(r)

Spec == Init /\ [][Next]_vars
=============================================================================
