---------------------------- MODULE ControlSocket ----------------------------
(***************************************************************************)
(* The opt-in PTZ control socket of ptz_control.c: several elements of one *)
(* process, each with its app thread (start, stop, the control-socket-path *)
(* property) and its control thread, and the clients that connect.  What a *)
(* command does to the camera is PtzControl's business.                    *)
(*                                                                         *)
(* Time is abstracted: select() may time out whenever nothing is pending.  *)
(* A socket is named by its element and a serial number, so that a reused  *)
(* file descriptor can never pass for the one it replaced.                 *)
(***************************************************************************)
EXTENDS Integers, Sequences, FiniteSets, SequencesExt

CONSTANTS
    Elements, Clients,
    ExplicitPaths,      \* element -> the paths its app may configure
    MidSession,         \* may the app change the path between start and stop?
    MaxBinds,           \* bound: sockets an element asks for
    Casts,              \* bound: what takes part, [spent, clients]: sockets
                        \* of an element not to be made, clients that come
    MaxFaults,          \* bound: system calls that fail
    NULL, NoSock, Wakeup

Socks == Elements \X (1..MaxBinds)
DefaultPath == {"auto"} \X (0..(Cardinality(Elements) * MaxBinds))
Path  == DefaultPath \cup UNION {ExplicitPaths[e] : e \in Elements}

\* Two elements configured with one path is the user's mistake, and so is one
\* configured with the default path of another.
ASSUME PathsAssumption ==
    /\ \A e, f \in Elements :
           e # f => ExplicitPaths[e] \cap ExplicitPaths[f] = {}
    /\ \A e \in Elements : ExplicitPaths[e] \cap DefaultPath = {}
ASSUME NamesAssumption ==
    IsFiniteSet(Elements) /\ NULL \notin Path /\ NoSock \notin Socks
ASSUME CastsAssumption ==
    \A cast \in Casts : /\ cast.spent \in [Elements -> 0..MaxBinds]
                       /\ cast.clients \subseteq Clients
ASSUME CountsAssumption == MaxBinds \in Nat /\ MaxFaults \in Nat

VARIABLES
    control_socket_seq,     \* shared by every element of the process
    control_socket_path, control_socket, control_running,
    appPc,                  \* app thread: "stopped", "running", or in between
    fd, binds,              \* the socket start() is building; sockets made
    thr,                    \* control thread: "none" before it is created
    listen_fd, client_fd,
    names,                  \* the file system: which socket a path names
    sock, backlog,          \* kernel: "free", "open", "listening", "closed"
    client,                 \* "out", "idle", "sent", then how it ended
    faults

element == <<control_socket_seq, control_socket_path, control_socket,
             control_running, appPc, fd, binds>>
thread  == <<thr, listen_fd, client_fd>>
kernel  == <<names, sock, backlog, client, faults>>
vars    == <<element, thread, kernel>>

Init ==
    /\ control_socket_seq = 0
    /\ control_socket_path = [e \in Elements |-> NULL]
    /\ control_socket = [e \in Elements |-> NoSock]
    /\ control_running = [e \in Elements |-> FALSE]
    /\ appPc = [e \in Elements |-> "stopped"]
    /\ fd = [e \in Elements |-> NoSock]
    /\ \E cast \in Casts :
           /\ binds = cast.spent
           /\ client = [c \in Clients |->
                           IF c \in cast.clients THEN "out" ELSE "closed"]
    /\ thr = [e \in Elements |-> "none"]
    /\ listen_fd = [e \in Elements |-> NoSock]
    /\ client_fd = [e \in Elements |-> Wakeup]
    /\ names = [p \in Path |-> NoSock]
    /\ sock = [s \in Socks |-> "free"] /\ backlog = [s \in Socks |-> <<>>]
    /\ faults = 0

Fault == faults < MaxFaults /\ faults' = faults + 1

AppTo(e, pc) == appPc' = [appPc EXCEPT ![e] = pc]

\* Closing a listening socket resets whoever was never accepted.
Close(s) ==
    /\ sock' = [sock EXCEPT ![s] = "closed"]
    /\ backlog' = [backlog EXCEPT ![s] = <<>>]
    /\ client' = [c \in Clients |->
                     IF c \in ToSet(backlog[s]) /\ client[c] # "closed"
                     THEN "reset" ELSE client[c]]

Unlink(p) == names' = [names EXCEPT ![p] = NoSock]

-----------------------------------------------------------------------------
(* start(): bind() on the app thread.                                      *)

SetPath(e) ==
    /\ appPc[e] \in {"stopped"} \cup (IF MidSession THEN {"running"} ELSE {})
    /\ \E p \in ExplicitPaths[e] \cup {NULL} :
           control_socket_path' = [control_socket_path EXCEPT ![e] = p]
    /\ UNCHANGED <<control_socket_seq, control_socket, control_running, appPc,
                   fd, binds, thread, kernel>>

\* control-socket is off, or there is no directory for a default path.
StartWithout(e) ==
    /\ appPc[e] = "stopped"
    /\ AppTo(e, "running")
    /\ UNCHANGED <<control_socket_seq, control_socket_path, control_socket,
                   control_running, fd, binds, thread, kernel>>

F_SameSeq == control_socket_seq

\* g_atomic_int_add(&control_socket_seq, 1)
NextSeq == control_socket_seq + 1

\* The default path is resolved once and kept across restarts.
ResolvePath(e) ==
    /\ appPc[e] = "stopped" /\ binds[e] < MaxBinds
    /\ binds' = [binds EXCEPT ![e] = @ + 1]
    /\ IF control_socket_path[e] = NULL
       THEN /\ control_socket_path' =
                   [control_socket_path EXCEPT
                       ![e] = <<"auto", control_socket_seq>>]
            /\ control_socket_seq' = NextSeq
       ELSE UNCHANGED <<control_socket_path, control_socket_seq>>
    /\ UNCHANGED <<control_socket, control_running, thread, names, backlog,
                   client>>

Resolve(e) ==
    /\ ResolvePath(e)
    /\ fd' = [fd EXCEPT ![e] = <<e, binds[e] + 1>>]
    /\ sock' = [sock EXCEPT ![<<e, binds[e] + 1>>] = "open"]
    /\ AppTo(e, "unlink")
    /\ UNCHANGED faults

\* Kept, too, when no socket comes of it: the path is too long, or socket()
\* fails.
ResolveFails(e) ==
    /\ ResolvePath(e) /\ Fault
    /\ AppTo(e, "running")
    /\ UNCHANGED <<fd, sock>>

UnlinkStale(e) ==
    /\ appPc[e] = "unlink"
    /\ Unlink(control_socket_path[e])
    /\ AppTo(e, "bind")
    /\ UNCHANGED <<control_socket_seq, control_socket_path, control_socket,
                   control_running, fd, binds, thread, sock, backlog, client,
                   faults>>

BindPath(e) ==
    /\ appPc[e] = "bind" /\ names[control_socket_path[e]] = NoSock
    /\ names' = [names EXCEPT ![control_socket_path[e]] = fd[e]]
    /\ AppTo(e, "listen")
    /\ UNCHANGED <<control_socket_seq, control_socket_path, control_socket,
                   control_running, fd, binds, thread, sock, backlog, client,
                   faults>>

\* Non-fatal: the element runs on without its socket.  (A name bound anew
\* since the unlink would do it too, but no other element uses this path.)
BindFails(e) ==
    /\ appPc[e] = "bind" /\ Fault
    /\ Close(fd[e])
    /\ AppTo(e, "running")
    /\ UNCHANGED <<control_socket_seq, control_socket_path, control_socket,
                   control_running, fd, binds, thread, names>>

Listen(e) ==
    /\ appPc[e] = "listen"
    /\ sock' = [sock EXCEPT ![fd[e]] = "listening"]
    /\ AppTo(e, "publish")
    /\ UNCHANGED <<control_socket_seq, control_socket_path, control_socket,
                   control_running, fd, binds, thread, names, backlog, client,
                   faults>>

F_LeaveName(e) == names' = names

RemoveName(e) == Unlink(control_socket_path[e])

\* chmod() or listen() failed, with the name already in the file system.
ListenFails(e) ==
    /\ appPc[e] = "listen" /\ Fault
    /\ Close(fd[e]) /\ RemoveName(e)
    /\ AppTo(e, "running")
    /\ UNCHANGED <<control_socket_seq, control_socket_path, control_socket,
                   control_running, fd, binds, thread>>

\* Under control_mutex; then control_running and the thread.
Publish(e) ==
    /\ appPc[e] = "publish"
    /\ control_socket' = [control_socket EXCEPT ![e] = fd[e]]
    /\ control_running' = [control_running EXCEPT ![e] = TRUE]
    /\ thr' = [thr EXCEPT ![e] = "top"]
    /\ AppTo(e, "running")
    /\ UNCHANGED <<control_socket_seq, control_socket_path, fd, binds,
                   listen_fd, client_fd, kernel>>

-----------------------------------------------------------------------------
(* stop(): lower the flag, wake the thread, join it, unbind.               *)

F_KeepRunning(e) == control_running' = control_running

LowerFlag(e) == control_running' = [control_running EXCEPT ![e] = FALSE]

StopRequest(e) ==
    /\ appPc[e] = "running"
    /\ IF control_running[e] THEN LowerFlag(e) /\ AppTo(e, "wake")
       ELSE control_running' = control_running /\ AppTo(e, "unbind")
    /\ UNCHANGED <<control_socket_seq, control_socket_path, control_socket, fd,
                   binds, thread, kernel>>

Named(p) == IF p = NULL THEN NoSock ELSE names[p]

\* A connection to whatever the path names by now, closed again at once.
Wake(e) ==
    /\ appPc[e] = "wake"
    /\ LET s == Named(control_socket_path[e])
       IN  backlog' = IF s # NoSock /\ sock[s] = "listening"
                      THEN [backlog EXCEPT ![s] = Append(@, Wakeup)]
                      ELSE backlog
    /\ AppTo(e, "join")
    /\ UNCHANGED <<control_socket_seq, control_socket_path, control_socket,
                   control_running, fd, binds, thread, names, sock, client,
                   faults>>

F_Unjoined(e) == TRUE

Joined(e) == thr[e] = "exited"

Join(e) ==
    /\ appPc[e] = "join" /\ Joined(e)
    /\ thr' = [thr EXCEPT ![e] = IF @ = "exited" THEN "none" ELSE @]
    /\ AppTo(e, "unbind")
    /\ UNCHANGED <<control_socket_seq, control_socket_path, control_socket,
                   control_running, fd, binds, listen_fd, client_fd, kernel>>

F_KeepFd(e) == control_socket' = control_socket

Invalidate(e) == control_socket' = [control_socket EXCEPT ![e] = NoSock]

\* Runs whether or not this session ever bound; unlinks the current path.
Unbind(e) ==
    /\ appPc[e] = "unbind"
    /\ IF control_socket[e] # NoSock
       THEN Close(control_socket[e]) /\ Invalidate(e)
       ELSE UNCHANGED <<control_socket, sock, backlog, client>>
    /\ IF control_socket_path[e] # NULL THEN RemoveName(e)
       ELSE names' = names
    /\ AppTo(e, "stopped")
    /\ UNCHANGED <<control_socket_seq, control_socket_path, control_running,
                   fd, binds, thread, faults>>

-----------------------------------------------------------------------------
(* The control thread.                                                     *)

ThrTo(e, pc) == thr' = [thr EXCEPT ![e] = pc]

\* The loop test and the snapshot of the descriptor under control_mutex.
LoopTop(e) ==
    /\ thr[e] = "top"
    /\ IF control_running[e] /\ control_socket[e] # NoSock
       THEN /\ listen_fd' = [listen_fd EXCEPT ![e] = control_socket[e]]
            /\ ThrTo(e, "select")
       ELSE listen_fd' = listen_fd /\ ThrTo(e, "exited")
    /\ UNCHANGED <<element, client_fd, kernel>>

SelectTimeout(e) ==
    /\ thr[e] = "select" /\ backlog[listen_fd[e]] = <<>>
    /\ ThrTo(e, "top")
    /\ UNCHANGED <<element, listen_fd, client_fd, kernel>>

SelectReady(e) ==
    /\ thr[e] = "select" /\ backlog[listen_fd[e]] # <<>>
    /\ ThrTo(e, "accept")
    /\ UNCHANGED <<element, listen_fd, client_fd, kernel>>

\* Any error of select(), a signal included, ends the thread for good.
SelectFails(e) ==
    /\ thr[e] = "select" /\ Fault
    /\ ThrTo(e, "exited")
    /\ UNCHANGED <<element, listen_fd, client_fd, names, sock, backlog, client>>

Accept(e) ==
    /\ thr[e] = "accept" /\ backlog[listen_fd[e]] # <<>>
    /\ client_fd' = [client_fd EXCEPT ![e] = Head(backlog[listen_fd[e]])]
    /\ backlog' = [backlog EXCEPT ![listen_fd[e]] = Tail(@)]
    /\ ThrTo(e, "read")
    /\ UNCHANGED <<element, listen_fd, names, sock, client, faults>>

AcceptFails(e) ==
    /\ thr[e] = "accept" /\ Fault
    /\ ThrTo(e, "top")
    /\ UNCHANGED <<element, listen_fd, client_fd, names, sock, backlog, client>>

HasCommand(c) == c # Wakeup /\ client[c] = "sent"

F_ExitOnHangup == "exited"

AfterHangup == "top"

\* read() blocks while the peer neither writes nor closes.
Read(e) ==
    /\ thr[e] = "read"
    /\ client_fd[e] # Wakeup => client[client_fd[e]] # "idle"
    /\ ThrTo(e, IF HasCommand(client_fd[e]) THEN "respond" ELSE AfterHangup)
    /\ UNCHANGED <<element, listen_fd, client_fd, kernel>>

\* Every command gets one response, an ERROR line included; then close().
Respond(e) ==
    /\ thr[e] = "respond"
    /\ client' = IF HasCommand(client_fd[e])
                 THEN [client EXCEPT ![client_fd[e]] = "answered"] ELSE client
    /\ ThrTo(e, "top")
    /\ UNCHANGED <<element, listen_fd, client_fd, names, sock, backlog, faults>>

-----------------------------------------------------------------------------
(* The clients.                                                            *)

Connect(c) ==
    /\ client[c] = "out"
    /\ \E p \in Path :
           /\ names[p] # NoSock /\ sock[names[p]] = "listening"
           /\ backlog' = [backlog EXCEPT ![names[p]] = Append(@, c)]
    /\ client' = [client EXCEPT ![c] = "idle"]
    /\ UNCHANGED <<element, thread, names, sock, faults>>

Send(c) ==
    /\ client[c] = "idle"
    /\ client' = [client EXCEPT ![c] = "sent"]
    /\ UNCHANGED <<element, thread, names, sock, backlog, faults>>

Hangup(c) ==
    /\ client[c] \in {"idle", "sent"}
    /\ client' = [client EXCEPT ![c] = "closed"]
    /\ UNCHANGED <<element, thread, names, sock, backlog, faults>>

-----------------------------------------------------------------------------
Starting(e) ==
    \/ UnlinkStale(e) \/ BindPath(e) \/ BindFails(e)
    \/ Listen(e) \/ ListenFails(e) \/ Publish(e)
Stopping(e) == Wake(e) \/ Join(e) \/ Unbind(e)
ThreadStep(e) ==
    \/ LoopTop(e) \/ SelectTimeout(e) \/ SelectReady(e) \/ SelectFails(e)
    \/ Accept(e) \/ AcceptFails(e) \/ Read(e) \/ Respond(e)

Next ==
    \/ \E e \in Elements :
           \/ SetPath(e) \/ StartWithout(e) \/ Resolve(e) \/ ResolveFails(e)
           \/ StopRequest(e) \/ Starting(e) \/ Stopping(e) \/ ThreadStep(e)
    \/ \E c \in Clients : Connect(c) \/ Send(c) \/ Hangup(c)

Spec == Init /\ [][Next]_vars

\* Every thread of the process is scheduled.
ThreadsSpec ==
    /\ Spec
    /\ \A e \in Elements : /\ WF_vars(Starting(e) \/ Stopping(e))
                            /\ WF_vars(ThreadStep(e))

\* And no client holds a connection open for ever without writing.
ServiceSpec ==
    /\ ThreadsSpec
    /\ \A c \in Clients :
           WF_vars(client[c] = "idle" /\ (Send(c) \/ Hangup(c)))

-----------------------------------------------------------------------------
(* Properties.                                                             *)

TypeOK ==
    /\ control_socket_seq \in 0..(Cardinality(Elements) * MaxBinds)
    /\ control_socket_path \in [Elements -> Path \cup {NULL}]
    /\ control_socket \in [Elements -> Socks \cup {NoSock}]
    /\ control_running \in [Elements -> BOOLEAN]
    /\ \A s \in Socks : ToSet(backlog[s]) \subseteq Clients \cup {Wakeup}
    /\ \A p \in Path : names[p] \in Socks \cup {NoSock}

\* The control thread never selects on, or accepts from, a descriptor that
\* was closed under it (stop() joins the thread before unbind()); and the one
\* it will read next is a finished socket of its own element (bind() publishes
\* no other, unbind() invalidates the one it closes).
NoDeadDescriptor ==
    /\ TypeOK
    /\ \A e \in Elements :
           thr[e] \in {"select", "accept"} => sock[listen_fd[e]] = "listening"
    /\ \A e \in Elements :
           control_socket[e] # NoSock =>
               control_socket[e][1] = e /\ sock[control_socket[e]] = "listening"

\* Between stop() and the next start() an element has no thread, no open
\* socket and no name in the file system, whichever step of start() failed.
StoppedLeavesNothing ==
    \A e \in Elements :
        appPc[e] = "stopped" =>
            /\ thr[e] = "none"
            /\ \A s \in Socks :
                   s[1] = e => /\ sock[s] \notin {"open", "listening"}
                               /\ \A p \in Path : names[p] # s

\* While its thread serves, the control-socket-path property read back from
\* an element leads to that element's socket, and to no other's.
PathReachesServer ==
    \A e \in Elements :
        appPc[e] = "running" /\ control_running[e] =>
            /\ control_socket[e] # NoSock
            /\ Named(control_socket_path[e]) = control_socket[e]

\* stop() ends: the wakeup connection, or failing that the select() timeout,
\* brings the thread back to the flag.
StopEnds == \A e \in Elements : appPc[e] = "join" ~> appPc[e] = "stopped"

\* A command written to a listening socket is answered, or its connection is
\* reset by a stop(), however many clients hang up before it, as long as no
\* system call of the thread fails.
CommandsAnswered ==
    \A c \in Clients :
        (client[c] = "sent" /\ faults = 0) ~> (client[c] # "sent" \/ faults # 0)
=============================================================================
