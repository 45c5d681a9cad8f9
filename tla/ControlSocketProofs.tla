------------------------- MODULE ControlSocketProofs -------------------------
(***************************************************************************)
(* What holds of ControlSocket for any number of elements, clients, failed *)
(* system calls and restarts: the control thread never meets a closed      *)
(* descriptor, stop() leaves nothing behind, and a path leads to the       *)
(* element it is read from.                                                *)
(***************************************************************************)
EXTENDS ControlSocket, FiniteSetTheorems, SequenceTheorems, TLAPS

\* start() owns the descriptor it is building until it publishes it.
Building(e) == appPc[e] \in {"unlink", "bind", "listen", "publish"}

\* From the publication until the thread is joined.
Serving(e) == control_running[e] \/ appPc[e] \in {"wake", "join"}

Held(s) ==
    \/ s = control_socket[s[1]]
    \/ Building(s[1]) /\ s = fd[s[1]]

\* Every socket that was or can no longer be made.
Made == {s \in Socks : s[2] <= binds[s[1]]}

SocketTypes ==
    /\ control_socket_seq \in Nat /\ control_socket_seq <= Cardinality(Made)
    /\ control_socket_path \in [Elements -> Path \cup {NULL}]
    /\ control_socket \in [Elements -> Socks \cup {NoSock}]
    /\ control_running \in [Elements -> BOOLEAN]
    /\ appPc \in [Elements -> {"stopped", "unlink", "bind", "listen",
                               "publish", "running", "wake", "join",
                               "unbind"}]
    /\ fd \in [Elements -> Socks \cup {NoSock}]
    /\ binds \in [Elements -> 0..MaxBinds]
    /\ thr \in [Elements -> {"none", "top", "select", "accept", "read",
                             "respond", "exited"}]
    /\ listen_fd \in [Elements -> Socks \cup {NoSock}]
    /\ names \in [Path -> Socks \cup {NoSock}]
    /\ sock \in [Socks -> {"free", "open", "listening", "closed"}]
    /\ backlog \in [Socks -> Seq(Clients \cup {Wakeup})]

\* The descriptor start() builds, the one it published and the one the thread
\* took a snapshot of, and which of them exist when.
ElementInv(e) ==
    /\ Building(e) =>
           /\ fd[e] \in Socks /\ fd[e][1] = e
           /\ sock[fd[e]] = IF appPc[e] = "publish" THEN "listening"
                            ELSE "open"
    /\ control_running[e] => appPc[e] = "running"
    /\ Serving(e) => control_socket[e] # NoSock
    /\ control_socket[e] # NoSock =>
           /\ Serving(e) \/ appPc[e] = "unbind"
           /\ control_socket[e][1] = e
           /\ sock[control_socket[e]] = "listening"
    /\ thr[e] # "none" => Serving(e)
    /\ thr[e] \in {"select", "accept"} => listen_fd[e] = control_socket[e]

\* Nothing is open that no element holds.
HeldInv ==
    \A s \in Socks : sock[s] \in {"open", "listening"} => Held(s)

SocketInv ==
    SocketTypes /\ (\A e \in Elements : ElementInv(e)) /\ HeldInv

\* Two elements never share a path: a default one carries the count at which
\* it was resolved.
PathsDiffer ==
    /\ \A e \in Elements :
           \/ control_socket_path[e] \in ExplicitPaths[e] \cup {NULL}
           \/ \E n \in 0..control_socket_seq - 1 :
                  control_socket_path[e] = <<"auto", n>>
    /\ \A e, f \in Elements :
           e # f /\ control_socket_path[e] # NULL =>
               control_socket_path[e] # control_socket_path[f]

\* The name of an element: there from bind() to unlink(), and no other.
Bound(e) == appPc[e] \in {"listen", "publish"}

NameOf(e) ==
    /\ Building(e) \/ control_socket[e] # NoSock =>
           control_socket_path[e] # NULL
    /\ Bound(e) => names[control_socket_path[e]] = fd[e]
    /\ control_socket[e] # NoSock =>
           names[control_socket_path[e]] = control_socket[e]

LeadsBack(p) ==
    names[p] # NoSock =>
        /\ control_socket_path[names[p][1]] = p
        /\ \/ names[p] = control_socket[names[p][1]]
           \/ Bound(names[p][1]) /\ names[p] = fd[names[p][1]]

NameInv ==
    (\A e \in Elements : NameOf(e)) /\ (\A p \in Path : LeadsBack(p))

PathInv == SocketInv /\ PathsDiffer /\ NameInv

-----------------------------------------------------------------------------
(* Lemmas: the sockets there are, and how many.                            *)

\* A socket carries its element.
LEMMA SocketParts ==
    /\ \A s \in Socks : /\ s[1] \in Elements /\ s[2] \in 1..MaxBinds
                        /\ s = <<s[1], s[2]>>
    /\ \A e \in Elements, n \in 1..MaxBinds :
           <<e, n>> \in Socks /\ <<e, n>>[1] = e /\ <<e, n>>[2] = n
BY DEF Socks

\* There are as many sockets as elements can make.
LEMMA SocketsAreFinite ==
    IsFiniteSet(Socks)
    /\ Cardinality(Socks) = Cardinality(Elements) * MaxBinds
<1>1. IsFiniteSet(1..MaxBinds) /\ Cardinality(1..MaxBinds) = MaxBinds
  BY FS_Interval, CountsAssumption
<1> QED
  BY <1>1, FS_Product, NamesAssumption DEF Socks

\* Every socket() of the process so far, and their number.
LEMMA MadeIsFinite ==
    /\ IsFiniteSet(Made) /\ Cardinality(Made) \in Nat
    /\ Cardinality(Made) <= Cardinality(Elements) * MaxBinds
<1>1. Made \subseteq Socks
  BY DEF Made
<1> QED
  BY <1>1, SocketsAreFinite, FS_Subset, FS_CardinalityType

\* The bound on the socket() calls is a number.
LEMMA MostIsNumber == Cardinality(Elements) * MaxBinds \in Nat
BY SocketsAreFinite, FS_CardinalityType

\* A default path is always one of those there are names for.
LEMMA SeqIsBounded ==
    ASSUME SocketTypes
    PROVE  control_socket_seq \in 0..(Cardinality(Elements) * MaxBinds)
<1> DEFINE most == Cardinality(Elements) * MaxBinds
<1>2. /\ most \in Nat /\ Cardinality(Made) \in Nat
      /\ Cardinality(Made) <= most
  BY MostIsNumber, MadeIsFinite
<1> HIDE DEF most
<1>3. control_socket_seq \in 0..most
  BY <1>2 DEF SocketTypes
<1> QED
  BY <1>3 DEF most

\* close() empties the queue of whoever was never accepted.
LEMMA ClosedTypes ==
    ASSUME SocketTypes, NEW s, Close(s)
    PROVE  /\ sock' \in [Socks -> {"free", "open", "listening", "closed"}]
           /\ backlog' \in [Socks -> Seq(Clients \cup {Wakeup})]
           /\ \A t \in Socks \ {s} : sock'[t] = sock[t]
           /\ s \in Socks => sock'[s] = "closed"
<1>1. <<>> \in Seq(Clients \cup {Wakeup})
  BY EmptySeq
<1> QED
  BY <1>1 DEF SocketTypes, Close

\* g_atomic_int_add() of a resolve is paid for by the socket it makes.
LEMMA MadeGrows ==
    ASSUME NEW e \in Elements, binds \in [Elements -> 0..MaxBinds],
           binds[e] < MaxBinds, binds' = [binds EXCEPT ![e] = @ + 1]
    PROVE  Cardinality(Made') = Cardinality(Made) + 1
<1> DEFINE new == <<e, binds[e] + 1>>
<1>1. binds[e] + 1 \in 1..MaxBinds
  BY CountsAssumption
<1>2. new \in Socks /\ new[1] = e /\ new[2] = binds[e] + 1
  BY <1>1, SocketParts
<1>3. new \notin Made
  BY <1>2, CountsAssumption DEF Made
<1>4. Made' = Made \cup {new}
  <2>1. ASSUME NEW s \in Socks
        PROVE  s[2] <= binds'[s[1]] <=> s[2] <= binds[s[1]] \/ s = new
    <3>1. s[1] \in Elements /\ s[2] \in 1..MaxBinds /\ s = <<s[1], s[2]>>
      BY SocketParts
    <3>2. CASE s[1] = e
      BY <1>2, <3>1, <3>2, CountsAssumption
    <3>3. CASE s[1] # e
      BY <1>2, <3>1, <3>3
    <3> QED
      BY <3>2, <3>3
  <2> QED
    BY <1>2, <2>1 DEF Made
<1> QED
  BY <1>3, <1>4, MadeIsFinite, FS_AddElement

\* What start() holds is one of the element's own sockets.
LEMMA TypesOfElement ==
    ASSUME SocketInv, NEW e \in Elements
    PROVE  /\ Building(e) => fd[e] \in Socks /\ fd[e][1] = e
           /\ Serving(e) => control_socket[e] \in Socks
           /\ control_socket[e] # NoSock => control_socket[e] \in Socks
           /\ thr[e] \in {"select", "accept"} => listen_fd[e] \in Socks
BY DEF SocketInv, SocketTypes, ElementInv

-----------------------------------------------------------------------------
(* Lemmas: the types.                                                      *)

\* What the kernel and the threads exchange are sockets and connections.
LEMMA TypeStep == ASSUME SocketInv, Next PROVE SocketTypes'
<1> USE DEF SocketTypes, element, thread, kernel, AppTo, ThrTo
<1>0. SocketTypes
  BY DEF SocketInv
<1>1. ASSUME NEW e \in Elements, SetPath(e) PROVE SocketTypes'
  BY <1>0, <1>1 DEF SetPath, Made, Path
<1>2. ASSUME NEW e \in Elements, StartWithout(e) PROVE SocketTypes'
  BY <1>0, <1>2 DEF StartWithout, Made
<1>3. ASSUME NEW e \in Elements, Resolve(e) \/ ResolveFails(e)
      PROVE  SocketTypes'
  <2> USE DEF Resolve, ResolveFails, ResolvePath, Fault
  <2>1. binds[e] + 1 \in 1..MaxBinds /\ <<e, binds[e] + 1>> \in Socks
    BY <1>0, <1>3, SocketParts, CountsAssumption, SMTT(20)
  <2>2. /\ control_socket_seq' \in Nat
        /\ control_socket_seq' <= Cardinality(Made')
    <3>1. Cardinality(Made') = Cardinality(Made) + 1
      BY <1>0, <1>3, MadeGrows
    <3>2. \/ control_socket_seq' = control_socket_seq + 1
          \/ control_socket_seq' = control_socket_seq
      BY <1>3 DEF NextSeq
    <3>3. Cardinality(Made) \in Nat
      BY MadeIsFinite
    <3> QED
      BY <1>0, <3>1, <3>2, <3>3
  <2>3. control_socket_path' \in [Elements -> Path \cup {NULL}]
    <3>1. control_socket_seq \in 0..(Cardinality(Elements) * MaxBinds)
      BY <1>0, SeqIsBounded
    <3>2. <<"auto", control_socket_seq>> \in Path
      BY <3>1 DEF Path, DefaultPath
    <3> QED
      BY <1>0, <1>3, <3>2, ZenonT(40)
  <2>4. /\ binds' \in [Elements -> 0..MaxBinds]
        /\ fd' \in [Elements -> Socks \cup {NoSock}]
        /\ sock' \in [Socks -> {"free", "open", "listening", "closed"}]
    <3>1. binds' \in [Elements -> 0..MaxBinds]
      BY <1>0, <1>3, <2>1, CountsAssumption
    <3>2. /\ fd' = fd \/ fd' = [fd EXCEPT ![e] = <<e, binds[e] + 1>>]
          /\ \/ sock' = sock
             \/ sock' = [sock EXCEPT ![<<e, binds[e] + 1>>] = "open"]
      BY <1>3
    <3> QED
      BY <1>0, <2>1, <3>1, <3>2
  <2> QED
    BY <1>0, <1>3, <2>2, <2>3, <2>4
<1>4. ASSUME NEW e \in Elements, UnlinkStale(e) PROVE SocketTypes'
  BY <1>0, <1>4 DEF UnlinkStale, Unlink, Made
<1>5. ASSUME NEW e \in Elements, BindPath(e) PROVE SocketTypes'
  BY <1>0, <1>5 DEF BindPath, Made
<1>6. ASSUME NEW e \in Elements, BindFails(e) PROVE SocketTypes'
  BY <1>0, <1>6, ClosedTypes DEF BindFails, Made
<1>7. ASSUME NEW e \in Elements, Listen(e) PROVE SocketTypes'
  BY <1>0, <1>7 DEF Listen, Made
<1>8. ASSUME NEW e \in Elements, ListenFails(e) PROVE SocketTypes'
  BY <1>0, <1>8, ClosedTypes DEF ListenFails, RemoveName, Unlink, Made
<1>9. ASSUME NEW e \in Elements, Publish(e) PROVE SocketTypes'
  BY <1>0, <1>9 DEF Publish, Made
<1>10. ASSUME NEW e \in Elements, StopRequest(e) PROVE SocketTypes'
  BY <1>0, <1>10 DEF StopRequest, LowerFlag, Made
<1>11. ASSUME NEW e \in Elements, Wake(e) PROVE SocketTypes'
  <2>1. ASSUME NEW s \in Socks
        PROVE  [backlog EXCEPT ![s] = Append(@, Wakeup)]
                   \in [Socks -> Seq(Clients \cup {Wakeup})]
    BY <1>0
  <2>2. LET s == Named(control_socket_path[e]) IN s \in Socks \cup {NoSock}
    BY <1>0 DEF Named
  <2>3. backlog' \in [Socks -> Seq(Clients \cup {Wakeup})]
    BY <1>0, <1>11, <2>1, <2>2 DEF Wake
  <2> QED
    BY <1>0, <1>11, <2>3 DEF Wake, Made
<1>12. ASSUME NEW e \in Elements, Join(e) PROVE SocketTypes'
  BY <1>0, <1>12 DEF Join, Made
<1>13. ASSUME NEW e \in Elements, Unbind(e) PROVE SocketTypes'
  <2>1. /\ sock' \in [Socks -> {"free", "open", "listening", "closed"}]
        /\ backlog' \in [Socks -> Seq(Clients \cup {Wakeup})]
        /\ control_socket' \in [Elements -> Socks \cup {NoSock}]
    BY <1>0, <1>13, ClosedTypes DEF Unbind, Invalidate
  <2>2. names' \in [Path -> Socks \cup {NoSock}]
    BY <1>0, <1>13 DEF Unbind, RemoveName, Unlink
  <2> QED
    BY <1>0, <1>13, <2>1, <2>2 DEF Unbind, Made
<1>14. ASSUME NEW e \in Elements, LoopTop(e) PROVE SocketTypes'
  BY <1>0, <1>14 DEF LoopTop, Made
<1>15. ASSUME NEW e \in Elements, SelectTimeout(e) \/ SelectReady(e)
       PROVE  SocketTypes'
  BY <1>0, <1>15 DEF SelectTimeout, SelectReady, Made
<1>16. ASSUME NEW e \in Elements, SelectFails(e) \/ AcceptFails(e)
       PROVE  SocketTypes'
  BY <1>0, <1>16 DEF SelectFails, AcceptFails, Made
<1>17. ASSUME NEW e \in Elements, Accept(e) PROVE SocketTypes'
  <2>1. backlog' \in [Socks -> Seq(Clients \cup {Wakeup})]
    <3>1. listen_fd[e] \in Socks /\ backlog[listen_fd[e]] # <<>>
      BY <1>17, TypesOfElement DEF Accept
    <3>2. Tail(backlog[listen_fd[e]]) \in Seq(Clients \cup {Wakeup})
      BY <1>0, <3>1
    <3> QED
      BY <1>0, <1>17, <3>1, <3>2 DEF Accept
  <2> QED
    BY <1>0, <1>17, <2>1 DEF Accept, Made
<1>18. ASSUME NEW e \in Elements, Read(e) \/ Respond(e) PROVE SocketTypes'
  BY <1>0, <1>18 DEF Read, Respond, AfterHangup, Made
<1>19. ASSUME NEW c \in Clients, Connect(c) PROVE SocketTypes'
  <2>1. PICK p \in Path :
            /\ names[p] # NoSock /\ sock[names[p]] = "listening"
            /\ backlog' = [backlog EXCEPT ![names[p]] = Append(@, c)]
    BY <1>19 DEF Connect
  <2>2. Append(backlog[names[p]], c) \in Seq(Clients \cup {Wakeup})
    BY <1>0, <2>1
  <2>3. backlog' \in [Socks -> Seq(Clients \cup {Wakeup})]
    BY <1>0, <2>1, <2>2
  <2> QED
    BY <1>0, <1>19, <2>3 DEF Connect, Made
<1>20. ASSUME NEW c \in Clients, Send(c) \/ Hangup(c) PROVE SocketTypes'
  BY <1>0, <1>20 DEF Send, Hangup, Made
<1> QED
  BY <1>1, <1>2, <1>3, <1>4, <1>5, <1>6, <1>7, <1>8, <1>9, <1>10, <1>11,
     <1>12, <1>13, <1>14, <1>15, <1>16, <1>17, <1>18, <1>19, <1>20
     DEF Next, Starting, Stopping, ThreadStep

-----------------------------------------------------------------------------
(* Lemmas: the descriptors.                                                *)

\* What a step of element e leaves alone: the other elements' own state, and
\* every socket that is not e's.
Others(e) ==
    /\ \A f \in Elements \ {e} :
           /\ control_socket'[f] = control_socket[f]
           /\ control_running'[f] = control_running[f]
           /\ appPc'[f] = appPc[f] /\ fd'[f] = fd[f]
           /\ thr'[f] = thr[f] /\ listen_fd'[f] = listen_fd[f]
    /\ \A s \in Socks : s[1] # e => sock'[s] = sock[s]

HeldOf(e) ==
    \A s \in Socks :
        s[1] = e /\ sock[s] \in {"open", "listening"} => Held(s)

\* A step of one element cannot take another's descriptor from it.
LEMMA FrameStep ==
    ASSUME SocketInv, NEW e \in Elements, Others(e), ElementInv(e)', HeldOf(e)'
    PROVE  (\A f \in Elements : ElementInv(f)') /\ HeldInv'
<1>1. ASSUME NEW f \in Elements \ {e} PROVE ElementInv(f)'
  <2>1. ElementInv(f)
    BY DEF SocketInv
  <2>2. Building(f) => sock'[fd[f]] = sock[fd[f]]
    BY <2>1 DEF ElementInv, Others
  <2>3. control_socket[f] # NoSock =>
            sock'[control_socket[f]] = sock[control_socket[f]]
    BY <2>1 DEF ElementInv, Others, SocketInv, SocketTypes
  <2> QED
    BY <2>1, <2>2, <2>3 DEF ElementInv, Others, Building, Serving
<1>2. ASSUME NEW s \in Socks, s[1] # e, sock'[s] \in {"open", "listening"}
      PROVE  Held(s)'
  <2>1. s[1] \in Elements \ {e} /\ sock[s] \in {"open", "listening"}
    BY <1>2, SocketParts DEF Others
  <2>2. Held(s)
    BY <2>1 DEF SocketInv, HeldInv
  <2> QED
    BY <2>1, <2>2 DEF Held, Building, Others
<1>3. HeldInv'
  BY <1>2 DEF HeldInv, HeldOf
<1> QED
  BY <1>1, <1>3

\* start(), and the steps between: the socket it makes is its own, listens
\* before it is published, and is closed when the start goes on without it.
LEMMA StartKeeps ==
    ASSUME SocketInv, NEW e \in Elements,
           \/ SetPath(e) \/ StartWithout(e) \/ Resolve(e) \/ ResolveFails(e)
           \/ Starting(e)
    PROVE  Others(e) /\ ElementInv(e)' /\ HeldOf(e)'
<1> USE DEF SocketTypes, element, thread, kernel, AppTo, Building, Serving
<1>0. SocketTypes /\ ElementInv(e) /\ HeldOf(e)
  BY DEF SocketInv, HeldInv, HeldOf
<1>1. CASE SetPath(e)
  BY <1>0, <1>1 DEF SetPath, Others, ElementInv, HeldOf, Held
<1>2. CASE StartWithout(e) \/ ResolveFails(e)
  BY <1>0, <1>2, SocketParts
     DEF StartWithout, ResolveFails, ResolvePath, Others, ElementInv, HeldOf,
         Held
<1>3. CASE Resolve(e)
  <2> DEFINE new == <<e, binds[e] + 1>>
  <2>1. new \in Socks /\ new[1] = e
    <3>1. binds[e] + 1 \in 1..MaxBinds
      BY <1>0, <1>3, CountsAssumption DEF Resolve, ResolvePath
    <3> QED
      BY <3>1, SocketParts
  <2>2. fd' = [fd EXCEPT ![e] = new] /\ sock' = [sock EXCEPT ![new] = "open"]
    BY <1>3 DEF Resolve, ResolvePath
  <2> HIDE DEF new
  <2>a. /\ appPc[e] = "stopped" /\ appPc' = [appPc EXCEPT ![e] = "unlink"]
        /\ UNCHANGED <<control_socket, control_running, thr, listen_fd>>
    BY <1>3 DEF Resolve, ResolvePath
  <2>b. ~control_running[e] /\ control_socket[e] = NoSock /\ thr[e] = "none"
    BY <1>0, <2>a DEF ElementInv
  <2>c. /\ fd'[e] = new /\ appPc'[e] = "unlink" /\ sock'[new] = "open"
        /\ \A s \in Socks \ {new} : sock'[s] = sock[s]
    BY <1>0, <2>1, <2>2, <2>a
  <2>3. Others(e)
    BY <1>0, <1>3, <2>1, <2>2 DEF Resolve, ResolvePath, Others
  <2>4. ElementInv(e)'
    BY <2>1, <2>a, <2>b, <2>c DEF ElementInv
  <2>5. HeldOf(e)'
    BY <1>0, <2>1, <2>a, <2>b, <2>c, ZenonT(40) DEF HeldOf, Held
  <2> QED
    BY <2>3, <2>4, <2>5
<1>4. CASE UnlinkStale(e) \/ BindPath(e)
  BY <1>0, <1>4, SocketParts
     DEF UnlinkStale, BindPath, Others, ElementInv, HeldOf, Held
<1>5. CASE BindFails(e) \/ ListenFails(e)
  <2>1. /\ fd[e] \in Socks /\ fd[e][1] = e /\ control_socket[e] = NoSock
        /\ ~control_running[e] /\ thr[e] = "none"
    BY <1>0, <1>5 DEF ElementInv, BindFails, ListenFails
  <2>2. /\ \A t \in Socks \ {fd[e]} : sock'[t] = sock[t]
        /\ sock'[fd[e]] = "closed"
    BY <1>0, <1>5, <2>1, ClosedTypes DEF BindFails, ListenFails
  <2>3. Others(e)
    BY <1>0, <1>5, <2>1, <2>2 DEF BindFails, ListenFails, Others
  <2>4. ElementInv(e)'
    BY <1>0, <1>5, <2>1 DEF BindFails, ListenFails, ElementInv
  <2>5. HeldOf(e)'
    BY <1>0, <1>5, <2>1, <2>2
       DEF BindFails, ListenFails, ElementInv, HeldOf, Held
  <2> QED
    BY <2>3, <2>4, <2>5
<1>6. CASE Listen(e)
  BY <1>0, <1>6, SocketParts DEF Listen, Others, ElementInv, HeldOf, Held
<1>7. CASE Publish(e)
  <2>1. /\ appPc[e] = "publish" /\ sock' = sock /\ fd' = fd
        /\ control_socket' = [control_socket EXCEPT ![e] = fd[e]]
        /\ control_running' = [control_running EXCEPT ![e] = TRUE]
        /\ thr' = [thr EXCEPT ![e] = "top"] /\ listen_fd' = listen_fd
        /\ appPc' = [appPc EXCEPT ![e] = "running"]
    BY <1>7 DEF Publish
  <2>2. /\ fd[e] \in Socks /\ fd[e][1] = e /\ sock[fd[e]] = "listening"
        /\ control_socket[e] = NoSock
    BY <1>0, <2>1 DEF ElementInv
  <2>3. Others(e)
    BY <1>0, <2>1 DEF Others
  <2>4. /\ control_socket'[e] = fd[e] /\ control_running'[e]
        /\ thr'[e] = "top" /\ appPc'[e] = "running"
    BY <1>0, <2>1
  <2>5. ElementInv(e)'
    BY <2>1, <2>2, <2>4, NamesAssumption DEF ElementInv
  <2>6. HeldOf(e)'
    BY <1>0, <2>1, <2>2, <2>4, NamesAssumption DEF HeldOf, Held
  <2> QED
    BY <2>3, <2>5, <2>6
<1> QED
  BY <1>1, <1>2, <1>3, <1>4, <1>5, <1>6, <1>7 DEF Starting

\* stop(): what it closes the thread no longer uses.
LEMMA StopKeeps ==
    ASSUME SocketInv, NEW e \in Elements, StopRequest(e) \/ Stopping(e)
    PROVE  Others(e) /\ ElementInv(e)' /\ HeldOf(e)'
<1> USE DEF SocketTypes, element, thread, kernel, AppTo, Building, Serving
<1>0. SocketTypes /\ ElementInv(e) /\ HeldOf(e)
  BY DEF SocketInv, HeldInv, HeldOf
<1>1. CASE StopRequest(e)
  <2>1. /\ appPc[e] = "running"
        /\ UNCHANGED <<control_socket, fd, sock, thr, listen_fd>>
    BY <1>1 DEF StopRequest
  <2>2. Others(e) /\ control_running'[e] = FALSE
    BY <1>0, <1>1 DEF StopRequest, LowerFlag, Others
  <2>3. appPc'[e] = IF control_running[e] THEN "wake" ELSE "unbind"
    BY <1>0, <1>1 DEF StopRequest
  <2>4. ElementInv(e)'
    BY <1>0, <2>1, <2>2, <2>3 DEF ElementInv
  <2>5. HeldOf(e)'
    BY <1>0, <2>1, <2>3 DEF HeldOf, Held
  <2> QED
    BY <2>2, <2>4, <2>5
<1>2. CASE Wake(e)
  BY <1>0, <1>2 DEF Wake, Others, ElementInv, HeldOf, Held
<1>3. CASE Join(e)
  BY <1>0, <1>3 DEF Join, Joined, Others, ElementInv, HeldOf, Held
<1>4. CASE Unbind(e)
  <2>1. ~control_running[e] /\ thr[e] = "none" /\ control_socket'[e] = NoSock
    BY <1>0, <1>4 DEF ElementInv, Unbind, Invalidate
  <2>2. \A t \in Socks : t = control_socket[e] \/ sock'[t] = sock[t]
    BY <1>0, <1>4, ClosedTypes DEF Unbind
  <2>3. control_socket[e] # NoSock => sock'[control_socket[e]] = "closed"
    BY <1>0, <1>4, ClosedTypes DEF Unbind
  <2>4. Others(e)
    <3>1. \A s \in Socks : s[1] # e => sock'[s] = sock[s]
      BY <1>0, <2>2, NamesAssumption DEF ElementInv
    <3> QED
      BY <1>0, <1>4, <3>1 DEF Unbind, Invalidate, Others
  <2>5. ElementInv(e)'
    BY <1>0, <1>4, <2>1 DEF Unbind, ElementInv
  <2>6. HeldOf(e)'
    <3>1. ASSUME NEW s \in Socks, s[1] = e, sock'[s] \in {"open", "listening"}
          PROVE  FALSE
      <4>1. s # control_socket[e]
        BY <2>3, <3>1, NamesAssumption
      <4>2. sock[s] \in {"open", "listening"}
        BY <2>2, <3>1, <4>1
      <4>3. appPc[e] = "unbind"
        BY <1>4 DEF Unbind
      <4> QED
        BY <1>0, <3>1, <4>1, <4>2, <4>3 DEF HeldOf, Held
    <3> QED
      BY <3>1 DEF HeldOf
  <2> QED
    BY <2>4, <2>5, <2>6
<1> QED
  BY <1>1, <1>2, <1>3, <1>4 DEF Stopping

\* The control thread opens and closes nothing, and what it selects on is what
\* the loop test just read.
LEMMA ThreadKeeps ==
    ASSUME SocketInv, NEW e \in Elements, ThreadStep(e)
    PROVE  Others(e) /\ ElementInv(e)' /\ HeldOf(e)'
<1> USE DEF SocketTypes, element, thread, kernel, ThrTo, Building, Serving
<1>0. SocketTypes /\ ElementInv(e) /\ HeldOf(e)
  BY DEF SocketInv, HeldInv, HeldOf
<1>1. CASE LoopTop(e)
  BY <1>0, <1>1 DEF LoopTop, Others, ElementInv, HeldOf, Held
<1>2. CASE SelectTimeout(e) \/ SelectReady(e) \/ SelectFails(e)
  BY <1>0, <1>2 DEF SelectTimeout, SelectReady, SelectFails, Others,
                    ElementInv, HeldOf, Held
<1>3. CASE Accept(e) \/ AcceptFails(e)
  BY <1>0, <1>3 DEF Accept, AcceptFails, Others, ElementInv, HeldOf, Held
<1>4. CASE Read(e) \/ Respond(e)
  BY <1>0, <1>4 DEF Read, Respond, AfterHangup, Others, ElementInv, HeldOf,
                    Held
<1> QED
  BY <1>1, <1>2, <1>3, <1>4 DEF ThreadStep

\* Every step of any thread keeps every descriptor where it belongs.
LEMMA SocketStep == ASSUME SocketInv, Next PROVE SocketInv'
<1>1. SocketTypes'
  BY TypeStep
<1>2. ASSUME NEW e \in Elements,
             \/ SetPath(e) \/ StartWithout(e) \/ Resolve(e) \/ ResolveFails(e)
             \/ Starting(e) \/ StopRequest(e) \/ Stopping(e) \/ ThreadStep(e)
      PROVE  (\A f \in Elements : ElementInv(f)') /\ HeldInv'
  BY <1>2, StartKeeps, StopKeeps, ThreadKeeps, FrameStep
<1>3. ASSUME NEW c \in Clients, Connect(c) \/ Send(c) \/ Hangup(c)
      PROVE  (\A f \in Elements : ElementInv(f)') /\ HeldInv'
  BY <1>3 DEF Connect, Send, Hangup, SocketInv, ElementInv, HeldInv, Held,
              Building, Serving, element, thread
<1> QED
  BY <1>1, <1>2, <1>3 DEF Next, SocketInv

-----------------------------------------------------------------------------
(* Lemmas: the names.                                                      *)

\* An element between two sessions has no name to lose or to take away.
LEMMA IdleHasNoName ==
    ASSUME PathInv, NEW e \in Elements, appPc[e] = "stopped"
    PROVE  /\ control_socket[e] = NoSock /\ ~Building(e) /\ ~Bound(e)
           /\ \A p \in Path : names[p] # NoSock =>
                  names[p][1] \in Elements \ {e}
<1>1. control_socket[e] = NoSock /\ ~Building(e) /\ ~Bound(e)
  BY DEF PathInv, SocketInv, SocketTypes, ElementInv, Serving, Building, Bound
<1>2. ASSUME NEW p \in Path, names[p] # NoSock
      PROVE  names[p][1] \in Elements \ {e}
  <2>1. names[p] \in Socks
    BY <1>2 DEF PathInv, SocketInv, SocketTypes
  <2>2. names[p][1] \in Elements
    BY <2>1, SocketParts
  <2>3. LeadsBack(p)
    BY DEF PathInv, NameInv
  <2> QED
    BY <1>1, <1>2, <2>2, <2>3 DEF LeadsBack
<1> QED
  BY <1>1, <1>2

\* What an element does to its own name, it does to no other's.
LEMMA NameFrame ==
    ASSUME PathInv, NEW e \in Elements, Others(e),
           control_socket_path' = control_socket_path,
           \A p \in Path : p = control_socket_path[e] \/ names'[p] = names[p],
           NameOf(e)',
           control_socket_path[e] \in Path => LeadsBack(control_socket_path[e])'
    PROVE  NameInv'
<1>1. ASSUME NEW f \in Elements, f # e PROVE NameOf(f)'
  <2>1. NameOf(f)
    BY DEF PathInv, NameInv
  <2>2. control_socket_path[f] # NULL =>
            names'[control_socket_path[f]] = names[control_socket_path[f]]
    BY <1>1 DEF PathInv, PathsDiffer, SocketInv, SocketTypes
  <2>3. /\ control_socket'[f] = control_socket[f] /\ fd'[f] = fd[f]
        /\ appPc'[f] = appPc[f]
    BY <1>1 DEF Others
  <2>4. Bound(f) => Building(f)
    BY DEF Bound, Building
  <2> QED
    BY <2>1, <2>2, <2>3, <2>4 DEF NameOf, Bound, Building
<1>2. ASSUME NEW p \in Path, p # control_socket_path[e] PROVE LeadsBack(p)'
  <2> SUFFICES ASSUME names[p] # NoSock PROVE LeadsBack(p)'
    BY <1>2 DEF LeadsBack
  <2>1. names'[p] = names[p] /\ LeadsBack(p)
    BY <1>2 DEF PathInv, NameInv
  <2>2. names[p][1] \in Elements
    BY SocketParts DEF PathInv, SocketInv, SocketTypes
  <2>3. names[p][1] # e
    BY <1>2, <2>1 DEF LeadsBack
  <2> QED
    BY <2>1, <2>2, <2>3 DEF LeadsBack, Others, Bound
<1>3. \A f \in Elements : NameOf(f)'
  BY <1>1
<1>4. \A p \in Path : LeadsBack(p)'
  BY <1>2
<1> QED
  BY <1>3, <1>4 DEF NameInv

Resolving(e) == Resolve(e) \/ ResolveFails(e)

\* The app configures a path while its element is stopped, and start() resolves
\* a default one that no element has.
LEMMA PathStep ==
    ASSUME PathInv, MidSession = FALSE, NEW e \in Elements,
           SetPath(e) \/ Resolving(e)
    PROVE  PathsDiffer' /\ NameInv'
<1> USE DEF element, thread, kernel, AppTo
<1>0. SocketTypes /\ PathsDiffer /\ appPc[e] = "stopped"
  BY DEF PathInv, SocketInv, SetPath, Resolving, Resolve, ResolveFails,
         ResolvePath
<1>1. PICK p : /\ control_socket_path' =
                      [control_socket_path EXCEPT ![e] = p]
               /\ \/ /\ p \in ExplicitPaths[e] \cup {NULL}
                     /\ control_socket_seq' = control_socket_seq
                     /\ SetPath(e)
                  \/ /\ p = control_socket_path[e] /\ p # NULL
                     /\ control_socket_seq' = control_socket_seq
                     /\ Resolving(e)
                  \/ /\ p = <<"auto", control_socket_seq>>
                     /\ control_socket_seq' = control_socket_seq + 1
                     /\ Resolving(e)
  <2>1. CASE SetPath(e)
    BY <2>1 DEF SetPath
  <2>2. CASE Resolving(e)
    <3>1. CASE control_socket_path[e] = NULL
      BY <2>2, <3>1 DEF Resolving, Resolve, ResolveFails, ResolvePath, NextSeq
    <3>2. CASE control_socket_path[e] # NULL
      <4>1. control_socket_path' =
                [control_socket_path EXCEPT ![e] = control_socket_path[e]]
        BY <1>0, <2>2, <3>2 DEF Resolving, Resolve, ResolveFails, ResolvePath,
                               SocketTypes
      <4> QED
        BY <2>2, <3>2, <4>1 DEF Resolving, Resolve, ResolveFails, ResolvePath
    <3> QED
      BY <3>1, <3>2
  <2> QED
    BY <2>1, <2>2
<1>2. /\ control_socket_path'[e] = p
      /\ \A f \in Elements \ {e} :
             control_socket_path'[f] = control_socket_path[f]
  BY <1>0, <1>1 DEF SocketTypes
<1>3. <<"auto", control_socket_seq>> \in DefaultPath \cap Path
  <2>1. control_socket_seq \in 0..(Cardinality(Elements) * MaxBinds)
    BY <1>0, SeqIsBounded
  <2> QED
    BY <2>1 DEF DefaultPath, Path
<1>4. ASSUME NEW f \in Elements, f # e, p # NULL
      PROVE  p # control_socket_path[f]
  <2>1. CASE p \in ExplicitPaths[e] \cup {NULL}
    <3>1. CASE control_socket_path[f] \in ExplicitPaths[f] \cup {NULL}
      BY <1>4, <2>1, <3>1, PathsAssumption
    <3>2. CASE control_socket_path[f] \notin ExplicitPaths[f] \cup {NULL}
      <4>1. PICK n \in 0..control_socket_seq - 1 :
                control_socket_path[f] = <<"auto", n>>
        BY <1>0, <3>2 DEF PathsDiffer
      <4>2. <<"auto", n>> \in DefaultPath
        <5>1. n \in 0..(Cardinality(Elements) * MaxBinds)
          BY <1>0, SeqIsBounded, MostIsNumber DEF SocketTypes
        <5> QED
          BY <5>1 DEF DefaultPath
      <4> QED
        BY <1>4, <2>1, <4>1, <4>2, PathsAssumption
    <3> QED
      BY <3>1, <3>2
  <2>2. CASE p = control_socket_path[e]
    BY <1>0, <1>4, <2>2 DEF PathsDiffer
  <2>3. CASE p = <<"auto", control_socket_seq>>
    <3>1. CASE control_socket_path[f] \in ExplicitPaths[f] \cup {NULL}
      BY <1>3, <1>4, <2>3, <3>1, PathsAssumption
    <3>2. CASE control_socket_path[f] \notin ExplicitPaths[f] \cup {NULL}
      <4>1. PICK n \in 0..control_socket_seq - 1 :
                control_socket_path[f] = <<"auto", n>>
        BY <1>0, <3>2 DEF PathsDiffer
      <4>2. n # control_socket_seq
        BY <1>0, <4>1 DEF SocketTypes
      <4>3. <<"auto", n>> # <<"auto", control_socket_seq>>
        BY <4>2
      <4> QED
        BY <2>3, <4>1, <4>3
    <3> QED
      BY <3>1, <3>2
  <2> QED
    BY <1>1, <2>1, <2>2, <2>3
<1>5. PathsDiffer'
  <2>1. ASSUME NEW f \in Elements
        PROVE  \/ control_socket_path'[f] \in ExplicitPaths[f] \cup {NULL}
               \/ \E n \in 0..control_socket_seq' - 1 :
                      control_socket_path'[f] = <<"auto", n>>
    <3>1. 0..control_socket_seq - 1 \subseteq 0..control_socket_seq' - 1
      BY <1>0, <1>1 DEF SocketTypes
    <3>2. CASE control_socket_path'[f] = control_socket_path[f]
      BY <1>0, <3>1, <3>2 DEF PathsDiffer
    <3>3. CASE f = e /\ p \in ExplicitPaths[e] \cup {NULL}
      BY <1>2, <3>3
    <3>4. CASE f = e /\ p = <<"auto", control_socket_seq>>
               /\ control_socket_seq' = control_socket_seq + 1
      <4>1. control_socket_seq \in 0..control_socket_seq' - 1
        BY <1>0, <3>4 DEF SocketTypes
      <4> QED
        BY <1>2, <3>4, <4>1
    <3> QED
      BY <1>1, <1>2, <3>2, <3>3, <3>4
  <2>2. ASSUME NEW f \in Elements, NEW g \in Elements, f # g,
               control_socket_path'[f] # NULL
        PROVE  control_socket_path'[f] # control_socket_path'[g]
    BY <1>0, <1>2, <1>4, <2>2 DEF PathsDiffer
  <2> QED
    BY <2>1, <2>2 DEF PathsDiffer
<1>6. /\ names' = names /\ control_socket' = control_socket
      /\ \A f \in Elements \ {e} : appPc'[f] = appPc[f] /\ fd'[f] = fd[f]
      /\ appPc'[e] \in {"stopped", "unlink", "running"}
      /\ appPc'[e] = "unlink" => p # NULL
  BY <1>0, <1>1, <1>3, NamesAssumption, ZenonT(40)
     DEF SetPath, Resolving, Resolve, ResolveFails, ResolvePath,
         SocketTypes
<1>7. NameInv'
  <2>1. /\ control_socket[e] = NoSock
        /\ \A q \in Path : names[q] # NoSock => names[q][1] \in Elements \ {e}
    BY <1>0, IdleHasNoName
  <2>2. ASSUME NEW f \in Elements PROVE NameOf(f)'
    <3>1. CASE f = e
      BY <1>2, <1>6, <2>1, <3>1 DEF NameOf, Building, Bound
    <3>2. CASE f # e
      BY <1>2, <1>6, <3>2 DEF PathInv, NameInv, NameOf, Building, Bound
    <3> QED
      BY <3>1, <3>2
  <2>3. ASSUME NEW q \in Path PROVE LeadsBack(q)'
    BY <1>2, <1>6, <2>1 DEF PathInv, NameInv, LeadsBack, Bound
  <2> QED
    BY <2>2, <2>3 DEF NameInv
<1> QED
  BY <1>5, <1>7

\* From bind() to unlink() the name of an element leads to its descriptor, and
\* whatever takes the descriptor away takes the name with it.
LEMMA NameStep ==
    ASSUME PathInv, NEW e \in Elements,
           \/ StartWithout(e) \/ Starting(e) \/ StopRequest(e) \/ Stopping(e)
           \/ ThreadStep(e)
    PROVE  PathsDiffer' /\ NameInv'
<1> DEFINE path == control_socket_path[e]
<1> USE DEF element, thread, kernel, AppTo
<1>0. /\ SocketTypes /\ ElementInv(e) /\ NameOf(e) /\ PathsDiffer
      /\ path \in Path => LeadsBack(path)
  BY DEF PathInv, SocketInv, NameInv
<1>1. Others(e)
  BY StartKeeps, StopKeeps, ThreadKeeps DEF PathInv
<1>2. /\ control_socket_path' = control_socket_path
      /\ control_socket_seq' = control_socket_seq
  BY DEF StartWithout, Starting, UnlinkStale, BindPath, BindFails, Listen,
         ListenFails, Publish, StopRequest, Stopping, Wake, Join, Unbind,
         ThreadStep, LoopTop, SelectTimeout, SelectReady, SelectFails, Accept,
         AcceptFails, Read, Respond
<1>3. PathsDiffer'
  BY <1>0, <1>2 DEF PathsDiffer
<1>4. \A p \in Path : p = path \/ names'[p] = names[p]
  BY <1>0 DEF SocketTypes, StartWithout, Starting, UnlinkStale, BindPath,
         BindFails, Listen, ListenFails, Publish, StopRequest, Stopping, Wake,
         Join, Unbind, RemoveName, Unlink, ThreadStep, LoopTop, SelectTimeout,
         SelectReady, SelectFails, Accept, AcceptFails, Read, Respond
<1>5. NameOf(e)' /\ (path \in Path => LeadsBack(path)')
  <2>1. path \in Path /\ names[path] # NoSock =>
            \/ names[path] = control_socket[e]
            \/ Bound(e) /\ names[path] = fd[e]
    <3> SUFFICES ASSUME path \in Path, names[path] # NoSock
                 PROVE  names[path][1] = e
      BY <1>0 DEF LeadsBack
    <3>1. names[path][1] \in Elements /\ path # NULL
      BY <1>0, SocketParts, NamesAssumption DEF SocketTypes
    <3> QED
      BY <1>0, <3>1 DEF LeadsBack, PathsDiffer
  <2>2. path # NULL => path \in Path
    BY <1>0 DEF SocketTypes
  \* The name stays, and so does what it leads to.
  <2>3. ASSUME names' = names, control_socket' = control_socket, fd' = fd,
               Building(e)' => Building(e), Bound(e)' <=> Bound(e)
        PROVE  NameOf(e)' /\ (path \in Path => LeadsBack(path)')
    <3>1. NameOf(e)'
      BY <1>0, <1>2, <2>3 DEF NameOf
    <3>2. path \in Path /\ names[path] # NoSock => names[path][1] = e
      BY <1>0, <2>1 DEF NameOf, ElementInv, Building, Bound
    <3>3. path \in Path => LeadsBack(path)'
      BY <1>2, <2>1, <2>3, <3>2 DEF LeadsBack
    <3> QED
      BY <3>1, <3>3
  \* The name is gone, and the element has no descriptor it led to.
  <2>4. ASSUME path # NULL => names'[path] = NoSock,
               control_socket'[e] = NoSock, Bound(e)' = FALSE,
               Building(e)' => Building(e)
        PROVE  NameOf(e)' /\ (path \in Path => LeadsBack(path)')
    <3>1. NameOf(e)'
      BY <1>0, <1>2, <2>4 DEF NameOf
    <3>2. path \in Path => LeadsBack(path)'
      BY <1>2, <2>4, NamesAssumption DEF LeadsBack
    <3> QED
      BY <3>1, <3>2
  <2>5. CASE StartWithout(e) \/ BindFails(e) \/ Listen(e) \/ StopRequest(e)
             \/ Wake(e) \/ Join(e)
    <3>1. /\ names' = names /\ control_socket' = control_socket /\ fd' = fd
          /\ Building(e)' => Building(e)
          /\ Bound(e)' <=> Bound(e)
      BY <1>0, <2>5 DEF SocketTypes, StartWithout, BindFails, Listen,
                        StopRequest, Wake, Join, Building, Bound
    <3> QED
      BY <2>3, <3>1
  <2>6. CASE ThreadStep(e)
    <3>1. /\ names' = names /\ control_socket' = control_socket /\ fd' = fd
          /\ Building(e)' => Building(e)
          /\ Bound(e)' <=> Bound(e)
      BY <2>6 DEF ThreadStep, LoopTop, SelectTimeout, SelectReady, SelectFails,
                  Accept, AcceptFails, Read, Respond, Building, Bound
    <3> QED
      BY <2>3, <3>1
  <2>7. CASE UnlinkStale(e) \/ ListenFails(e)
    <3>1. control_socket'[e] = NoSock /\ path # NULL
      BY <1>0, <2>7 DEF ElementInv, NameOf, Serving, Building, UnlinkStale,
                        ListenFails
    <3>2. names'[path] = NoSock
      BY <1>0, <2>2, <2>7, <3>1
         DEF SocketTypes, UnlinkStale, ListenFails, RemoveName, Unlink
    <3>3. Bound(e)' = FALSE /\ (Building(e)' => Building(e))
      BY <1>0, <2>7 DEF SocketTypes, UnlinkStale, ListenFails, Building, Bound
    <3> QED
      BY <2>4, <3>1, <3>2, <3>3
  <2>8. CASE BindPath(e)
    <3>1. /\ control_socket'[e] = NoSock /\ path # NULL
          /\ fd[e][1] = e
      BY <1>0, <2>8 DEF ElementInv, NameOf, Serving, Building, BindPath
    <3>2. /\ names'[path] = fd[e] /\ fd' = fd /\ appPc'[e] = "listen"
      BY <1>0, <2>2, <2>8, <3>1 DEF SocketTypes, BindPath
    <3> QED
      BY <1>2, <3>1, <3>2 DEF NameOf, LeadsBack, Bound
  <2>9. CASE Publish(e)
    <3>1. /\ path # NULL /\ names[path] = fd[e] /\ fd[e][1] = e
      BY <1>0, <2>9 DEF ElementInv, NameOf, Building, Bound, Publish
    <3>2. /\ names' = names /\ control_socket'[e] = fd[e]
          /\ appPc'[e] = "running"
      BY <1>0, <2>9 DEF SocketTypes, Publish
    <3> QED
      BY <1>2, <3>1, <3>2 DEF NameOf, LeadsBack, Bound, Building
  <2>10. CASE Unbind(e)
    <3>1. control_socket'[e] = NoSock
      BY <1>0, <2>10 DEF SocketTypes, Unbind, Invalidate
    <3>2. path # NULL => names'[path] = NoSock
      BY <1>0, <2>2, <2>10 DEF SocketTypes, Unbind, RemoveName, Unlink
    <3>3. Bound(e)' = FALSE /\ Building(e)' = FALSE
      BY <1>0, <2>10 DEF SocketTypes, Unbind, Building, Bound
    <3> QED
      BY <2>4, <3>1, <3>2, <3>3
  <2> QED
    BY <2>5, <2>6, <2>7, <2>8, <2>9, <2>10 DEF Starting, Stopping
<1> QED
  BY <1>1, <1>2, <1>3, <1>4, <1>5, NameFrame

-----------------------------------------------------------------------------
(* Theorems.                                                               *)

\* Every descriptor has one owner at every moment, whenever a system call
\* fails and wherever the app writes a path: start() until it publishes,
\* control_socket until unbind(), with the thread inside that span.
THEOREM DescriptorsAreKept == Spec => []SocketInv
<1>1. Init => SocketInv
  <2> SUFFICES ASSUME Init PROVE SocketInv
    OBVIOUS
  <2>1. binds \in [Elements -> 0..MaxBinds]
    BY CastsAssumption DEF Init
  <2>2. <<>> \in Seq(Clients \cup {Wakeup})
    BY EmptySeq
  <2>3. 0 <= Cardinality(Made)
    BY MadeIsFinite
  <2>4. SocketTypes
    BY <2>1, <2>2, <2>3 DEF Init, SocketTypes
  <2>5. ASSUME NEW e \in Elements PROVE ElementInv(e)
    BY DEF Init, ElementInv, Building, Serving
  <2>6. HeldInv
    BY DEF Init, HeldInv
  <2> QED
    BY <2>4, <2>5, <2>6 DEF SocketInv
<1>2. SocketInv /\ [Next]_vars => SocketInv'
  <2>1. CASE UNCHANGED vars
    BY <2>1 DEF vars, element, thread, kernel, SocketInv, SocketTypes, Made,
                ElementInv, HeldInv, Held, Building, Serving
  <2> QED
    BY <2>1, SocketStep
<1> QED
  BY <1>1, <1>2, PTL DEF Spec

\* The thread never selects on a descriptor that was closed under it, nor
\* finds one that is not a listening socket of its own element.
THEOREM DescriptorsAreAlive == Spec => []NoDeadDescriptor
<1>1. SocketInv => NoDeadDescriptor
  <2> SUFFICES ASSUME SocketInv PROVE NoDeadDescriptor
    OBVIOUS
  <2>1. \A s \in Socks : ToSet(backlog[s]) \subseteq Clients \cup {Wakeup}
    <3> SUFFICES ASSUME NEW s \in Socks, NEW i \in DOMAIN backlog[s]
                 PROVE  backlog[s][i] \in Clients \cup {Wakeup}
      BY DEF ToSet
    <3>1. backlog[s] \in Seq(Clients \cup {Wakeup})
      BY DEF SocketInv, SocketTypes
    <3> QED
      BY <3>1, ElementOfSeq, LenProperties
  <2>2. TypeOK
    BY <2>1, SeqIsBounded DEF SocketInv, SocketTypes, TypeOK
  <2>3. ASSUME NEW e \in Elements
        PROVE  /\ thr[e] \in {"select", "accept"} =>
                      sock[listen_fd[e]] = "listening"
               /\ control_socket[e] # NoSock =>
                      /\ control_socket[e][1] = e
                      /\ sock[control_socket[e]] = "listening"
    BY DEF SocketInv, ElementInv
  <2> QED
    BY <2>2, <2>3 DEF NoDeadDescriptor
<1> QED
  BY <1>1, DescriptorsAreKept, PTL

\* While no path changes under a bound socket, a name in the file system and
\* the descriptor it leads to come and go together.
THEOREM NamesAreKept ==
    ASSUME MidSession = FALSE PROVE Spec => []PathInv
<1>1. Init => PathsDiffer /\ NameInv
  BY DEF Init, PathsDiffer, NameInv, NameOf, LeadsBack, Building, Bound
<1>2. PathInv /\ [Next]_vars => PathsDiffer' /\ NameInv'
  <2> SUFFICES ASSUME PathInv, [Next]_vars PROVE PathsDiffer' /\ NameInv'
    OBVIOUS
  <2>1. ASSUME NEW e \in Elements, SetPath(e) \/ Resolving(e)
        PROVE  PathsDiffer' /\ NameInv'
    BY <2>1, PathStep
  <2>2. ASSUME NEW e \in Elements,
               \/ StartWithout(e) \/ Starting(e) \/ StopRequest(e)
               \/ Stopping(e) \/ ThreadStep(e)
        PROVE  PathsDiffer' /\ NameInv'
    BY <2>2, NameStep
  <2>3. CASE /\ UNCHANGED <<control_socket_path, control_socket_seq, names>>
             /\ UNCHANGED <<control_socket, appPc, fd>>
    BY <2>3 DEF PathInv, PathsDiffer, NameInv, NameOf, LeadsBack, Building,
                Bound
  <2>4. ASSUME NEW c \in Clients, Connect(c) \/ Send(c) \/ Hangup(c)
        PROVE  PathsDiffer' /\ NameInv'
    BY <2>3, <2>4 DEF Connect, Send, Hangup, element, thread
  <2>5. CASE UNCHANGED vars
    BY <2>3, <2>5 DEF vars, element, kernel
  <2> QED
    BY <2>1, <2>2, <2>4, <2>5 DEF Next, Resolving
<1> QED
  BY <1>1, <1>2, DescriptorsAreKept, PTL DEF Spec, PathInv

\* A stop() leaves no thread, no open socket and no name, whichever step of
\* the start() before it failed.
THEOREM StopLeavesNothing ==
    ASSUME MidSession = FALSE PROVE Spec => []StoppedLeavesNothing
<1>1. PathInv => StoppedLeavesNothing
  <2> SUFFICES ASSUME PathInv, NEW e \in Elements, appPc[e] = "stopped"
               PROVE  /\ thr[e] = "none"
                      /\ \A s \in Socks :
                             s[1] = e =>
                                 /\ sock[s] \notin {"open", "listening"}
                                 /\ \A p \in Path : names[p] # s
    BY DEF StoppedLeavesNothing
  <2>1. /\ control_socket[e] = NoSock /\ ~Building(e)
        /\ \A p \in Path : names[p] # NoSock => names[p][1] # e
    BY IdleHasNoName
  <2>2. thr[e] = "none"
    BY DEF PathInv, SocketInv, ElementInv, Serving
  <2>3. \A s \in Socks : s[1] = e => sock[s] \notin {"open", "listening"}
    BY <2>1, NamesAssumption DEF PathInv, SocketInv, HeldInv, Held
  <2>4. \A s \in Socks : s[1] = e => \A p \in Path : names[p] # s
    BY <2>1, NamesAssumption
  <2> QED
    BY <2>2, <2>3, <2>4
<1> QED
  BY <1>1, NamesAreKept, PTL

\* The control-socket-path property of a serving element leads to that
\* element, however many share the process and the default name.
THEOREM PathsReachServers ==
    ASSUME MidSession = FALSE PROVE Spec => []PathReachesServer
<1>1. PathInv => PathReachesServer
  BY DEF PathInv, SocketInv, ElementInv, NameInv, NameOf, Serving, Named,
         PathReachesServer
<1> QED
  BY <1>1, NamesAreKept, PTL
=============================================================================
