--------------------------- MODULE InstancesProofs ---------------------------
(***************************************************************************)
(* Theorems about Instances for any number of csa on a machine, any of     *)
(* which may share an interface, a socket and the tables.                  *)
(***************************************************************************)
EXTENDS Instances, TLAPS

\* When nothing runs, nothing is held, and what is there was left by the dead.
LEMMA TypeInit == Init => TypeOK
BY InstancesAssumption DEF Init, TypeOK

\* The end of a process leaves functions of the same kind.
LEMMA GoneKeepsTypes ==
  ASSUME TypeOK, NEW p \in Procs, Gone(p)
  PROVE  TypeOK'
<1>1. pc' = [pc EXCEPT ![p] = "down"]
  BY DEF Gone, Goto
<1>2. tun' = [t \in Tuns |-> IF tun[t] = p THEN Nobody ELSE tun[t]]
  BY DEF Gone
<1>3. table' = [x \in Tables |-> IF table[x] = p THEN Dead ELSE table[x]]
  BY DEF Gone, Orphaned, TypeOK
<1>4. file' = [x \in Sockets |-> IF file[x] = p THEN Dead ELSE file[x]]
  BY DEF Gone, Orphaned, TypeOK
<1> QED BY <1>1, <1>2, <1>3, <1>4 DEF TypeOK

\* Every step keeps the types.
LEMMA TypeStep == TypeOK /\ [Next]_vars => TypeOK'
<1> SUFFICES ASSUME TypeOK, [Next]_vars PROVE TypeOK'
  OBVIOUS
<1>1. ASSUME NEW p \in Procs, Open(p) PROVE TypeOK'
  BY <1>1 DEF Open, Goto, TypeOK
<1>2. ASSUME NEW p \in Procs, NEW k \in Kinds, PutUp(p, k) PROVE TypeOK'
  <2>1. PICK l \in {"nat", "stat", "release", "drop guard"} :
          /\ pc' = [pc EXCEPT ![p] = l] /\ UNCHANGED <<tun, file>>
          /\ table' \in {table, [table EXCEPT ![<<TableOf[p], k>>] = p]}
    BY <1>2 DEF PutUp, Goto
  <2>2. table' \in [Tables -> Procs \cup {Nobody, Dead}]
    BY <2>1 DEF TypeOK
  <2> QED BY <2>1, <2>2 DEF TypeOK
<1>3. ASSUME NEW p \in Procs, Stat(p) PROVE TypeOK'
  BY <1>3 DEF Stat, Goto, TypeOK
<1>4. ASSUME NEW p \in Procs, Dial(p) PROVE TypeOK'
  BY <1>4 DEF Dial, Goto, TypeOK
<1>5. ASSUME NEW p \in Procs, Remove(p) PROVE TypeOK'
  BY <1>5 DEF Remove, Goto, TypeOK
<1>6. ASSUME NEW p \in Procs, Bind(p) PROVE TypeOK'
  <2>1. PICK l \in {"chmod", "drop nat"} :
          /\ pc' = [pc EXCEPT ![p] = l] /\ UNCHANGED <<tun, table>>
          /\ file' \in {file, [file EXCEPT ![SocketOf[p]] = p]}
    BY <1>6 DEF Bind, Goto
  <2>2. file' \in [Sockets -> Procs \cup {Nobody, Dead}]
    BY <2>1 DEF TypeOK
  <2> QED BY <2>1, <2>2 DEF TypeOK
<1>7. ASSUME NEW p \in Procs, Chmod(p) PROVE TypeOK'
  BY <1>7 DEF Chmod, Goto, TypeOK
<1>8. ASSUME NEW p \in Procs, CloseSocket(p) PROVE TypeOK'
  BY <1>8 DEF CloseSocket, Goto, TypeOK
<1>9. ASSUME NEW p \in Procs, NEW k \in Kinds, TakeDown(p, k) PROVE TypeOK'
  BY <1>9 DEF TakeDown, Goto, TypeOK, Kinds, Tables
<1>10. ASSUME NEW p \in Procs, Gone(p) PROVE TypeOK'
  BY <1>10, GoneKeepsTypes
<1>11. CASE UNCHANGED vars
  BY <1>11 DEF vars, TypeOK
<1> QED
  BY <1>1, <1>2, <1>3, <1>4, <1>5, <1>6, <1>7, <1>8, <1>9, <1>10, <1>11
  DEF Next, Starting, Ending, Release, Kill

(***************************************************************************)
(* The variables have their types in every reachable state.                *)
(***************************************************************************)
THEOREM TypeCorrect == Spec => []TypeOK
<1> QED BY TypeInit, TypeStep, PTL DEF Spec

----------------------------------------------------------------------------
(***************************************************************************)
(* The inductive invariant.  A process that runs holds its interface, so   *)
(* of those that share it only one runs; a file a living process bound is  *)
(* that of its own path, and it listens.                                   *)
(***************************************************************************)
Held == \A p \in Procs : pc[p] # "down" => tun[TunOf[p]] = p

FilesAreOwn ==
  \A s \in Sockets, p \in Procs :
    file[s] = p => SocketOf[p] = s /\ Listening(p)

IInv == TypeOK /\ Held /\ FilesAreOwn
        /\ SocketIsServed /\ TablesAreHeld /\ OnlyDeadAtPath

\* A process that has put up its table of kind k and not yet taken it down.
Keeps(p, k) ==
  pc[p] \in {"stat", "dial", "remove", "bind", "chmod", "serve", "drop nat"}
           \cup (IF k = "guard" THEN {"nat", "drop guard"} ELSE {})

\* Two running processes that share a socket or the tables are one.
LEMMA OnlyOneRuns ==
  ASSUME SameConfig, Held, NEW p \in Procs, NEW q \in Procs,
         pc[p] # "down", pc[q] # "down",
         SocketOf[p] = SocketOf[q] \/ TableOf[p] = TableOf[q]
  PROVE  p = q
BY DEF SameConfig, Held

\* A step of one process that leaves the files, and does not stop listening,
\* leaves them with their owners; so does one that clears its own path.
LEMMA FilesLeft ==
  ASSUME TypeOK, FilesAreOwn, NEW p \in Procs, NEW l,
         pc' = [pc EXCEPT ![p] = l], file' = file,
         Listening(p) => l \in {"chmod", "serve"}
  PROVE  FilesAreOwn'
<1> SUFFICES ASSUME NEW s \in Sockets, NEW q \in Procs, file[s] = q
             PROVE  SocketOf[q] = s /\ pc'[q] \in {"chmod", "serve"}
  BY DEF FilesAreOwn, Listening
<1>1. SocketOf[q] = s /\ pc[q] \in {"chmod", "serve"}
  BY DEF FilesAreOwn, Listening
<1> QED BY <1>1 DEF Listening, TypeOK

LEMMA FilesCleared ==
  ASSUME TypeOK, FilesAreOwn, NEW p \in Procs, NEW l,
         pc' = [pc EXCEPT ![p] = l],
         file' = [file EXCEPT ![SocketOf[p]] = Nobody]
  PROVE  FilesAreOwn'
<1> SUFFICES ASSUME NEW s \in Sockets, NEW q \in Procs, file'[s] = q
             PROVE  SocketOf[q] = s /\ pc'[q] \in {"chmod", "serve"}
  BY DEF FilesAreOwn, Listening
<1>1. s # SocketOf[p] /\ file[s] = q
  BY InstancesAssumption DEF TypeOK
<1>2. SocketOf[q] = s /\ pc[q] \in {"chmod", "serve"}
  BY <1>1 DEF FilesAreOwn, Listening
<1> QED BY <1>1, <1>2 DEF TypeOK

\* The end of a process takes nothing from the others.
LEMMA GoneKeeps ==
  ASSUME IInv, NEW p \in Procs, Gone(p)
  PROVE  IInv'
<1> USE InstancesAssumption
<1>0. TypeOK /\ TypeOK'
  BY GoneKeepsTypes DEF IInv
<1>1. pc' = [pc EXCEPT ![p] = "down"]
  BY DEF Gone, Goto
<1>2. tun' = [t \in Tuns |-> IF tun[t] = p THEN Nobody ELSE tun[t]]
  BY DEF Gone
<1>3. table' = [x \in Tables |-> IF table[x] = p THEN Dead ELSE table[x]]
  BY <1>0 DEF Gone, Orphaned, TypeOK
<1>4. file' = [x \in Sockets |-> IF file[x] = p THEN Dead ELSE file[x]]
  BY <1>0 DEF Gone, Orphaned, TypeOK
<1>5. \A q \in Procs : /\ TunOf[q] \in Tuns /\ SocketOf[q] \in Sockets
                      /\ \A k \in Kinds : <<TableOf[q], k>> \in Tables
  BY DEF Tuns, Sockets, Tables
<1>6. \A q \in Procs : pc'[q] # "down" => q # p /\ pc'[q] = pc[q]
  BY <1>0, <1>1 DEF TypeOK
<1>7. Held'
  BY <1>2, <1>5, <1>6 DEF IInv, Held
<1>8. FilesAreOwn'
  <2> SUFFICES ASSUME NEW x \in Sockets, NEW q \in Procs, file'[x] = q
               PROVE  SocketOf[q] = x /\ pc'[q] \in {"chmod", "serve"}
    BY DEF FilesAreOwn, Listening
  <2>1. q # Dead /\ file[x] # p /\ file[x] = q
    BY <1>4
  <2>2. SocketOf[q] = x /\ pc[q] \in {"chmod", "serve"}
    BY <2>1 DEF IInv, FilesAreOwn, Listening
  <2>3. pc'[q] = pc[q]
    BY <1>0, <1>1, <2>1 DEF TypeOK
  <2> QED BY <2>2, <2>3
<1>9. SocketIsServed' /\ TablesAreHeld'
  BY <1>3, <1>4, <1>5, <1>6 DEF IInv, SocketIsServed, TablesAreHeld, Listening
<1>10. OnlyDeadAtPath'
  BY <1>4, <1>5, <1>6 DEF IInv, OnlyDeadAtPath
<1> QED BY <1>0, <1>7, <1>8, <1>9, <1>10 DEF IInv

\* Every step keeps it, for processes that share nothing but by their
\* configuration.
LEMMA IInvStep == SameConfig /\ IInv /\ [Next]_vars => IInv'
<1> SUFFICES ASSUME SameConfig, IInv, [Next]_vars PROVE IInv'
  OBVIOUS
<1> USE InstancesAssumption
<1>0. /\ TypeOK /\ TypeOK' /\ Held
      /\ \A q \in Procs : /\ TunOf[q] \in Tuns /\ SocketOf[q] \in Sockets
                          /\ \A k \in Kinds : <<TableOf[q], k>> \in Tables
  BY TypeStep DEF IInv, Tuns, Sockets, Tables
<1> USE <1>0
<1>1. \A p, q \in Procs :
        /\ pc[p] # "down" /\ pc[q] # "down"
        /\ SocketOf[p] = SocketOf[q] \/ TableOf[p] = TableOf[q]
        => p = q
  BY OnlyOneRuns
<1>2. ASSUME NEW p \in Procs, Open(p) PROVE IInv'
  <2>1. /\ pc[p] = "down" /\ tun[TunOf[p]] = Nobody
        /\ pc' = [pc EXCEPT ![p] = "guard"]
        /\ tun' = [tun EXCEPT ![TunOf[p]] = p]
        /\ UNCHANGED <<table, file>>
    BY <1>2 DEF Open, Goto
  <2>2. Held'
    <3> SUFFICES ASSUME NEW q \in Procs, pc'[q] # "down"
                 PROVE  tun'[TunOf[q]] = q
      BY DEF Held
    <3>1. CASE q = p
      BY <2>1, <3>1 DEF TypeOK
    <3>2. CASE q # p
      <4>1. pc[q] # "down"
        BY <2>1, <3>2 DEF TypeOK
      <4>2. tun[TunOf[q]] = q
        BY <4>1 DEF Held
      <4> QED BY <2>1, <4>2 DEF TypeOK
    <3> QED BY <3>1, <3>2
  <2>3. FilesAreOwn' /\ SocketIsServed' /\ TablesAreHeld'
    BY <2>1 DEF IInv, FilesAreOwn, SocketIsServed, TablesAreHeld, Listening, TypeOK
  <2>4. file[SocketOf[p]] \in {Nobody, Dead}
    <3> SUFFICES ASSUME NEW q \in Procs, file[SocketOf[p]] = q
                 PROVE  FALSE
      BY DEF TypeOK
    <3>1. SocketOf[q] = SocketOf[p] /\ pc[q] \in {"chmod", "serve"}
      BY DEF IInv, FilesAreOwn, Listening
    <3>2. TunOf[q] = TunOf[p] /\ tun[TunOf[q]] = q
      BY <3>1 DEF SameConfig, Held
    <3> QED BY <2>1, <3>2
  <2>5. OnlyDeadAtPath'
    BY <2>1, <2>4 DEF IInv, OnlyDeadAtPath, TypeOK
  <2> QED BY <2>2, <2>3, <2>5 DEF IInv
<1>3. ASSUME NEW p \in Procs, NEW k \in Kinds, PutUp(p, k) PROVE IInv'
  <2>1. PICK l \in {"nat", "stat", "release", "drop guard"} :
          /\ pc[p] = k /\ pc' = [pc EXCEPT ![p] = l]
          /\ \/ /\ table' = [table EXCEPT ![<<TableOf[p], k>>] = p]
                /\ l = IF k = "guard" THEN "nat" ELSE "stat"
             \/ /\ table' = table
                /\ l = IF k = "guard" THEN "release" ELSE "drop guard"
          /\ UNCHANGED <<tun, file>>
    BY <1>3 DEF PutUp, Goto
  <2>0. k \in {"guard", "nat"} /\ pc[p] \in {"guard", "nat"}
    BY <2>1 DEF Kinds
  <2>2. FilesAreOwn'
    BY <2>0, <2>1, FilesLeft DEF IInv, Listening
  <2>3. Held' /\ SocketIsServed'
    BY <2>0, <2>1 DEF IInv, Held, SocketIsServed, Listening, TypeOK
  <2>5. OnlyDeadAtPath'
    BY <2>0, <2>1 DEF IInv, OnlyDeadAtPath, TypeOK
  <2>4. TablesAreHeld'
    <3> SUFFICES ASSUME NEW q \in Procs, NEW h \in Kinds, Keeps(q, h)'
                 PROVE  table'[<<TableOf[q], h>>] = q
      BY DEF TablesAreHeld, Keeps
    <3>1. CASE q = p /\ h = k
      BY <2>0, <2>1, <3>1 DEF TypeOK, Keeps
    <3>2. CASE q = p /\ h # k
      <4>1. h = "guard" /\ k = "nat" /\ pc[p] = "nat"
        BY <2>0, <2>1, <3>2 DEF TypeOK, Keeps, Kinds
      <4>2. table[<<TableOf[p], h>>] = p
        BY <4>1 DEF IInv, TablesAreHeld
      <4> QED BY <2>1, <3>2, <4>2 DEF TypeOK
    <3>3. CASE q # p
      <4>1. Keeps(q, h) /\ pc[q] # "down"
        BY <2>1, <3>3 DEF TypeOK, Keeps
      <4>2. TableOf[q] # TableOf[p]
        BY <1>1, <2>0, <3>3, <4>1
      <4>3. table[<<TableOf[q], h>>] = q
        BY <4>1 DEF IInv, TablesAreHeld, Keeps
      <4> QED BY <2>1, <4>2, <4>3 DEF TypeOK
    <3> QED BY <3>1, <3>2, <3>3
  <2> QED BY <2>2, <2>3, <2>4, <2>5 DEF IInv
<1>4. ASSUME NEW p \in Procs, Stat(p) \/ Dial(p) PROVE IInv'
  <2>1. PICK l \in {"bind", "dial", "remove", "drop nat"} :
          /\ pc[p] \in {"stat", "dial"} /\ pc' = [pc EXCEPT ![p] = l]
          /\ UNCHANGED <<tun, table, file>>
    BY <1>4 DEF Stat, Dial, Goto
  <2>2. FilesAreOwn'
    BY <2>1, FilesLeft DEF IInv, Listening
  <2>5. Held' /\ SocketIsServed' /\ TablesAreHeld'
    BY <2>1 DEF IInv, Held, SocketIsServed, TablesAreHeld, Listening, TypeOK
  <2>4. OnlyDeadAtPath'
    BY <2>1 DEF IInv, OnlyDeadAtPath, TypeOK
  <2> QED BY <2>2, <2>4, <2>5 DEF IInv
<1>5. ASSUME NEW p \in Procs, Remove(p) \/ CloseSocket(p) PROVE IInv'
  <2>1. PICK l \in {"bind", "drop nat"} :
          /\ pc[p] \in {"remove", "serve"} /\ pc' = [pc EXCEPT ![p] = l]
          /\ \/ file' = [file EXCEPT ![SocketOf[p]] = Nobody]
             \/ pc[p] = "remove" /\ file' = file
          /\ UNCHANGED <<tun, table>>
    BY <1>5 DEF Remove, CloseSocket, Goto
  <2>2. Held' /\ TablesAreHeld'
    BY <2>1 DEF IInv, Held, TablesAreHeld, TypeOK
  <2>3. FilesAreOwn'
    BY <2>1, FilesLeft, FilesCleared DEF IInv, Listening
  <2>4. SocketIsServed'
    <3> SUFFICES ASSUME NEW q \in Procs, pc'[q] \in {"chmod", "serve"}
                 PROVE  file'[SocketOf[q]] = q
      BY DEF SocketIsServed, Listening
    <3>1. q # p /\ pc[q] \in {"chmod", "serve"}
      BY <2>1 DEF TypeOK
    <3>2. SocketOf[q] # SocketOf[p] /\ file[SocketOf[q]] = q
      BY <1>1, <2>1, <3>1 DEF IInv, SocketIsServed, Listening
    <3> QED BY <2>1, <3>2 DEF TypeOK
  <2>5. OnlyDeadAtPath'
    BY <2>1 DEF IInv, OnlyDeadAtPath, TypeOK
  <2> QED BY <2>2, <2>3, <2>4, <2>5 DEF IInv
<1>6. ASSUME NEW p \in Procs, Bind(p) PROVE IInv'
  <2>1. /\ pc[p] = "bind" /\ UNCHANGED <<tun, table>>
        /\ \/ /\ pc' = [pc EXCEPT ![p] = "chmod"]
              /\ file' = [file EXCEPT ![SocketOf[p]] = p]
           \/ pc' = [pc EXCEPT ![p] = "drop nat"] /\ file' = file
    BY <1>6 DEF Bind, Goto
  <2>2. \A q \in Procs : IF q = p THEN pc'[q] \in {"chmod", "drop nat"}
                                   ELSE pc'[q] = pc[q]
    BY <2>1 DEF TypeOK
  <2>3. Held'
    BY <2>1, <2>2 DEF IInv, Held
  <2>4. TablesAreHeld'
    BY <2>1, <2>2 DEF IInv, TablesAreHeld
  <2>5. FilesAreOwn'
    <3>0. CASE file' = file
      BY <2>1, <3>0, FilesLeft DEF IInv, Listening, TypeOK
    <3> SUFFICES ASSUME file' # file,
                        NEW s \in Sockets, NEW q \in Procs, file'[s] = q
                 PROVE  SocketOf[q] = s /\ pc'[q] \in {"chmod", "serve"}
      BY <3>0 DEF FilesAreOwn, Listening
    <3>1. CASE s = SocketOf[p]
      BY <2>1, <3>1 DEF TypeOK
    <3>2. CASE s # SocketOf[p]
      <4>1. file[s] = q
        BY <2>1, <3>2 DEF TypeOK
      <4>2. SocketOf[q] = s /\ pc[q] \in {"chmod", "serve"}
        BY <4>1 DEF IInv, FilesAreOwn, Listening
      <4> QED BY <2>1, <3>2, <4>2 DEF TypeOK
    <3> QED BY <3>1, <3>2
  <2>6. SocketIsServed'
    BY <1>1, <2>1 DEF IInv, SocketIsServed, Listening, TypeOK
  <2>7. OnlyDeadAtPath'
    <3> SUFFICES ASSUME NEW q \in Procs,
                        pc'[q] \in {"guard", "nat", "stat", "dial", "remove", "bind"}
                 PROVE  file'[SocketOf[q]] \in {Nobody, Dead}
      BY DEF OnlyDeadAtPath
    <3>1. q # p /\ pc[q] = pc'[q]
      BY <2>2
    <3>2. SocketOf[q] # SocketOf[p] /\ file[SocketOf[q]] \in {Nobody, Dead}
      BY <1>1, <2>1, <3>1 DEF IInv, OnlyDeadAtPath
    <3> QED BY <2>1, <3>2 DEF TypeOK
  <2> QED BY <2>4, <2>5, <2>6, <2>7, <2>3 DEF IInv
<1>7. ASSUME NEW p \in Procs, Chmod(p) PROVE IInv'
  <2>1. PICK l \in {"serve", "drop nat"} :
          /\ pc[p] = "chmod" /\ pc' = [pc EXCEPT ![p] = l]
          /\ l = "serve" => file' = file
          /\ l = "drop nat" => file' = [file EXCEPT ![SocketOf[p]] = Nobody]
          /\ UNCHANGED <<tun, table>>
    BY <1>7 DEF Chmod, Goto
  <2>2. Held' /\ TablesAreHeld' /\ OnlyDeadAtPath'
    <3>1. Held' /\ TablesAreHeld'
      BY <2>1 DEF IInv, Held, TablesAreHeld, TypeOK
    <3>2. OnlyDeadAtPath'
      BY <2>1 DEF IInv, OnlyDeadAtPath, TypeOK
    <3> QED BY <3>1, <3>2
  <2>3. FilesAreOwn'
    BY <2>1, FilesLeft, FilesCleared DEF IInv
  <2>4. SocketIsServed'
    <3> SUFFICES ASSUME NEW q \in Procs, pc'[q] \in {"chmod", "serve"}
                 PROVE  file'[SocketOf[q]] = q
      BY DEF SocketIsServed, Listening
    <3>1. pc[q] \in {"chmod", "serve"} /\ (q = p => l = "serve")
      BY <2>1 DEF IInv, TypeOK
    <3>2. file[SocketOf[q]] = q
      BY <3>1 DEF IInv, SocketIsServed, Listening
    <3>3. CASE l = "serve"
      BY <2>1, <3>2, <3>3
    <3>4. CASE l = "drop nat"
      <4>1. q # p /\ file[SocketOf[p]] = p
        BY <2>1, <3>1, <3>4 DEF IInv, SocketIsServed, Listening
      <4>2. SocketOf[q] # SocketOf[p]
        BY <3>2, <4>1
      <4> QED BY <2>1, <3>2, <3>4, <4>2 DEF IInv, TypeOK
    <3> QED BY <3>3, <3>4
  <2> QED BY <2>2, <2>3, <2>4 DEF IInv
<1>8. ASSUME NEW p \in Procs, NEW k \in Kinds, TakeDown(p, k) PROVE IInv'
  <2>1. PICK l \in {"drop guard", "release"} :
          /\ pc[p] = IF k = "guard" THEN "drop guard" ELSE "drop nat"
          /\ pc' = [pc EXCEPT ![p] = l]
          /\ l = IF k = "guard" THEN "release" ELSE "drop guard"
          /\ table' \in {table, [table EXCEPT ![<<TableOf[p], k>>] = Nobody]}
          /\ UNCHANGED <<tun, file>>
    BY <1>8 DEF TakeDown, Goto
  <2>0. k \in {"guard", "nat"} /\ pc[p] \in {"drop guard", "drop nat"}
    BY <2>1 DEF Kinds
  <2>2. FilesAreOwn'
    BY <2>0, <2>1, FilesLeft DEF IInv, Listening
  <2>3. Held' /\ SocketIsServed' /\ OnlyDeadAtPath'
    BY <2>0, <2>1 DEF IInv, Held, SocketIsServed, OnlyDeadAtPath, Listening, TypeOK
  <2>4. TablesAreHeld'
    <3> SUFFICES ASSUME NEW q \in Procs, NEW h \in Kinds, Keeps(q, h)'
                 PROVE  table'[<<TableOf[q], h>>] = q
      BY DEF TablesAreHeld, Keeps
    <3>1. CASE q = p
      <4>1. h = "guard" /\ k = "nat" /\ pc[p] = "drop nat"
        BY <2>0, <2>1, <3>1 DEF TypeOK, Keeps, Kinds
      <4>2. table[<<TableOf[p], h>>] = p
        BY <4>1 DEF IInv, TablesAreHeld
      <4>3. <<TableOf[p], k>> # <<TableOf[p], h>>
        BY <4>1
      <4>4. table'[<<TableOf[p], h>>] = table[<<TableOf[p], h>>]
        BY <2>1, <4>3 DEF TypeOK
      <4> QED BY <3>1, <4>2, <4>4
    <3>2. CASE q # p
      <4>1. Keeps(q, h) /\ pc[q] # "down"
        BY <2>1, <3>2 DEF TypeOK, Keeps
      <4>2. TableOf[q] # TableOf[p]
        BY <1>1, <2>0, <3>2, <4>1
      <4>3. table[<<TableOf[q], h>>] = q
        BY <4>1 DEF IInv, TablesAreHeld, Keeps
      <4> QED BY <2>1, <4>2, <4>3 DEF TypeOK
    <3> QED BY <3>1, <3>2
  <2> QED BY <2>2, <2>3, <2>4 DEF IInv
<1>9. ASSUME NEW p \in Procs, Gone(p) PROVE IInv'
  BY <1>9, GoneKeeps
<1>10. CASE UNCHANGED vars
  BY <1>10 DEF vars, IInv, TypeOK, Held, FilesAreOwn, SocketIsServed,
               TablesAreHeld, OnlyDeadAtPath, Listening
<1> QED
  BY <1>2, <1>3, <1>4, <1>5, <1>6, <1>7, <1>8, <1>9, <1>10
  DEF Next, Starting, Ending, Release, Kill

\* In every reachable state of such processes.
LEMMA IInvAlways ==
  ASSUME SameConfig
  PROVE  Spec => []IInv
<1>1. Init => IInv
  <2>1. Init => /\ \A p \in Procs : pc[p] = "down"
                /\ \A s \in Sockets : file[s] \in {Nobody, Dead}
    BY DEF Init
  <2> QED BY <2>1, TypeInit, InstancesAssumption
          DEF IInv, Held, FilesAreOwn, SocketIsServed, TablesAreHeld,
              OnlyDeadAtPath, Listening
<1>2. IInv /\ [Next]_vars => IInv'
  BY IInvStep
<1> QED BY <1>1, <1>2, PTL DEF Spec

(***************************************************************************)
(* For csa that share a socket or the tables only by their configuration,  *)
(* however many are started: the one that serves is the one at its path    *)
(* (control.go:38-78).                                                     *)
(***************************************************************************)
THEOREM SocketIsServedAlways ==
  ASSUME SameConfig
  PROVE  Spec => []SocketIsServed
<1>1. IInv => SocketIsServed
  BY DEF IInv
<1> QED BY <1>1, IInvAlways, PTL

(***************************************************************************)
(* For the same: no other csa takes or deletes the tables of one that runs *)
(* (the order of main.go:172-187 and of its deferred calls).               *)
(***************************************************************************)
THEOREM TablesAreHeldAlways ==
  ASSUME SameConfig
  PROVE  Spec => []TablesAreHeld
<1>1. IInv => TablesAreHeld
  BY DEF IInv
<1> QED BY <1>1, IInvAlways, PTL

(***************************************************************************)
(* For the same: a start meets and removes only what a dead csa left,      *)
(* whichever of its calls fail (control.go:42-49, 59-71).                  *)
(***************************************************************************)
THEOREM OnlyDeadAtPathAlways ==
  ASSUME SameConfig
  PROVE  Spec => []OnlyDeadAtPath
<1>1. IInv => OnlyDeadAtPath
  BY DEF IInv
<1> QED BY <1>1, IInvAlways, PTL
=============================================================================
