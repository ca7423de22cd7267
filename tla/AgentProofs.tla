----------------------------- MODULE AgentProofs -----------------------------
(***************************************************************************)
(* Theorems about Agent for any versions, any rulesets and any number of   *)
(* reloads in progress at once.                                            *)
(***************************************************************************)
EXTENDS Agent, TLAPS

Reloading == [pc : {"idle", "accepted", "compare", "check", "was", "ipc",
                    "rules", "snap", "guard", "nat", "answer"},
              cur : Valid \cup {NoVersion}, old : Versions \cup {NoVersion},
              was : Versions \cup {NoVersion}, undo : BOOLEAN, failed : BOOLEAN]

Applying == {"was", "ipc", "rules", "snap", "guard", "nat"}

\* A reload r, in a csa that was started with the identity s: it compares
\* with s before it applies, and nothing that policy.New refuses is stored.
InStep(r, s) ==
  /\ r.pc \notin {"idle", "accepted"} => r.cur \in Valid
  /\ r.pc \in Applying \cup {"check", "answer"} => SelfOf[r.cur] = s
  /\ r.pc \in Applying => r.old \in Valid \cap Builds /\ SelfOf[r.old] = s
  /\ r.pc \in {"ipc", "rules", "snap"} =>
       (IF r.undo THEN r.old ELSE r.cur) \in Builds
  /\ r.pc \in {"guard", "nat", "answer"} /\ ~ r.undo => r.cur \in Builds

AllInStep == \A h \in Handlers : InStep(hd[h], SelfOf[live])

OneSelf == Running => SelfOf[policy] = SelfOf[live] /\ SelfOf[snap] = SelfOf[live]

\* A reload belongs to a process.
InProcess == \A h \in Handlers : hd[h].pc # "idle" => Running

\* How csa ends is known before its deferred calls run; a mixed end keeps.
Ending ==
  /\ main \in {"close socket", "close nat", "close guard", "exit"} =>
       ended \in {"stopped", "failed", "mixed", "undeleted"}
  /\ Running /\ ended = "mixed" =>
       /\ main \in {"close socket", "close nat", "close guard", "exit"}
       /\ \A g \in Gates : objs[g].keep

\* The gates that have been put up and are not to be taken down.
Up(g) == \/ main \in {"listen", "wait", "close socket"}
         \/ main = "nat" /\ g = "guard"
         \/ Running /\ ended = "mixed"

UpStays == \A g \in Gates : Up(g) /\ Wants[g][live] # NoTable => tables[g] # NoTable

IInv == TypeOK /\ AllInStep /\ OneSelf /\ InProcess /\ Ending /\ UpStays

\* Versions of one identity agree on which tables there are.
LEMMA SameSelfSameGates ==
  ASSUME NEW v \in Versions, NEW w \in Versions, SelfOf[v] = SelfOf[w],
         NEW g \in Gates
  PROVE  Wants[g][v] = NoTable <=> Wants[g][w] = NoTable
BY AgentAssumption

LEMMA WantsTyped ==
  ASSUME NEW v \in Versions, NEW g \in Gates
  PROVE  Wants[g][v] \in Rulesets \cup {NoTable}
BY AgentAssumption

(***************************************************************************)
(* What Apply and Close leave.                                             *)
(***************************************************************************)
LEMMA ObjectChanges ==
  ASSUME NEW o \in Object, NEW a \in BOOLEAN, NEW b \in BOOLEAN
  PROVE  /\ [o EXCEPT !.on = a, !.unchecked = b] \in Object
         /\ [o EXCEPT !.unchecked = b] \in Object
         /\ [o EXCEPT !.on = a] \in Object
         /\ [o EXCEPT !.keep = a] \in Object
         /\ [o EXCEPT !.on = a, !.unchecked = b].keep = o.keep
         /\ [o EXCEPT !.unchecked = b].keep = o.keep
         /\ [o EXCEPT !.on = a].keep = o.keep
BY Zenon DEF Object

\* What the two need of a result: the object o became x, the table u.
LEMMA ResultFacts ==
  ASSUME NEW o \in Object, NEW x \in Object, x.keep = o.keep,
         NEW u \in Rulesets \cup {NoTable}, NEW k \in BOOLEAN,
         NEW r, r = [obj |-> x, table |-> u, ok |-> k]
  PROVE  /\ r.obj \in Object /\ r.obj.keep = o.keep
         /\ r.table = u /\ r.ok = k
<1>1. r.obj = x /\ r.table = u /\ r.ok = k
  BY Zenon
<1> QED BY <1>1, Zenon

LEMMA AppliedFacts ==
  ASSUME NEW o \in Object, NEW t \in Rulesets \cup {NoTable},
         NEW w \in Rulesets \cup {NoTable}, NEW r, r \in Applied(o, t, w)
  PROVE  /\ r.obj \in Object /\ r.table \in Rulesets \cup {NoTable}
         /\ r.obj.keep = o.keep
         /\ w # NoTable /\ t # NoTable => r.table # NoTable
         /\ w # NoTable /\ r.ok => r.table # NoTable
<1>1. CASE w = NoTable
  <2>1. \/ r = [obj |-> [o EXCEPT !.on = FALSE, !.unchecked = TRUE], table |-> t, ok |-> TRUE]
        \/ r = [obj |-> o, table |-> t, ok |-> FALSE]
        \/ r = [obj |-> [o EXCEPT !.on = FALSE, !.unchecked = FALSE],
                table |-> NoTable, ok |-> TRUE]
    BY <1>1, Zenon DEF Applied, Removed
  <2>2. /\ [o EXCEPT !.on = FALSE, !.unchecked = TRUE] \in Object
        /\ [o EXCEPT !.on = FALSE, !.unchecked = FALSE] \in Object
        /\ [o EXCEPT !.on = FALSE, !.unchecked = TRUE].keep = o.keep
        /\ [o EXCEPT !.on = FALSE, !.unchecked = FALSE].keep = o.keep
    BY ObjectChanges
  <2>3. PICK x \in Object, u \in {t, NoTable}, k \in BOOLEAN :
          x.keep = o.keep /\ r = [obj |-> x, table |-> u, ok |-> k]
    BY <2>1, <2>2, Zenon
  <2> QED BY <1>1, <2>3, ResultFacts
<1>2. CASE w # NoTable
  <2>1. \/ r = [obj |-> o, table |-> t, ok |-> FALSE]
        \/ r = [obj |-> [o EXCEPT !.unchecked = FALSE], table |-> t, ok |-> FALSE]
        \/ r = [obj |-> [o EXCEPT !.on = TRUE, !.unchecked = FALSE], table |-> w, ok |-> TRUE]
    BY <1>2, Zenon DEF Applied
  <2>2. /\ [o EXCEPT !.unchecked = FALSE] \in Object
        /\ [o EXCEPT !.on = TRUE, !.unchecked = FALSE] \in Object
        /\ [o EXCEPT !.unchecked = FALSE].keep = o.keep
        /\ [o EXCEPT !.on = TRUE, !.unchecked = FALSE].keep = o.keep
    BY ObjectChanges
  <2>3. PICK x \in Object, u \in {t, w}, k \in BOOLEAN :
          /\ x.keep = o.keep /\ r = [obj |-> x, table |-> u, ok |-> k]
          /\ k => u = w
    BY <2>1, <2>2, Zenon
  <2> QED BY <1>2, <2>3, ResultFacts
<1> QED BY <1>1, <1>2

LEMMA ClosedFacts ==
  ASSUME NEW o \in Object, NEW t \in Rulesets \cup {NoTable},
         NEW r, r \in Closed(o, t)
  PROVE  /\ r.obj \in Object /\ r.table \in Rulesets \cup {NoTable}
         /\ r.obj.keep = o.keep
         /\ o.keep => r.table = t /\ r.ok
         /\ r.table # t => o.on
<1>1. CASE ~ o.on \/ o.keep
  <2>1. r = [obj |-> o, table |-> t, ok |-> TRUE]
    BY <1>1, Zenon DEF Closed
  <2> QED BY <2>1, Zenon
<1>2. CASE o.on /\ ~ o.keep
  <2>1. \/ r = [obj |-> o, table |-> t, ok |-> FALSE]
        \/ r = [obj |-> [o EXCEPT !.on = FALSE], table |-> NoTable, ok |-> TRUE]
    BY <1>2, Zenon DEF Closed
  <2>2. [o EXCEPT !.on = FALSE] \in Object /\ [o EXCEPT !.on = FALSE].keep = o.keep
    BY ObjectChanges
  <2>3. PICK x \in Object, u \in {t, NoTable}, k \in BOOLEAN :
          x.keep = o.keep /\ r = [obj |-> x, table |-> u, ok |-> k]
    BY <2>1, <2>2, Zenon
  <2> QED BY <1>2, <2>3, ResultFacts
<1> QED BY <1>1, <1>2

LEMMA NewIsObject == New \in Object /\ ~ New.keep
BY DEF New, Object

LEMMA IdleIsReloading == Idle \in Reloading
BY DEF Idle, Reloading

LEMMA IdleInStep ==
  ASSUME NEW s PROVE InStep(Idle, s)
BY DEF Idle, InStep, Applying

LEMMA InitIInv == Init => IInv
<1> SUFFICES ASSUME Init PROVE IInv
  OBVIOUS
<1>1. TypeOK
  <2>1. hd \in [Handlers -> Reloading] /\ objs \in [Gates -> Object]
    BY NewIsObject, IdleIsReloading DEF Init
  <2> QED BY <2>1 DEF Init, TypeOK, Reloading, Running
<1>2. AllInStep /\ InProcess
  BY IdleInStep DEF Init, AllInStep, InProcess, Idle
<1>3. OneSelf /\ Ending /\ UpStays
  BY DEF Init, OneSelf, Ending, UpStays, Up, Running
<1> QED BY <1>1, <1>2, <1>3 DEF IInv

----------------------------------------------------------------------------
(***************************************************************************)
(* The reloads.                                                            *)
(***************************************************************************)
Places == {"idle", "accepted", "compare", "check", "was", "ipc", "rules",
           "snap", "guard", "nat", "answer"}

LEMMA ReloadingChanges ==
  ASSUME NEW r \in Reloading, NEW l \in Places, NEW v \in Versions
  PROVE  /\ [r EXCEPT !.pc = l] \in Reloading
         /\ [r EXCEPT !.pc = l, !.old = v] \in Reloading
         /\ [r EXCEPT !.pc = l, !.was = v] \in Reloading
         /\ [r EXCEPT !.failed = TRUE, !.pc = l] \in Reloading
         /\ [r EXCEPT !.undo = TRUE, !.pc = l] \in Reloading
         /\ v \in Valid => [r EXCEPT !.pc = l, !.cur = v] \in Reloading
BY Zenon DEF Reloading, Places

\* One reload goes on, and stays in step with the identity csa has.
LEMMA OneReload ==
  ASSUME IInv, Running, NEW h \in Handlers, NEW r \in Reloading,
         InStep(r, SelfOf[live]), hd' = [hd EXCEPT ![h] = r],
         main' = main, SelfOf[live'] = SelfOf[live]
  PROVE  hd' \in [Handlers -> Reloading] /\ AllInStep' /\ InProcess'
<1>1. hd \in [Handlers -> Reloading] /\ AllInStep /\ InProcess
  BY DEF IInv, TypeOK, Reloading
<1>2. hd' \in [Handlers -> Reloading]
  BY <1>1
<1>3. \A k \in Handlers : hd'[k] = IF k = h THEN r ELSE hd[k]
  BY <1>1
<1>4. AllInStep'
  BY <1>1, <1>3 DEF AllInStep, InStep
<1>5. InProcess'
  BY <1>1 DEF InProcess, Running
<1> QED BY <1>2, <1>4, <1>5

\* ... and touches nothing else.
LEMMA QuietReload ==
  ASSUME IInv, Running, NEW h \in Handlers, NEW r \in Reloading,
         InStep(r, SelfOf[live]), hd' = [hd EXCEPT ![h] = r],
         UNCHANGED <<disk, main, live, device, gates, mixed, ended>>
  PROVE  IInv'
<1> USE DEF device, gates
<1>1. hd' \in [Handlers -> Reloading] /\ AllInStep' /\ InProcess'
  BY OneReload
<1>2. TypeOK'
  BY <1>1 DEF IInv, TypeOK, Reloading, Running
<1>3. OneSelf' /\ Ending' /\ UpStays'
  BY DEF IInv, OneSelf, Ending, UpStays, Up, Running
<1> QED BY <1>1, <1>2, <1>3 DEF IInv

\* What a reload that is past its comparison knows of its target.
LEMMA TargetFacts ==
  ASSUME IInv, NEW h \in Handlers, hd[h].pc \in Applying
  PROVE  /\ Running /\ Target(h) \in Valid /\ Target(h) \in Versions
         /\ SelfOf[Target(h)] = SelfOf[live] /\ live \in Versions
         /\ hd[h] \in Reloading /\ InStep(hd[h], SelfOf[live])
         /\ hd[h].pc \in {"ipc", "rules", "snap"} => Target(h) \in Builds
<1>1. /\ hd[h] \in Reloading /\ InStep(hd[h], SelfOf[live]) /\ Running
      /\ live \in Valid \cap Builds
  BY DEF IInv, TypeOK, AllInStep, InProcess, Reloading, Applying
<1> QED BY <1>1, AgentAssumption DEF InStep, Target, Applying

\* A failure turns the reload back, or is noted.
LEMMA FailInStep ==
  ASSUME IInv, NEW h \in Handlers, hd[h].pc \in Applying,
         NEW next \in {"guard", "nat", "answer"}, Fail(h, next)
  PROVE  \E r \in Reloading : /\ hd' = [hd EXCEPT ![h] = r]
                               /\ InStep(r, SelfOf[live])
<1>1. /\ hd[h] \in Reloading /\ InStep(hd[h], SelfOf[live])
      /\ NoVersion \notin Versions /\ live \in Versions
  BY TargetFacts, AgentAssumption
<1>2. CASE hd[h].undo
  <2> DEFINE r == [hd[h] EXCEPT !.failed = TRUE, !.pc = next]
  <2>1. hd' = [hd EXCEPT ![h] = r]
    BY <1>2 DEF Fail
  <2>2. r \in Reloading
    BY <1>1, ReloadingChanges DEF Places
  <2>3. r.pc = next /\ r.cur = hd[h].cur /\ r.old = hd[h].old /\ r.undo
    BY <1>1, <1>2 DEF Reloading
  <2>4. InStep(r, SelfOf[live])
    BY <1>1, <2>3 DEF InStep, Applying
  <2> QED BY <2>1, <2>2, <2>4
<1>3. CASE ~ hd[h].undo
  <2> DEFINE r == [hd[h] EXCEPT !.undo = TRUE, !.pc = "was"]
  <2>1. hd' = [hd EXCEPT ![h] = r]
    BY <1>3 DEF Fail
  <2>2. r \in Reloading
    BY <1>1, ReloadingChanges DEF Places
  <2>3. r.pc = "was" /\ r.cur = hd[h].cur /\ r.old = hd[h].old
    BY <1>1 DEF Reloading
  <2>4. InStep(r, SelfOf[live])
    BY <1>1, <2>3 DEF InStep, Applying
  <2> QED BY <2>1, <2>2, <2>4
<1> QED BY <1>2, <1>3

\* A step from one place of a reload to the next.
LEMMA GotoInStep ==
  ASSUME IInv, NEW h \in Handlers, hd[h].pc \in Applying,
         NEW l \in {"rules", "snap", "guard", "nat", "answer"}, Goto(h, l),
         l \in {"rules", "snap"} => Target(h) \in Builds,
         l \in {"guard", "nat", "answer"} /\ ~ hd[h].undo => hd[h].cur \in Builds
  PROVE  \E r \in Reloading : /\ hd' = [hd EXCEPT ![h] = r]
                               /\ InStep(r, SelfOf[live])
<1> DEFINE r == [hd[h] EXCEPT !.pc = l]
<1>1. /\ hd[h] \in Reloading /\ InStep(hd[h], SelfOf[live])
      /\ live \in Versions
  BY TargetFacts
<1>2. hd' = [hd EXCEPT ![h] = r]
  BY DEF Goto
<1>3. r \in Reloading
  BY <1>1, ReloadingChanges DEF Places
<1>4. r.pc = l /\ r.cur = hd[h].cur /\ r.old = hd[h].old /\ r.undo = hd[h].undo
  BY <1>1 DEF Reloading
<1>5. InStep(r, SelfOf[live])
  BY <1>1, <1>4 DEF InStep, Applying, Target
<1> QED BY <1>2, <1>3, <1>5

\* Before a reload applies anything: the request, the comparison, the checks.
LEMMA EarlySteps ==
  ASSUME IInv, NEW h \in Handlers, Accept(h) \/ Ask(h) \/ Compare(h) \/ Check(h)
  PROVE  IInv'
<1>1. /\ hd[h] \in Reloading /\ InStep(hd[h], SelfOf[live])
      /\ hd[h].pc # "idle" => Running
      /\ live \in IF Running THEN Valid \cap Builds ELSE {NoVersion}
      /\ Valid \subseteq Versions /\ disk \in Versions
  BY AgentAssumption DEF IInv, TypeOK, AllInStep, InProcess, Reloading
<1> USE DEF device, gates
<1>2. CASE Accept(h)
  <2> DEFINE r == [hd[h] EXCEPT !.pc = "accepted"]
  <2>1. hd' = [hd EXCEPT ![h] = r] /\ Running
    BY <1>2 DEF Accept, Goto, Serving, Running
  <2>2. r \in Reloading
    BY <1>1, ReloadingChanges DEF Places
  <2>3. r.pc = "accepted"
    BY <1>1 DEF Reloading
  <2>4. InStep(r, SelfOf[live])
    BY <1>1, <2>3 DEF InStep, Applying
  <2> HIDE DEF r
  <2> QED BY <1>2, <2>1, <2>2, <2>4, QuietReload DEF Accept
<1>3. ASSUME Ask(h), hd' = [hd EXCEPT ![h].pc = "compare", ![h].cur = disk], disk \in Valid
      PROVE  IInv'
  <2> DEFINE r == [hd[h] EXCEPT !.pc = "compare", !.cur = disk]
  <2>1. hd' = [hd EXCEPT ![h] = r] /\ Running /\ disk \in Valid
    BY <1>3 DEF Ask, At, Running
  <2>2. r \in Reloading
    BY <1>1, <2>1, ReloadingChanges DEF Places
  <2>3. r.pc = "compare" /\ r.cur = disk
    BY <1>1 DEF Reloading
  <2>4. InStep(r, SelfOf[live])
    BY <2>1, <2>3 DEF InStep, Applying
  <2> HIDE DEF r
  <2> QED BY <1>3, <2>1, <2>2, <2>4, QuietReload DEF Ask
<1>4. ASSUME Return(h), Running,
             UNCHANGED <<disk, main, live, device, gates, mixed, ended>>
      PROVE  IInv'
  BY <1>4, IdleIsReloading, IdleInStep, QuietReload DEF Return
<1>5. CASE Ask(h)
  BY <1>4, <1>3, <1>5 DEF Ask, At
<1>6. CASE Compare(h)
  <2>1. /\ Running /\ hd[h].pc = "compare"
        /\ UNCHANGED <<disk, main, live, device, gates, mixed, ended>>
    BY <1>6 DEF Compare, At
  <2>2. /\ hd[h].cur \in Valid /\ hd[h].cur \in Versions
        /\ live \in Versions /\ live \in Builds
    BY <1>1, <2>1 DEF InStep
  <2>3. Sense[hd[h].cur] = Sense[live] =>
          SelfOf[hd[h].cur] = SelfOf[live] /\ hd[h].cur \in Builds
    BY <2>2, AgentAssumption
  <2>4. ASSUME NEW l \in {"answer", "check"}, Goto(h, l),
               SelfOf[hd[h].cur] = SelfOf[live],
               l = "answer" => hd[h].cur \in Builds
        PROVE  IInv'
    <3> DEFINE r == [hd[h] EXCEPT !.pc = l]
    <3>1. hd' = [hd EXCEPT ![h] = r]
      BY <2>4 DEF Goto
    <3>2. r \in Reloading
      BY <1>1, <2>2, ReloadingChanges DEF Places
    <3>3. r.pc = l /\ r.cur = hd[h].cur
      BY <1>1 DEF Reloading
    <3>4. InStep(r, SelfOf[live])
      BY <2>2, <2>4, <3>3 DEF InStep, Applying
    <3> HIDE DEF r
    <3> QED BY <2>1, <3>1, <3>2, <3>4, QuietReload
  <2> QED BY <1>4, <1>6, <2>1, <2>3, <2>4 DEF Compare
<1>7. CASE Check(h)
  <2>1. /\ Running /\ hd[h].pc = "check"
        /\ UNCHANGED <<disk, main, live, device, gates, mixed, ended>>
    BY <1>7 DEF Check, At
  <2>2. CASE Return(h)
    BY <1>4, <2>1, <2>2
  <2>3. CASE hd' = [hd EXCEPT ![h].pc = "was", ![h].old = live]
    <3> DEFINE r == [hd[h] EXCEPT !.pc = "was", !.old = live]
    <3>1. hd' = [hd EXCEPT ![h] = r] /\ live \in Valid \cap Builds
      BY <1>1, <2>1, <2>3
    <3>2. r \in Reloading
      BY <1>1, <3>1, ReloadingChanges DEF Places
    <3>3. r.pc = "was" /\ r.cur = hd[h].cur /\ r.old = live
      BY <1>1 DEF Reloading
    <3>4. InStep(r, SelfOf[live])
      BY <1>1, <2>1, <3>1, <3>3 DEF InStep, Applying
    <3> HIDE DEF r
    <3> QED BY <2>1, <3>1, <3>2, <3>4, QuietReload
  <2> QED BY <1>7, <2>2, <2>3 DEF Check
<1> QED BY <1>2, <1>6, <1>7, <1>5

LEMMA ReadWasStep ==
  ASSUME IInv, NEW h \in Handlers, ReadWas(h)
  PROVE  IInv'
<1>1. /\ hd[h].pc = "was"
      /\ UNCHANGED <<disk, main, live, device, gates, mixed, ended>>
  BY DEF ReadWas, At
<1>2. /\ Running /\ hd[h] \in Reloading /\ InStep(hd[h], SelfOf[live])
      /\ snap \in Versions
  BY <1>1, TargetFacts, AgentAssumption DEF Applying, IInv, TypeOK
<1>3. CASE Target(h) \in Builds
  <2> DEFINE r == [hd[h] EXCEPT !.pc = "ipc", !.was = snap]
  <2>1. hd' = [hd EXCEPT ![h] = r]
    BY <1>3 DEF ReadWas
  <2>2. r \in Reloading
    BY <1>2, ReloadingChanges DEF Places
  <2>3. r.pc = "ipc" /\ r.cur = hd[h].cur /\ r.old = hd[h].old /\ r.undo = hd[h].undo
    BY <1>2 DEF Reloading
  <2>4. InStep(r, SelfOf[live])
    BY <1>1, <1>2, <1>3, <2>3 DEF InStep, Applying, Target
  <2> HIDE DEF r
  <2> QED BY <1>1, <1>2, <2>1, <2>2, <2>4, QuietReload
<1>4. CASE Target(h) \notin Builds
  <2>1. Fail(h, "guard")
    BY <1>4 DEF ReadWas
  <2> QED BY <1>1, <1>2, <2>1, FailInStep, QuietReload DEF Applying
<1> QED BY <1>3, <1>4

\* wg changes: to the target, to a mixture, or not.
LEMMA IpcSetStep ==
  ASSUME IInv, NEW h \in Handlers, IpcSet(h)
  PROVE  IInv'
<1>1. /\ hd[h].pc = "ipc"
      /\ UNCHANGED <<disk, main, live, policy, snap, gates, mixed, ended>>
  BY DEF IpcSet, At
<1>2. Running /\ Target(h) \in Builds /\ Target(h) \in Versions
  BY <1>1, TargetFacts DEF Applying
<1>3. wg' \in {wg, Torn, WgOf[Target(h)]}
  BY DEF IpcSet
<1>4. \E r \in Reloading : hd' = [hd EXCEPT ![h] = r] /\ InStep(r, SelfOf[live])
  <2>1. CASE Goto(h, "rules")
    BY <1>1, <1>2, <2>1, GotoInStep DEF Applying
  <2>2. CASE Fail(h, "guard")
    BY <1>1, <2>2, FailInStep DEF Applying
  <2> QED BY <2>1, <2>2 DEF IpcSet
<1>5. hd' \in [Handlers -> Reloading] /\ AllInStep' /\ InProcess'
  BY <1>1, <1>2, <1>4, OneReload
<1>6. TypeOK'
  BY <1>1, <1>2, <1>3, <1>5 DEF IInv, TypeOK, Reloading, Running, gates
<1>7. OneSelf' /\ Ending' /\ UpStays'
  BY <1>1 DEF IInv, OneSelf, Ending, UpStays, Up, Running, gates
<1> QED BY <1>5, <1>6, <1>7 DEF IInv

\* The rules and the snapshot are stored.
LEMMA StoreSteps ==
  ASSUME IInv, NEW h \in Handlers, StoreRules(h) \/ StoreSnap(h)
  PROVE  IInv'
<1>1. /\ hd[h].pc \in {"rules", "snap"}
      /\ policy' \in {policy, Target(h)} /\ snap' \in {snap, Target(h)}
      /\ UNCHANGED <<disk, main, live, wg, gates, mixed, ended>>
  BY DEF StoreRules, StoreSnap, At
<1>2. /\ Running /\ Target(h) \in Valid \cap Builds
      /\ SelfOf[Target(h)] = SelfOf[live] /\ InStep(hd[h], SelfOf[live])
  BY <1>1, TargetFacts DEF Applying
<1>3. \E r \in Reloading : hd' = [hd EXCEPT ![h] = r] /\ InStep(r, SelfOf[live])
  <2>1. Goto(h, "snap") \/ Goto(h, "guard")
    BY DEF StoreRules, StoreSnap
  <2>2. ~ hd[h].undo => hd[h].cur \in Builds
    BY <1>1, <1>2 DEF Target
  <2> QED BY <1>1, <1>2, <2>1, <2>2, GotoInStep DEF Applying
<1>4. hd' \in [Handlers -> Reloading] /\ AllInStep' /\ InProcess'
  BY <1>1, <1>2, <1>3, OneReload
<1>5. TypeOK'
  <2>0. main' = main /\ live' = live
    BY DEF StoreRules, StoreSnap
  <2>a. Running /\ {live, policy, snap} \subseteq Valid \cap Builds
    BY <1>2 DEF IInv, TypeOK
  <2>1. Running' /\ {live, policy, snap}' \subseteq Valid \cap Builds
    BY <1>1, <1>2, <2>0, <2>a DEF Running
  <2>2. hd' \in [Handlers -> Reloading]
    BY <1>4
  <2> QED BY <1>1, <1>2, <2>1, <2>2 DEF IInv, TypeOK, Reloading, Running, gates
<1>6. OneSelf' /\ Ending' /\ UpStays'
  BY <1>1, <1>2 DEF IInv, OneSelf, Ending, UpStays, Up, Running, gates
<1> QED BY <1>4, <1>5, <1>6 DEF IInv

\* Apply of a version with the identity csa has: no wanted table disappears.
LEMMA GateFacts ==
  ASSUME IInv, NEW g \in Gates, NEW v \in Versions, live \in Versions,
         NEW r, r \in Applied(objs[g], tables[g], Wants[g][v]),
         objs' = [objs EXCEPT ![g] = r.obj],
         tables' = [tables EXCEPT ![g] = r.table]
  PROVE  /\ objs' \in [Gates -> Object]
         /\ tables' \in [Gates -> Rulesets \cup {NoTable}]
         /\ \A x \in Gates : objs'[x].keep = objs[x].keep
         /\ \A x \in Gates : x # g => tables'[x] = tables[x]
         /\ Wants[g][v] # NoTable /\ (r.ok \/ tables[g] # NoTable)
              => tables'[g] # NoTable
<1>1. /\ objs \in [Gates -> Object] /\ tables \in [Gates -> Rulesets \cup {NoTable}]
  BY DEF IInv, TypeOK
<1>2. /\ r.obj \in Object /\ r.table \in Rulesets \cup {NoTable}
      /\ r.obj.keep = objs[g].keep
      /\ Wants[g][v] # NoTable /\ tables[g] # NoTable => r.table # NoTable
      /\ Wants[g][v] # NoTable /\ r.ok => r.table # NoTable
  <2>1. Wants[g][v] \in Rulesets \cup {NoTable}
    BY WantsTyped
  <2> QED BY <1>1, <2>1, AppliedFacts
<1>3. /\ objs' \in [Gates -> Object]
      /\ tables' \in [Gates -> Rulesets \cup {NoTable}]
  BY <1>1, <1>2
<1>4. /\ objs'[g] = r.obj /\ \A x \in Gates : x # g => objs'[x] = objs[x]
      /\ tables'[g] = r.table /\ \A x \in Gates : x # g => tables'[x] = tables[x]
  BY <1>1
<1>5. \A x \in Gates : objs'[x].keep = objs[x].keep
  BY <1>2, <1>4, Zenon
<1> QED BY <1>2, <1>3, <1>4, <1>5

LEMMA ApplyGateStep ==
  ASSUME IInv, NEW h \in Handlers, NEW g \in Gates, ApplyGate(h, g)
  PROVE  IInv'
<1>1. /\ hd[h].pc = g /\ hd[h].pc \in {"guard", "nat"}
      /\ UNCHANGED <<disk, main, live, device, mixed, ended>>
  BY DEF ApplyGate, At, Gates
<1>2. /\ Running /\ Target(h) \in Versions /\ live \in Versions
      /\ SelfOf[Target(h)] = SelfOf[live] /\ InStep(hd[h], SelfOf[live])
  BY <1>1, TargetFacts DEF Applying
<1>3. PICK r \in Applied(objs[g], tables[g], Wants[g][Target(h)]) :
        /\ objs' = [objs EXCEPT ![g] = r.obj]
        /\ tables' = [tables EXCEPT ![g] = r.table]
        /\ IF r.ok THEN Goto(h, After(g)) ELSE Fail(h, After(g))
  BY DEF ApplyGate
<1>4. /\ objs' \in [Gates -> Object]
      /\ tables' \in [Gates -> Rulesets \cup {NoTable}]
      /\ \A x \in Gates : objs'[x].keep = objs[x].keep
      /\ \A x \in Gates : x # g => tables'[x] = tables[x]
      /\ Wants[g][Target(h)] # NoTable /\ tables[g] # NoTable => tables'[g] # NoTable
  BY <1>2, <1>3, GateFacts
<1>5. \E rec \in Reloading : hd' = [hd EXCEPT ![h] = rec] /\ InStep(rec, SelfOf[live])
  <2>1. After(g) \in {"nat", "answer"}
    BY DEF After
  <2>2. CASE Goto(h, After(g))
    <3>1. ~ hd[h].undo => hd[h].cur \in Builds
      BY <1>1, <1>2 DEF InStep
    <3> QED BY <1>1, <2>1, <2>2, <3>1, GotoInStep DEF Applying
  <2>3. CASE Fail(h, After(g))
    BY <1>1, <2>1, <2>3, FailInStep DEF Applying
  <2> QED BY <1>3, <2>2, <2>3
<1>6. hd' \in [Handlers -> Reloading] /\ AllInStep' /\ InProcess'
  BY <1>1, <1>2, <1>5, OneReload
<1>7. TypeOK'
  BY <1>1, <1>4, <1>6 DEF IInv, TypeOK, Reloading, Running, device
<1>8. OneSelf' /\ Ending'
  BY <1>1, <1>4 DEF IInv, OneSelf, Ending, Running, device
<1>9. UpStays'
  <2>1. Wants[g][live] # NoTable => Wants[g][Target(h)] # NoTable
    BY <1>2, SameSelfSameGates
  <2> QED BY <1>1, <1>4, <2>1 DEF IInv, UpStays, Up, Running
<1> QED BY <1>6, <1>7, <1>8, <1>9 DEF IInv

\* What is followed after a reload has the identity csa was started with.
LEMMA AnswerStep ==
  ASSUME IInv, NEW h \in Handlers, Answer(h)
  PROVE  IInv'
<1>1. /\ hd[h].pc = "answer" /\ Running /\ live' \in {live, hd[h].cur}
      /\ ~ hd[h].undo \/ live' = live
      /\ mixed' \in {mixed, "soon"} /\ hd' = [hd EXCEPT ![h] = Idle]
      /\ UNCHANGED <<disk, main, device, gates, ended>>
  BY DEF Answer, At, Return
<1>2. /\ hd[h].cur \in Valid /\ SelfOf[hd[h].cur] = SelfOf[live]
      /\ ~ hd[h].undo => hd[h].cur \in Builds
      /\ live \in Valid \cap Builds
  BY <1>1 DEF IInv, AllInStep, InStep, TypeOK
<1>3. live' \in Valid \cap Builds /\ SelfOf[live'] = SelfOf[live]
  BY <1>1, <1>2
<1>4. hd' \in [Handlers -> Reloading] /\ AllInStep' /\ InProcess'
  BY <1>1, <1>3, IdleIsReloading, IdleInStep, OneReload
<1>5. TypeOK'
  BY <1>1, <1>3, <1>4 DEF IInv, TypeOK, Reloading, Running, device, gates
<1>6. OneSelf' /\ Ending'
  BY <1>1, <1>3 DEF IInv, OneSelf, Ending, Running, device, gates
<1>7. UpStays'
  <2>1. live \in Versions /\ live' \in Versions
    BY <1>2, <1>3, AgentAssumption
  <2>2. \A g \in Gates : Wants[g][live'] # NoTable => Wants[g][live] # NoTable
    BY <1>3, <2>1, SameSelfSameGates
  <2> QED BY <1>1, <2>2 DEF IInv, UpStays, Up, Running, gates
<1> QED BY <1>4, <1>5, <1>6, <1>7 DEF IInv

----------------------------------------------------------------------------
(***************************************************************************)
(* runRun.                                                                 *)
(***************************************************************************)
LEMMA OpenStep ==
  ASSUME IInv, Open
  PROVE  IInv'
<1>1. /\ main = "down" /\ main' = "guard" /\ disk \in Valid \cap Builds
      /\ live' = disk /\ policy' = disk /\ snap' = disk /\ wg' = WgOf[disk]
      /\ ended' = "running" /\ UNCHANGED <<disk, gates, hd, mixed>>
  BY DEF Open
<1>2. /\ hd \in [Handlers -> Reloading]
      /\ \A h \in Handlers : hd[h].pc = "idle"
  BY <1>1 DEF IInv, TypeOK, InProcess, Reloading, Running
<1>3. TypeOK'
  BY <1>1, AgentAssumption DEF IInv, TypeOK, Running, gates
<1>4. AllInStep' /\ InProcess'
  BY <1>1, <1>2 DEF AllInStep, InStep, InProcess, Applying
<1>5. OneSelf' /\ Ending' /\ UpStays'
  BY <1>1 DEF OneSelf, Ending, UpStays, Up, Running
<1> QED BY <1>3, <1>4, <1>5 DEF IInv

LEMMA StartGateStep ==
  ASSUME IInv, NEW g \in Gates, StartGate(g)
  PROVE  IInv'
<1>1. /\ main = g /\ main \in {"guard", "nat"} /\ Running
      /\ UNCHANGED <<disk, live, device, hd, mixed>>
  BY DEF StartGate, Gates, Running
<1>2. PICK r \in Applied(objs[g], tables[g], Wants[g][live]) :
        /\ objs' = [objs EXCEPT ![g] = r.obj]
        /\ tables' = [tables EXCEPT ![g] = r.table]
        /\ main' = CASE g = "guard" /\ r.ok   -> "nat"
                     [] g = "guard" /\ ~ r.ok -> "exit"
                     [] g = "nat" /\ r.ok     -> "listen"
                     [] g = "nat" /\ ~ r.ok   -> "close guard"
        /\ ended' = IF r.ok THEN ended ELSE "failed"
  BY DEF StartGate
<1>3. \/ r.ok /\ g = "guard" /\ main' = "nat" /\ ended' = ended
      \/ r.ok /\ g = "nat" /\ main' = "listen" /\ ended' = ended
      \/ main' \in {"exit", "close guard"} /\ ended' = "failed"
  BY <1>2 DEF Gates
<1>4. live \in Valid \cap Builds /\ live \in Versions
  BY <1>1, AgentAssumption DEF IInv, TypeOK
<1>5. /\ objs' \in [Gates -> Object]
      /\ tables' \in [Gates -> Rulesets \cup {NoTable}]
      /\ \A x \in Gates : objs'[x].keep = objs[x].keep
      /\ \A x \in Gates : x # g => tables'[x] = tables[x]
      /\ Wants[g][live] # NoTable /\ r.ok => tables'[g] # NoTable
  BY <1>2, <1>4, GateFacts
<1>6. TypeOK'
  BY <1>1, <1>3, <1>5 DEF IInv, TypeOK, Running, device
<1>7. AllInStep' /\ InProcess' /\ OneSelf'
  BY <1>1, <1>3 DEF IInv, AllInStep, InProcess, OneSelf, Running, device
<1>8. Ending'
  BY <1>1, <1>3 DEF IInv, Ending, Running
<1>9. UpStays'
  BY <1>1, <1>3, <1>5 DEF IInv, UpStays, Up, Ending, Running, Gates
<1> QED BY <1>6, <1>7, <1>8, <1>9 DEF IInv

\* A gate that is to be kept is left as it is.
LEMMA CloseGateStep ==
  ASSUME IInv, NEW g \in Gates, CloseGate(g)
  PROVE  IInv'
<1>1. /\ main \in {"close nat", "close guard"} /\ main' \in {"close guard", "exit"}
      /\ UNCHANGED <<disk, live, device, hd, mixed>>
  BY DEF CloseGate, Gates
<1>2. PICK r \in Closed(objs[g], tables[g]) :
        /\ objs' = [objs EXCEPT ![g] = r.obj]
        /\ tables' = [tables EXCEPT ![g] = r.table]
        /\ ended' = IF r.ok THEN ended ELSE "undeleted"
  BY DEF CloseGate
<1>3. /\ objs \in [Gates -> Object] /\ tables \in [Gates -> Rulesets \cup {NoTable}]
  BY DEF IInv, TypeOK
<1>4. /\ r.obj \in Object /\ r.table \in Rulesets \cup {NoTable}
      /\ r.obj.keep = objs[g].keep
      /\ objs[g].keep => r.table = tables[g]
  BY <1>3, ClosedFacts
<1>5. /\ objs' \in [Gates -> Object]
      /\ tables' \in [Gates -> Rulesets \cup {NoTable}]
  BY <1>2, <1>3, <1>4
<1>6. objs'[g] = r.obj /\ \A x \in Gates : x # g => objs'[x] = objs[x]
  BY <1>2, <1>3
<1>7. \A x \in Gates : objs'[x].keep = objs[x].keep
  BY <1>4, <1>6, Zenon
<1>8. \A x \in Gates : objs[g].keep => tables'[x] = tables[x]
  BY <1>2, <1>3, <1>4
<1>9. Running /\ Running' /\ ended' \in {ended, "undeleted"}
  BY <1>1, <1>2 DEF Running
<1>10. TypeOK'
  BY <1>1, <1>5, <1>9 DEF IInv, TypeOK, Running, device
<1>11. AllInStep' /\ InProcess' /\ OneSelf' /\ Ending'
  BY <1>1, <1>7, <1>9
  DEF IInv, AllInStep, InProcess, OneSelf, Ending, Running, device
<1>12. UpStays'
  BY <1>1, <1>8, <1>9 DEF IInv, UpStays, Up, Ending
<1> QED BY <1>10, <1>11, <1>12 DEF IInv

LEMMA GoneStep ==
  ASSUME IInv, Gone, ended' \in {ended, "killed", "stopped early"}
  PROVE  IInv'
<1>1. /\ main' = "down" /\ live' = NoVersion /\ policy' = NoVersion
      /\ snap' = NoVersion /\ wg' = NoWg /\ mixed' = "no"
      /\ objs' = [g \in Gates |-> New] /\ hd' = [h \in Handlers |-> Idle]
      /\ UNCHANGED <<disk, tables>>
  BY DEF Gone
<1>2. hd' \in [Handlers -> Reloading] /\ \A h \in Handlers : hd'[h] = Idle
  BY <1>1, IdleIsReloading
<1>3. objs' \in [Gates -> Object]
  BY <1>1, NewIsObject
<1>4. TypeOK'
  BY <1>1, <1>2, <1>3 DEF IInv, TypeOK, Reloading, Running
<1>5. AllInStep' /\ InProcess'
  <2>1. \A h \in Handlers : InStep(hd'[h], SelfOf'[live'])
    BY <1>2, IdleInStep
  <2>2. Idle.pc = "idle"
    BY Zenon DEF Idle
  <2>3. \A h \in Handlers : hd'[h].pc = "idle"
    BY <1>2, <2>2
  <2> QED BY <2>1, <2>3 DEF AllInStep, InProcess, InStep
<1>6. OneSelf' /\ Ending' /\ UpStays'
  BY <1>1 DEF OneSelf, Ending, UpStays, Up, Running
<1> QED BY <1>4, <1>5, <1>6 DEF IInv

\* The steps of the main goroutine and of the files that change no table.
LEMMA WaitSteps ==
  ASSUME IInv,
         \/ Listen \/ Stop \/ CloseSocket \/ Signal
         \/ \E v \in Versions : Edit(v)
  PROVE  IInv'
<1>1. /\ disk' \in Versions /\ mixed' \in {mixed, "sent"}
      /\ UNCHANGED <<live, device, gates, hd>>
  BY DEF Listen, Stop, CloseSocket, Signal, Edit, IInv, TypeOK
<1>2. \/ main' = main /\ ended' = ended
      \/ main = "listen" /\ main' = "wait" /\ ended' = ended
      \/ main = "listen" /\ main' = "close nat" /\ ended' = "failed"
      \/ main = "wait" /\ main' = "close socket" /\ ended' = "stopped"
      \/ main = "close socket" /\ main' = "close nat" /\ ended' = ended
  BY DEF Listen, Stop, CloseSocket, Signal, Edit
<1>3. Running' = Running
  BY <1>2 DEF Running
<1>4. TypeOK'
  BY <1>1, <1>2, <1>3 DEF IInv, TypeOK, device, gates
<1>5. AllInStep' /\ InProcess' /\ OneSelf'
  BY <1>1, <1>3 DEF IInv, AllInStep, InProcess, OneSelf, device
<1>6. Ending' /\ UpStays'
  BY <1>1, <1>2, <1>3 DEF IInv, Ending, UpStays, Up, gates
<1> QED BY <1>4, <1>5, <1>6 DEF IInv

LEMMA StopMixedStep ==
  ASSUME IInv, StopMixed
  PROVE  IInv'
<1>1. /\ main = "wait" /\ main' = "close socket" /\ ended' = "mixed"
      /\ objs' = [g \in Gates |-> Kept(objs[g])]
      /\ UNCHANGED <<disk, live, device, tables, hd, mixed>>
  BY DEF StopMixed
<1>2. \A g \in Gates : Kept(objs[g]) \in Object /\ Kept(objs[g]).keep
  <2> TAKE g \in Gates
  <2>1. objs[g] \in Object
    BY DEF IInv, TypeOK
  <2> QED BY <2>1, Zenon DEF Kept, Object
<1>3. objs' \in [Gates -> Object] /\ \A g \in Gates : objs'[g].keep
  BY <1>1, <1>2
<1>4. TypeOK'
  BY <1>1, <1>3 DEF IInv, TypeOK, Running, device
<1>5. AllInStep' /\ InProcess' /\ OneSelf'
  BY <1>1 DEF IInv, AllInStep, InProcess, OneSelf, Running, device
<1>6. Ending' /\ UpStays'
  BY <1>1, <1>3 DEF IInv, Ending, UpStays, Up, Running
<1> QED BY <1>4, <1>5, <1>6 DEF IInv

LEMMA NextIInv == IInv /\ [Next]_vars => IInv'
<1> SUFFICES ASSUME IInv, [Next]_vars PROVE IInv'
  OBVIOUS
<1>1. CASE Open
  BY <1>1, OpenStep
<1>2. CASE \E g \in Gates : StartGate(g) \/ CloseGate(g)
  BY <1>2, StartGateStep, CloseGateStep
<1>3. CASE Exit \/ Kill \/ StopEarly
  <2>1. Gone /\ ended' \in {ended, "killed", "stopped early"}
    BY <1>3 DEF Exit, Kill, StopEarly
  <2> QED BY <2>1, GoneStep
<1>4. CASE \/ Listen \/ Stop \/ CloseSocket \/ Signal
           \/ \E v \in Versions : Edit(v)
  BY <1>4, WaitSteps
<1>5. CASE StopMixed
  BY <1>5, StopMixedStep
<1>6. ASSUME NEW h \in Handlers, Accept(h) \/ Ask(h) \/ Compare(h) \/ Check(h)
      PROVE  IInv'
  BY <1>6, EarlySteps
<1>7. ASSUME NEW h \in Handlers,
             ReadWas(h) \/ IpcSet(h) \/ StoreRules(h) \/ StoreSnap(h) \/ Answer(h)
      PROVE  IInv'
  BY <1>7, ReadWasStep, IpcSetStep, StoreSteps, AnswerStep
<1>8. ASSUME NEW h \in Handlers, NEW g \in Gates, ApplyGate(h, g)
      PROVE  IInv'
  BY <1>8, ApplyGateStep
<1>9. CASE UNCHANGED vars
  BY <1>9 DEF vars, IInv, TypeOK, AllInStep, OneSelf, InProcess, Ending, UpStays,
              Up, Running, device, gates
<1> QED
  BY <1>1, <1>2, <1>3, <1>4, <1>5, <1>6, <1>7, <1>8, <1>9 DEF Next, Main, Reload

LEMMA Invariant == Spec => []IInv
BY InitIInv, NextIInv, PTL DEF Spec

(***************************************************************************)
(* Whatever interleaving of reloads, stops and kills, every variable keeps *)
(* its values: nothing that Validate or policy.New refuses is ever in      *)
(* force (main.go:155-228, 381-438).                                       *)
(***************************************************************************)
THEOREM TypeCorrect == Spec => []TypeOK
<1>1. IInv => TypeOK
  BY DEF IInv
<1> QED BY <1>1, Invariant, PTL

(***************************************************************************)
(* A configured table is never missing from the moment csa serves until it *)
(* is stopped on purpose, with any number of reloads that overlap, fail    *)
(* half-way and are undone (main.go:247-252, guard.go:191-239).            *)
(***************************************************************************)
THEOREM PortsStayClosedAlways == Spec => []PortsStayClosed
<1>1. IInv => PortsStayClosed
  BY DEF IInv, UpStays, Up, PortsStayClosed, Serving
<1> QED BY <1>1, Invariant, PTL

\* A step never changes the identity of the configuration in force.
LEMMA SelfStep ==
  ASSUME IInv, IInv', [Next]_vars, Running, Running'
  PROVE  SelfOf[live'] = SelfOf[live]
<1>1. CASE \E h \in Handlers : Answer(h)
  <2>1. PICK h \in Handlers : Answer(h)
    BY <1>1
  <2>2. live' \in {live, hd[h].cur} /\ SelfOf[hd[h].cur] = SelfOf[live]
    BY <2>1 DEF Answer, At, IInv, AllInStep, InStep
  <2> QED BY <2>2
<1>2. CASE live' = live
  BY <1>2
<1>3. CASE \/ Open \/ Exit \/ Kill \/ StopEarly
  BY <1>3 DEF Open, Exit, Kill, StopEarly, Gone, Running
<1> QED
  BY <1>1, <1>2, <1>3
  DEF Next, Main, Reload, vars, StartGate, CloseGate, Listen, CloseSocket, Stop,
      StopMixed, Signal, Edit, Accept, Ask, Compare, Check, ReadWas, IpcSet, StoreRules,
      StoreSnap, ApplyGate

(***************************************************************************)
(* What needs a restart never changes while csa runs, not in part and not  *)
(* by two reloads whose comparisons and stores interleave                  *)
(* (main.go:393-400, device.go:213-243).                                   *)
(***************************************************************************)
THEOREM SelfStaysAlways == Spec => SelfStays
<1>1. IInv /\ IInv' /\ [Next]_vars =>
        (Running /\ Running' =>
           \A v \in {live', policy', snap'} : SelfOf[v] = SelfOf[live])
  <2> SUFFICES ASSUME IInv, IInv', [Next]_vars, Running, Running'
               PROVE  \A v \in {live', policy', snap'} : SelfOf[v] = SelfOf[live]
    OBVIOUS
  <2>1. SelfOf[live'] = SelfOf[live]
    BY SelfStep
  <2>2. SelfOf[policy'] = SelfOf[live'] /\ SelfOf[snap'] = SelfOf[live']
    BY DEF IInv, OneSelf
  <2> QED BY <2>1, <2>2
<1> QED BY <1>1, Invariant, PTL DEF SelfStays, Spec

\* A table that Applied or Closed removes is not wanted, or is given up.
LEMMA RemovedFacts ==
  ASSUME NEW o \in Object, NEW t \in Rulesets, NEW r, r.table = NoTable
  PROVE  /\ \A w \in Rulesets \cup {NoTable} : r \in Applied(o, t, w) => w = NoTable
         /\ r \in Closed(o, t) => o.on /\ ~ o.keep
<1>1. t # NoTable
  BY AgentAssumption
<1>2. \A w \in Rulesets \cup {NoTable} : r \in Applied(o, t, w) => w = NoTable
  BY <1>1, AppliedFacts
<1>3. r \in Closed(o, t) => o.on /\ ~ o.keep
  BY <1>1, ClosedFacts
<1> QED BY <1>2, <1>3

\* The one step that removes a table, seen from the table.
LEMMA OpeningStep ==
  ASSUME IInv, [Next]_vars, NEW g \in Gates,
         tables[g] # NoTable, tables'[g] = NoTable
  PROVE  \/ Wants[g][live] = NoTable
         \/ /\ main = IF g = "nat" THEN "close nat" ELSE "close guard"
            /\ objs[g].on
            /\ ended \in {"stopped", "failed", "undeleted"}
<1>1. objs[g] \in Object /\ tables[g] \in Rulesets /\ tables \in [Gates -> Rulesets \cup {NoTable}]
  BY DEF IInv, TypeOK
<1>2. CASE \E x \in Gates : StartGate(x)
  <2>1. PICK x \in Gates : StartGate(x)
    BY <1>2
  <2>2. PICK r \in Applied(objs[x], tables[x], Wants[x][live]) :
          tables' = [tables EXCEPT ![x] = r.table]
    BY <2>1 DEF StartGate
  <2>3. x = g /\ r.table = NoTable
    BY <1>1, <2>2
  <2>4. live \in Versions
    BY <2>1, AgentAssumption DEF StartGate, Gates, Running, IInv, TypeOK
  <2> QED BY <1>1, <2>2, <2>3, <2>4, WantsTyped, RemovedFacts
<1>3. CASE \E x \in Gates : CloseGate(x)
  <2>1. PICK x \in Gates : CloseGate(x)
    BY <1>3
  <2>2. PICK r \in Closed(objs[x], tables[x]) :
          tables' = [tables EXCEPT ![x] = r.table]
    BY <2>1 DEF CloseGate
  <2>3. x = g /\ r.table = NoTable
    BY <1>1, <2>2
  <2>4. objs[g].on /\ ~ objs[g].keep
    BY <1>1, <2>2, <2>3, RemovedFacts
  <2>5. main = IF g = "nat" THEN "close nat" ELSE "close guard"
    BY <2>1, <2>3 DEF CloseGate, Gates
  <2>6. ended \in {"stopped", "failed", "mixed", "undeleted"} /\ ended # "mixed"
    BY <2>4, <2>5 DEF IInv, Ending, Running
  <2> QED BY <2>4, <2>5, <2>6
<1>4. CASE \E h \in Handlers, x \in Gates : ApplyGate(h, x)
  <2>1. PICK h \in Handlers, x \in Gates : ApplyGate(h, x)
    BY <1>4
  <2>2. PICK r \in Applied(objs[x], tables[x], Wants[x][Target(h)]) :
          tables' = [tables EXCEPT ![x] = r.table]
    BY <2>1 DEF ApplyGate
  <2>3. x = g /\ r.table = NoTable
    BY <1>1, <2>2
  <2>4. Running /\ hd[h].pc \in {"guard", "nat"}
    BY <2>1 DEF ApplyGate, At, Gates
  <2>5. live \in Versions /\ Target(h) \in Versions /\ SelfOf[Target(h)] = SelfOf[live]
    BY <2>4, TargetFacts DEF Applying
  <2>6. Wants[g][Target(h)] = NoTable
    BY <1>1, <2>2, <2>3, <2>5, WantsTyped, RemovedFacts
  <2> QED BY <2>5, <2>6, SameSelfSameGates
<1>5. CASE tables' = tables
  BY <1>5
<1> QED
  BY <1>2, <1>3, <1>4, <1>5
  DEF Next, Main, Reload, vars, device, gates, Open, Listen, CloseSocket, Exit, Kill,
      StopEarly, Gone, Stop, StopMixed, Signal, Edit, Accept, Ask, Compare, Check, ReadWas,
      IpcSet, StoreRules, StoreSnap, Answer

(***************************************************************************)
(* A standing table disappears only because none is wanted or because the  *)
(* csa that put it up ends on purpose or cannot start: never by a reload,  *)
(* a rollback or a replacement (guard.go:191-239, 312-327).                *)
(***************************************************************************)
THEOREM OpensForCauseAlways == Spec => OpensForCause
<1>1. IInv /\ [Next]_vars =>
        \A g \in Gates :
          tables[g] # NoTable /\ tables'[g] = NoTable =>
            \/ Wants[g][live] = NoTable
            \/ /\ main = IF g = "nat" THEN "close nat" ELSE "close guard"
               /\ objs[g].on
               /\ ended \in {"stopped", "failed", "undeleted"}
  BY OpeningStep
<1> QED BY <1>1, Invariant, PTL DEF OpensForCause, Spec
----------------------------------------------------------------------------
(***************************************************************************)
(* One reload at a time: what is enforced is what csa says it follows.     *)
(***************************************************************************)
\* The kernel has the table v wants, or nobody could look whether it has one
\* that v does not want.
TableOf(g, v) == \/ tables[g] = Wants[g][v]
                 \/ Wants[g][v] = NoTable /\ objs[g].unchecked

WgOfOrTorn(v) == wg \in {WgOf[v], Torn}

InForce(v) == /\ Sense[policy] = Sense[v] /\ Sense[snap] = Sense[v]
              /\ WgOfOrTorn(v)
              /\ \A g \in Gates : TableOf(g, v)

\* Before csa serves: the start puts its version in force, part by part.
Started(h) ==
  /\ main \in {"down", "guard", "nat", "listen"} => hd[h] = Idle
  /\ main \in {"guard", "nat", "listen"} =>
       policy = live /\ snap = live /\ wg = WgOf[live]
  /\ main \in {"nat", "listen"} => TableOf("guard", live)
  /\ main = "listen" => TableOf("nat", live)

Counts == main = "wait" /\ mixed = "no"

\* A reload that has applied nothing.
Unapplied(h) ==
  Counts /\ hd[h].pc \in {"idle", "accepted", "compare", "check"} =>
    ~ hd[h].undo /\ ~ hd[h].failed /\ InForce(live)

\* One that applies its target, forward or back to the version in force.
Applies(h) ==
  Counts /\ hd[h].pc \in Applying =>
    /\ hd[h].old = live
    /\ ~ hd[h].failed =>
         /\ hd[h].pc \in {"was", "ipc"} => WgOfOrTorn(snap)
         /\ hd[h].pc = "ipc" => hd[h].was = snap
         /\ hd[h].pc \in {"rules", "snap", "guard", "nat"} => WgOfOrTorn(Target(h))
         /\ hd[h].pc \in {"snap", "guard", "nat"} => policy = Target(h)
         /\ hd[h].pc \in {"guard", "nat"} => snap = Target(h)
         /\ hd[h].pc = "nat" => TableOf("guard", Target(h))

\* One that is over: what it applied, or went back to, is in force.
AppliedAll(h) ==
  Counts /\ hd[h].pc = "answer" /\ ~ hd[h].failed =>
    InForce(IF hd[h].undo THEN live ELSE hd[h].cur)

InPart(h) == Started(h) /\ Unapplied(h) /\ Applies(h) /\ AppliedAll(h)

LEMMA Typed ==
  ASSUME IInv
  PROVE  /\ hd \in [Handlers -> Reloading] /\ objs \in [Gates -> Object]
         /\ tables \in [Gates -> Rulesets \cup {NoTable}]
BY Zenon DEF IInv, TypeOK, Reloading

LEMMA AppliedAsTold ==
  ASSUME NEW o \in Object, NEW t, NEW w, NEW r \in Applied(o, t, w), r.ok
  PROVE  r.table = w \/ (w = NoTable /\ r.obj.unchecked)
<1>1. CASE w = NoTable
  <2>1. \/ r = [obj |-> [o EXCEPT !.on = FALSE, !.unchecked = TRUE], table |-> t, ok |-> TRUE]
        \/ r = [obj |-> o, table |-> t, ok |-> FALSE]
        \/ r = [obj |-> [o EXCEPT !.on = FALSE, !.unchecked = FALSE],
                table |-> w, ok |-> TRUE]
    BY <1>1, Zenon DEF Applied, Removed
  <2>2. [o EXCEPT !.on = FALSE, !.unchecked = TRUE].unchecked
    BY Zenon DEF Object
  <2>3. PICK x, u, k : /\ r = [obj |-> x, table |-> u, ok |-> k]
                       /\ k => (u = w \/ x.unchecked)
    BY <2>1, <2>2, Zenon
  <2>4. r.obj = x /\ r.table = u /\ r.ok = k
    BY <2>3, Zenon
  <2> QED BY <1>1, <2>3, <2>4, Zenon
<1>2. CASE w # NoTable
  <2>1. \/ r = [obj |-> o, table |-> t, ok |-> FALSE]
        \/ r = [obj |-> [o EXCEPT !.unchecked = FALSE], table |-> t, ok |-> FALSE]
        \/ r = [obj |-> [o EXCEPT !.on = TRUE, !.unchecked = FALSE], table |-> w, ok |-> TRUE]
    BY <1>2, Zenon DEF Applied
  <2>2. PICK x, u, k : r = [obj |-> x, table |-> u, ok |-> k] /\ (k => u = w)
    BY <2>1, Zenon
  <2>3. r.table = u /\ r.ok = k
    BY <2>2, Zenon
  <2> QED BY <2>2, <2>3, Zenon
<1> QED BY <1>1, <1>2

\* An Apply that succeeds for one gate leaves the other as it was.
LEMMA GateApplied ==
  ASSUME IInv, NEW g \in Gates, NEW v \in Versions,
         NEW r \in Applied(objs[g], tables[g], Wants[g][v]),
         objs' = [objs EXCEPT ![g] = r.obj], tables' = [tables EXCEPT ![g] = r.table]
  PROVE  /\ r.ok => TableOf(g, v)'
         /\ \A x \in Gates \ {g}, w \in Versions : TableOf(x, w) => TableOf(x, w)'
<1>1. /\ objs \in [Gates -> Object]
      /\ tables \in [Gates -> Rulesets \cup {NoTable}]
  BY Typed
<1>2. r.ok => \/ r.table = Wants[g][v]
                 \/ (Wants[g][v] = NoTable /\ r.obj.unchecked)
  BY <1>1, AppliedAsTold
<1>3. objs'[g] = r.obj /\ tables'[g] = r.table
  BY <1>1
<1>4. \A x \in Gates \ {g} : objs'[x] = objs[x] /\ tables'[x] = tables[x]
  BY <1>1
<1> QED BY <1>2, <1>3, <1>4 DEF TableOf

\* What means the same is in force together.
LEMMA SameSenseInForce ==
  ASSUME NEW v \in Versions, NEW w \in Versions, Sense[v] = Sense[w], InForce(v)
  PROVE  InForce(w)
<1>1. WgOf[v] = WgOf[w] /\ \A g \in Gates : Wants[g][v] = Wants[g][w]
  BY AgentAssumption
<1> QED BY <1>1 DEF InForce, WgOfOrTorn, TableOf

\* The reload is at its next place, with one of its notes changed at most.
LEMMA ReloadFields ==
  ASSUME IInv, NEW h \in Handlers, NEW r, hd' = [hd EXCEPT ![h] = r]
  PROVE  hd'[h] = r /\ hd[h] \in Reloading
BY Typed

LEMMA GotoFields ==
  ASSUME IInv, NEW h \in Handlers, NEW l, Goto(h, l)
  PROVE  /\ hd'[h].pc = l /\ hd'[h].cur = hd[h].cur /\ hd'[h].old = hd[h].old
         /\ hd'[h].was = hd[h].was /\ hd'[h].undo = hd[h].undo
         /\ hd'[h].failed = hd[h].failed
         /\ Target(h)' = Target(h)
<1>1. hd'[h] = [hd[h] EXCEPT !.pc = l] /\ hd[h] \in Reloading
  <2>1. hd' = [hd EXCEPT ![h] = [hd[h] EXCEPT !.pc = l]]
    BY DEF Goto
  <2> QED BY <2>1, ReloadFields
<1> QED BY <1>1 DEF Reloading, Target

LEMMA ReturnFields ==
  ASSUME IInv, NEW h \in Handlers, Return(h)
  PROVE  hd'[h].pc = "idle" /\ ~ hd'[h].undo /\ ~ hd'[h].failed
<1>1. hd'[h] = Idle
  BY ReloadFields DEF Return
<1> QED BY <1>1 DEF Idle

LEMMA FailFields ==
  ASSUME IInv, NEW h \in Handlers, NEW next, Fail(h, next)
  PROVE  /\ hd'[h].cur = hd[h].cur /\ hd'[h].old = hd[h].old
         /\ hd[h].undo => hd'[h].failed /\ hd'[h].pc = next
         /\ ~ hd[h].undo => /\ hd'[h].pc = "was" /\ hd'[h].undo
                            /\ hd'[h].failed = hd[h].failed
<1>1. hd[h] \in Reloading
  BY Typed
<1>2. CASE hd[h].undo
  <2>1. hd' = [hd EXCEPT ![h] = [hd[h] EXCEPT !.failed = TRUE, !.pc = next]]
    BY <1>2 DEF Fail
  <2>2. hd'[h] = [hd[h] EXCEPT !.failed = TRUE, !.pc = next]
    BY <2>1, ReloadFields
  <2> QED BY <1>1, <1>2, <2>2 DEF Reloading
<1>3. CASE ~ hd[h].undo
  <2>1. hd' = [hd EXCEPT ![h] = [hd[h] EXCEPT !.undo = TRUE, !.pc = "was"]]
    BY <1>3 DEF Fail
  <2>2. hd'[h] = [hd[h] EXCEPT !.undo = TRUE, !.pc = "was"]
    BY <2>1, ReloadFields
  <2> QED BY <1>1, <1>3, <2>2 DEF Reloading
<1> QED BY <1>2, <1>3

\* The steps of a reload come after the start.
LEMMA StaysStarted ==
  ASSUME NEW h \in Handlers, Started(h), main' = main,
         Serving \/ hd[h].pc # "idle"
  PROVE  Started(h)'
<1>1. Idle.pc = "idle"
  BY Zenon DEF Idle
<1>2. main \notin {"down", "guard", "nat", "listen"}
  BY <1>1 DEF Started, Serving
<1> QED BY <1>2 DEF Started

LEMMA EarlyInPart ==
  ASSUME IInv, NEW h \in Handlers, InPart(h), Accept(h) \/ Ask(h) \/ Compare(h) \/ Check(h)
  PROVE  InPart(h)'
<1> USE DEF device, gates
<1>1. UNCHANGED <<disk, main, live, device, gates, mixed, ended>>
  BY DEF Accept, Ask, Compare, Check
<1>2. Started(h)'
  BY <1>1, StaysStarted DEF InPart, Accept, Ask, Compare, Check, At
<1>3. /\ Counts' = Counts
      /\ \A v \in Versions : InForce(v)' = InForce(v)
  BY <1>1 DEF Counts, InForce, WgOfOrTorn, TableOf
<1>4. Counts /\ hd[h].pc \in {"idle", "accepted", "compare", "check"} =>
        ~ hd[h].undo /\ ~ hd[h].failed /\ InForce(live)
  BY DEF InPart, Unapplied
<1>5. SUFFICES ASSUME Counts PROVE InPart(h)'
  BY <1>2, <1>3 DEF InPart, Unapplied, Applies, AppliedAll
<1>6. live \in Versions
  BY <1>5, AgentAssumption DEF Counts, IInv, TypeOK, Running
<1>7. ASSUME Ask(h), hd' = [hd EXCEPT ![h].pc = "compare", ![h].cur = disk]
      PROVE  InPart(h)'
  <2>1. /\ hd' = [hd EXCEPT ![h] = [hd[h] EXCEPT !.pc = "compare", !.cur = disk]]
        /\ hd[h].pc = "accepted"
    BY <1>7 DEF Ask, At
  <2>2. hd'[h] = [hd[h] EXCEPT !.pc = "compare", !.cur = disk] /\ hd[h] \in Reloading
    BY <2>1, ReloadFields
  <2>3. /\ hd'[h].pc = "compare" /\ hd'[h].undo = hd[h].undo
        /\ hd'[h].failed = hd[h].failed
    BY <2>2 DEF Reloading
  <2> QED BY <1>1, <1>2, <1>3, <1>4, <1>5, <1>6, <2>1, <2>3
    DEF InPart, Unapplied, Applies, AppliedAll, Applying
<1>8. ASSUME Return(h), hd[h].pc \in {"accepted", "compare", "check"} PROVE InPart(h)'
  BY <1>1, <1>2, <1>3, <1>4, <1>5, <1>6, <1>8, ReturnFields
  DEF InPart, Unapplied, Applies, AppliedAll, Applying
<1>9. CASE Ask(h)
  BY <1>7, <1>8, <1>9 DEF Ask, At
<1>10. CASE Accept(h)
  <2>1. hd[h].pc = "idle" /\ Goto(h, "accepted")
    BY <1>10 DEF Accept
  <2> QED BY <1>1, <1>2, <1>3, <1>4, <1>5, <1>6, <2>1, GotoFields
    DEF InPart, Unapplied, Applies, AppliedAll, Applying
<1>11. CASE Compare(h)
  <2>1. /\ hd[h].pc = "compare" /\ Running /\ hd[h].cur \in Versions
        /\ ~ hd[h].undo /\ ~ hd[h].failed /\ InForce(live)
    BY <1>4, <1>5, <1>11, AgentAssumption
    DEF Compare, At, IInv, AllInStep, InStep
  <2>2. CASE Sense[hd[h].cur] = Sense[live] /\ Goto(h, "answer")
    <3>1. InForce(hd[h].cur)
      BY <1>6, <2>1, <2>2, SameSenseInForce
    <3> QED BY <1>2, <1>3, <2>1, <2>2, <3>1, GotoFields
      DEF InPart, Unapplied, Applies, AppliedAll, Applying
  <2>3. CASE Goto(h, "check")
    BY <1>1, <1>2, <1>3, <1>6, <2>1, <2>3, GotoFields
    DEF InPart, Unapplied, Applies, AppliedAll, Applying
  <2> QED BY <1>8, <1>11, <2>1, <2>2, <2>3 DEF Compare
<1>12. CASE Check(h)
  <2>1. hd[h].pc = "check" /\ ~ hd[h].undo /\ ~ hd[h].failed /\ InForce(live)
    BY <1>4, <1>5, <1>12 DEF Check, At
  <2>2. CASE hd' = [hd EXCEPT ![h].pc = "was", ![h].old = live]
    <3>1. hd' = [hd EXCEPT ![h] = [hd[h] EXCEPT !.pc = "was", !.old = live]]
      BY <2>2
    <3>2. hd'[h] = [hd[h] EXCEPT !.pc = "was", !.old = live] /\ hd[h] \in Reloading
      BY <3>1, ReloadFields
    <3>3. hd'[h].pc = "was" /\ hd'[h].old = live
      BY <3>2 DEF Reloading
    <3>4. WgOfOrTorn(snap)
      BY <1>5, <1>6, <2>1, AgentAssumption
      DEF InForce, WgOfOrTorn, Counts, IInv, TypeOK, Running
    <3> QED BY <1>1, <1>2, <3>3, <3>4
      DEF InPart, Unapplied, Applies, AppliedAll, Applying, WgOfOrTorn
  <2> QED BY <1>8, <1>12, <2>1, <2>2 DEF Check
<1> QED BY <1>11, <1>12, <1>9, <1>10

\* A failure notes itself, or turns back with wg as it may be.
LEMMA FailInPart ==
  ASSUME IInv, NEW h \in Handlers, Started(h)', Applies(h),
         hd[h].pc \in Applying, NEW next \in {"guard", "nat", "answer"},
         Fail(h, next), live' = live, Counts' = Counts,
         Counts /\ ~ hd[h].failed => WgOfOrTorn(snap)'
  PROVE  InPart(h)'
<1>1. Counts => hd[h].old = live
  BY DEF Applies
<1>2. CASE hd[h].undo
  <2>1. hd'[h].failed /\ hd'[h].pc = next /\ hd'[h].old = hd[h].old
    BY <1>2, FailFields
  <2> QED BY <1>1, <2>1 DEF InPart, Unapplied, Applies, AppliedAll, Applying
<1>3. CASE ~ hd[h].undo
  <2>1. /\ hd'[h].failed = hd[h].failed /\ hd'[h].pc = "was"
        /\ hd'[h].old = hd[h].old
    BY <1>3, FailFields
  <2> QED BY <1>1, <2>1
    DEF InPart, Unapplied, Applies, AppliedAll, Applying, WgOfOrTorn
<1> QED BY <1>2, <1>3

LEMMA DeviceInPart ==
  ASSUME IInv, NEW h \in Handlers, InPart(h),
         ReadWas(h) \/ IpcSet(h) \/ StoreRules(h) \/ StoreSnap(h)
  PROVE  InPart(h)'
<1> USE DEF device, gates
<1>1. /\ UNCHANGED <<disk, main, live, gates, mixed, ended>>
      /\ hd[h].pc \in {"was", "ipc", "rules", "snap"}
  BY DEF ReadWas, IpcSet, StoreRules, StoreSnap, At
<1>2. Started(h)'
  BY <1>1, StaysStarted DEF InPart
<1>3. Counts' = Counts
  BY <1>1 DEF Counts
<1>4. SUFFICES ASSUME Counts PROVE InPart(h)'
  BY <1>2, <1>3 DEF InPart, Unapplied, Applies, AppliedAll
<1>5. /\ Applies(h) /\ hd[h].pc \in Applying
      /\ hd[h].old = live
  BY <1>1, <1>4 DEF InPart, Applies, Applying
<1>6. ~ hd[h].failed =>
         /\ hd[h].pc \in {"was", "ipc"} => WgOfOrTorn(snap)
         /\ hd[h].pc = "ipc" => hd[h].was = snap
         /\ hd[h].pc \in {"rules", "snap"} => WgOfOrTorn(Target(h))
         /\ hd[h].pc = "snap" => policy = Target(h)
  BY <1>4, <1>5 DEF Applies
<1>7. CASE ReadWas(h)
  <2>1. UNCHANGED <<wg, snap>> /\ hd[h].pc = "was"
    BY <1>7 DEF ReadWas, At
  <2>2. CASE Fail(h, "guard")
    BY <1>1, <1>2, <1>3, <1>5, <1>6, <2>1, <2>2, FailInPart DEF WgOfOrTorn
  <2>3. CASE hd' = [hd EXCEPT ![h].pc = "ipc", ![h].was = snap]
    <3>1. hd' = [hd EXCEPT ![h] = [hd[h] EXCEPT !.pc = "ipc", !.was = snap]]
      BY <2>3
    <3>2. hd'[h] = [hd[h] EXCEPT !.pc = "ipc", !.was = snap] /\ hd[h] \in Reloading
      BY <3>1, ReloadFields
    <3>3. /\ hd'[h].pc = "ipc" /\ hd'[h].was = snap /\ hd'[h].old = hd[h].old
          /\ hd'[h].failed = hd[h].failed
      BY <3>2 DEF Reloading
    <3> QED BY <1>1, <1>2, <1>5, <1>6, <2>1, <3>3
      DEF InPart, Unapplied, Applies, AppliedAll, Applying, WgOfOrTorn
  <2> QED BY <1>7, <2>2, <2>3 DEF ReadWas
<1>8. CASE IpcSet(h)
  <2>1. UNCHANGED <<policy, snap>> /\ hd[h].pc = "ipc"
    BY <1>8 DEF IpcSet, At
  <2>2. CASE wg' \in {wg, Torn} /\ Fail(h, "guard")
    BY <1>1, <1>2, <1>3, <1>5, <1>6, <2>1, <2>2, FailInPart DEF WgOfOrTorn
  <2>3. CASE Goto(h, "rules") /\ (~ hd[h].failed => WgOfOrTorn(Target(h))')
    BY <1>1, <1>2, <1>5, <2>3, GotoFields
    DEF InPart, Unapplied, Applies, AppliedAll, Applying
  <2>4. CASE /\ WgOf[hd[h].was] = WgOf[Target(h)]
             /\ Goto(h, "rules") /\ UNCHANGED wg
    <3>1. ~ hd[h].failed => WgOfOrTorn(Target(h))'
      BY <1>6, <2>1, <2>4, GotoFields DEF WgOfOrTorn
    <3> QED BY <2>3, <2>4, <3>1
  <2>5. CASE wg' \in {WgOf[Target(h)], Torn} /\ Goto(h, "rules")
    <3>1. WgOfOrTorn(Target(h))'
      BY <2>5, GotoFields DEF WgOfOrTorn
    <3> QED BY <2>3, <2>5, <3>1
  <2> QED BY <1>8, <2>2, <2>4, <2>5 DEF IpcSet
<1>9. CASE StoreRules(h)
  <2>1. /\ UNCHANGED <<wg, snap>> /\ policy' = Target(h) /\ hd[h].pc = "rules"
        /\ Goto(h, "snap")
    BY <1>9 DEF StoreRules, At
  <2> QED BY <1>1, <1>2, <1>5, <1>6, <2>1, GotoFields
    DEF InPart, Unapplied, Applies, AppliedAll, Applying, WgOfOrTorn
<1>10. CASE StoreSnap(h)
  <2>1. /\ UNCHANGED <<wg, policy>> /\ snap' = Target(h) /\ hd[h].pc = "snap"
        /\ Goto(h, "guard")
    BY <1>10 DEF StoreSnap, At
  <2> QED BY <1>1, <1>2, <1>5, <1>6, <2>1, GotoFields
    DEF InPart, Unapplied, Applies, AppliedAll, Applying, WgOfOrTorn
<1> QED BY <1>7, <1>8, <1>9, <1>10

LEMMA GateInPart ==
  ASSUME IInv, NEW h \in Handlers, InPart(h), NEW g \in Gates, ApplyGate(h, g)
  PROVE  InPart(h)'
<1> USE DEF device
<1>1. /\ UNCHANGED <<disk, main, live, device, mixed, ended>>
      /\ hd[h].pc = g /\ hd[h].pc \in Applying
  BY DEF ApplyGate, At, Gates, Applying
<1>2. Started(h)'
  BY <1>1, StaysStarted DEF InPart, Gates
<1>3. Counts' = Counts
  BY <1>1 DEF Counts
<1>4. SUFFICES ASSUME Counts PROVE InPart(h)'
  BY <1>2, <1>3 DEF InPart, Unapplied, Applies, AppliedAll
<1>5. /\ Applies(h) /\ hd[h].old = live
      /\ ~ hd[h].failed =>
           /\ WgOfOrTorn(Target(h)) /\ policy = Target(h) /\ snap = Target(h)
           /\ g = "nat" => TableOf("guard", Target(h))
  BY <1>1, <1>4 DEF InPart, Applies, Gates
<1>6. PICK r \in Applied(objs[g], tables[g], Wants[g][Target(h)]) :
        /\ objs' = [objs EXCEPT ![g] = r.obj]
        /\ tables' = [tables EXCEPT ![g] = r.table]
        /\ IF r.ok THEN Goto(h, After(g)) ELSE Fail(h, After(g))
  BY DEF ApplyGate
<1>7. PICK v \in Versions : v = Target(h)
  BY <1>1, TargetFacts
<1>8. /\ r.ok => TableOf(g, v)'
      /\ \A x \in Gates \ {g} : TableOf(x, v) => TableOf(x, v)'
  BY <1>6, <1>7, GateApplied
<1>9. CASE Fail(h, After(g))
  BY <1>1, <1>2, <1>3, <1>5, <1>9, FailInPart DEF WgOfOrTorn, After, Gates
<1>10. CASE r.ok /\ Goto(h, After(g))
  <2>1. CASE g = "guard"
    <3>1. Goto(h, "nat")
      BY <1>10, <2>1 DEF After
    <3>2. /\ hd'[h].pc = "nat" /\ hd'[h].old = hd[h].old
          /\ hd'[h].failed = hd[h].failed /\ Target(h)' = Target(h)
      BY <3>1, GotoFields
    <3> QED BY <1>1, <1>2, <1>5, <1>7, <1>8, <1>10, <2>1, <3>1, <3>2
      DEF InPart, Unapplied, Applies, AppliedAll, Applying, WgOfOrTorn, TableOf
  <2>2. CASE g = "nat"
    <3>1. Goto(h, "answer")
      BY <1>10, <2>2 DEF After
    <3>2. ~ hd[h].failed => InForce(Target(h))'
      BY <1>1, <1>5, <1>7, <1>8, <1>10, <2>2, <3>1, GotoFields
      DEF InForce, WgOfOrTorn, TableOf, Gates
    <3>3. Target(h)' = IF hd'[h].undo THEN live' ELSE hd'[h].cur
      BY <1>1, <1>5, <3>1, GotoFields DEF Target
    <3> QED BY <1>2, <3>1, <3>2, <3>3, GotoFields
      DEF InPart, Unapplied, Applies, AppliedAll, Applying
  <2> QED BY <2>1, <2>2 DEF Gates
<1> QED BY <1>6, <1>9, <1>10

LEMMA AnswerInPart ==
  ASSUME IInv, NEW h \in Handlers, InPart(h), Answer(h)
  PROVE  InPart(h)'
<1>1. /\ UNCHANGED <<main, device, gates>> /\ hd[h].pc = "answer"
      /\ live' = (IF hd[h].undo THEN live ELSE hd[h].cur)
      /\ mixed' = (IF hd[h].failed /\ mixed = "no" THEN "soon" ELSE mixed)
      /\ hd'[h].pc = "idle" /\ ~ hd'[h].undo /\ ~ hd'[h].failed
  BY ReturnFields DEF Answer, At
<1>2. Started(h)'
  BY <1>1, StaysStarted DEF InPart
<1>3. Counts' => Counts /\ ~ hd[h].failed
  BY <1>1 DEF Counts
<1>4. Counts' => InForce(live)'
  BY <1>1, <1>3
  DEF InPart, AppliedAll, InForce, WgOfOrTorn, TableOf, device, gates
<1> QED BY <1>1, <1>2, <1>4 DEF InPart, Unapplied, Applies, AppliedAll, Applying

\* A start that succeeds has put everything of its version in force.
LEMMA StartInPart ==
  ASSUME IInv, NEW h \in Handlers, InPart(h),
         Open \/ Listen \/ \E g \in Gates : StartGate(g)
  PROVE  InPart(h)'
<1> USE DEF device, gates
<1>1. /\ Started(h) /\ hd[h] = Idle /\ UNCHANGED <<hd, mixed>>
      /\ main \in {"down", "guard", "nat", "listen"}
  BY DEF InPart, Started, Open, Listen, StartGate, Gates
<1>2. Idle.pc = "idle" /\ ~ Idle.undo /\ ~ Idle.failed
  BY Zenon DEF Idle
<1>3. CASE main' \in {"exit", "close nat", "close guard"}
  BY <1>3 DEF InPart, Started, Unapplied, Applies, AppliedAll, Counts
<1>4. CASE Open
  <2>1. main' = "guard" /\ live' = disk /\ wg' = WgOf[disk] /\ policy' = disk /\ snap' = disk
    BY <1>4 DEF Open
  <2> QED BY <1>1, <2>1 DEF InPart, Started, Unapplied, Applies, AppliedAll, Counts
<1>5. CASE Listen /\ main' = "wait"
  <2>1. main = "listen" /\ UNCHANGED <<live, device, gates>>
    BY <1>5 DEF Listen
  <2>2. live \in Versions
    BY <2>1, AgentAssumption DEF IInv, TypeOK, Running
  <2>3. InForce(live)
    BY <1>1, <2>1 DEF Started, InForce, WgOfOrTorn, Gates
  <2>4. InForce(live)'
    BY <2>1, <2>3 DEF InForce, WgOfOrTorn, TableOf
  <2> QED BY <1>1, <1>2, <1>5, <2>4
    DEF InPart, Started, Unapplied, Applies, AppliedAll, Applying
<1>6. ASSUME NEW g \in Gates, StartGate(g) PROVE InPart(h)'
  <2>1. main = g /\ UNCHANGED <<live, device>>
    BY <1>6 DEF StartGate
  <2>2. PICK r \in Applied(objs[g], tables[g], Wants[g][live]) :
          /\ objs' = [objs EXCEPT ![g] = r.obj]
          /\ tables' = [tables EXCEPT ![g] = r.table]
          /\ main' = CASE g = "guard" /\ r.ok   -> "nat"
                       [] g = "guard" /\ ~ r.ok -> "exit"
                       [] g = "nat" /\ r.ok     -> "listen"
                       [] g = "nat" /\ ~ r.ok   -> "close guard"
    BY <1>6 DEF StartGate
  <2>3. PICK v \in Versions : v = live
    BY <2>1, AgentAssumption DEF IInv, TypeOK, Running, Gates
  <2>4. /\ r.ok => TableOf(g, v)'
        /\ \A x \in Gates \ {g} : TableOf(x, v) => TableOf(x, v)'
    BY <2>2, <2>3, GateApplied
  <2>5. CASE r.ok
    <3>1. \/ g = "guard" /\ main' = "nat"
          \/ g = "nat" /\ main' = "listen"
      BY <2>2, <2>5 DEF Gates
    <3> QED BY <1>1, <2>1, <2>3, <2>4, <2>5, <3>1
      DEF InPart, Started, Unapplied, Applies, AppliedAll, Counts, TableOf, Gates
  <2>6. CASE ~ r.ok
    BY <1>3, <2>2, <2>6 DEF Gates
  <2> QED BY <2>5, <2>6
<1> QED BY <1>3, <1>4, <1>5, <1>6 DEF Listen

\* Nothing is claimed of a csa that ends, or that will.
LEMMA EndInPart ==
  ASSUME IInv, NEW h \in Handlers, InPart(h),
         \/ Stop \/ StopMixed \/ CloseSocket \/ Signal \/ Exit \/ Kill \/ StopEarly
         \/ \E g \in Gates : CloseGate(g)
  PROVE  InPart(h)'
<1>1. CASE Exit \/ Kill \/ StopEarly
  <2>1. main' = "down" /\ hd' = [k \in Handlers |-> Idle]
    BY <1>1 DEF Exit, Kill, StopEarly, Gone
  <2> QED BY <2>1 DEF InPart, Started, Unapplied, Applies, AppliedAll, Counts
<1>2. CASE main' \in {"close socket", "close nat", "close guard", "exit"}
  BY <1>2 DEF InPart, Started, Unapplied, Applies, AppliedAll, Counts
<1>3. CASE Signal
  BY <1>3 DEF Signal, InPart, Started, Unapplied, Applies, AppliedAll, Counts,
              TableOf, device, gates
<1> QED BY <1>1, <1>2, <1>3 DEF Stop, StopMixed, CloseSocket, CloseGate, Gates

LEMMA NextInPart ==
  ASSUME IInv, [Next]_vars, NEW h, Handlers = {h}, InPart(h)
  PROVE  InPart(h)'
<1>1. h \in Handlers /\ \A k \in Handlers : k = h
  OBVIOUS
<1>2. CASE Open \/ Listen \/ \E g \in Gates : StartGate(g)
  BY <1>1, <1>2, StartInPart
<1>3. CASE \/ Stop \/ StopMixed \/ CloseSocket \/ Signal \/ Exit \/ Kill \/ StopEarly
           \/ \E g \in Gates : CloseGate(g)
  BY <1>1, <1>3, EndInPart
<1>4. CASE Accept(h) \/ Ask(h) \/ Compare(h) \/ Check(h)
  BY <1>1, <1>4, EarlyInPart
<1>5. CASE ReadWas(h) \/ IpcSet(h) \/ StoreRules(h) \/ StoreSnap(h)
  BY <1>1, <1>5, DeviceInPart
<1>6. CASE \E g \in Gates : ApplyGate(h, g)
  BY <1>1, <1>6, GateInPart
<1>7. CASE Answer(h)
  BY <1>1, <1>7, AnswerInPart
<1>8. CASE UNCHANGED vars \/ \E v \in Versions : Edit(v)
  <2>1. UNCHANGED <<main, live, device, gates, hd, mixed>>
    BY <1>8 DEF vars, Edit, device, gates
  <2> QED BY <2>1
    DEF InPart, Started, Unapplied, Applies, AppliedAll, Counts, InForce,
        WgOfOrTorn, TableOf, Target, device, gates
<1> QED
  BY <1>1, <1>2, <1>3, <1>4, <1>5, <1>6, <1>7, <1>8 DEF Next, Main, Reload

(***************************************************************************)
(* With one reload at a time, csa enforces what csa status says it         *)
(* follows, after any sequence of reloads, failures half-way and ways back *)
(* (main.go:419-478).  For two at once TLC has the counterexample.         *)
(***************************************************************************)
THEOREM StatusIsTrueForOne ==
  ASSUME NEW h, Handlers = {h}
  PROVE  Spec => []StatusIsTrue
<1>1. Init => InPart(h)
  BY DEF Init, InPart, Started, Unapplied, Applies, AppliedAll, Counts
<1>2. IInv /\ InPart(h) /\ [Next]_vars => InPart(h)'
  BY NextInPart
<1>3. InPart(h) => StatusIsTrue
  BY DEF InPart, Unapplied, Counts, InForce, WgOfOrTorn, TableOf, StatusIsTrue, Quiet
<1> QED BY <1>1, <1>2, <1>3, Invariant, PTL DEF Spec
=============================================================================
