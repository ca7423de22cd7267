----------------------------- MODULE FlowTable -----------------------------
(***************************************************************************)
(* The table of flows of internal/wgdev/flow.go.  csa keeps two of them:   *)
(* the log table (filter.flows), which answers "is this the first packet   *)
(* of this flow", and the connection table (filter.conns), which answers   *)
(* "is this packet the answer to a connection csa let through".            *)
(*                                                                         *)
(* A table is a function from the flows it remembers to entries.  An entry *)
(* does not hold the clock reading it was written with but its age, the    *)
(* number of ticks since; a table is therefore bounded without a bound on  *)
(* time.  Go's map gives no order, so the entries sweep drops when the     *)
(* table is still full are any entries: the operators that may sweep give  *)
(* the set of tables the code can be left with.                            *)
(*                                                                         *)
(* now is the age of the caller's own clock reading: First, Allow and      *)
(* IsReply read the clock before they take the lock.                       *)
(***************************************************************************)
EXTENDS Integers, FiniteSets, FiniteSetsExt

CONSTANT Keys      \* the flows (five-tuples) that can occur

Entry == [age : Nat, allowed : BOOLEAN]

IsTable(t) == /\ DOMAIN t \subseteq Keys
              /\ t \in [DOMAIN t -> Entry]

EmptyTable == [k \in {} |-> [age |-> 0, allowed |-> FALSE]]

Put(t, k, e) == [j \in DOMAIN t \cup {k} |-> IF j = k THEN e ELSE t[j]]

\* The flows still remembered by a caller that read the clock now ticks ago.
Live(t, ttl, now) == {k \in DOMAIN t : t[k].age - now < ttl[k]}

(***************************************************************************)
(* sweep: drop what is over its time; if the table is still full, drop     *)
(* half of it, and at least one entry.                                     *)
(***************************************************************************)
Swept(t, ttl, max, now) ==
  LET live == Live(t, ttl, now)
      n    == Cardinality(live)
      half == Max({1, n \div 2})
  IN  IF n < max
      THEN {Restrict(t, live)}
      ELSE {Restrict(t, live \ gone) :
              gone \in {S \in SUBSET live : Cardinality(S) = half}}

\* Mutant of Room: one entry late.
RoomOneLate(t, ttl, max, now) ==
  IF Cardinality(DOMAIN t) > max THEN Swept(t, ttl, max, now) ELSE {t}

\* What First and Allow leave before they write: they sweep a full table.
Room(t, ttl, max, now) ==
  IF Cardinality(DOMAIN t) >= max THEN Swept(t, ttl, max, now) ELSE {t}

\* First returns false: the flow is remembered, and its age starts again.
Seen(t, ttl, k, now) == k \in Live(t, ttl, now)

\* Mutant of Touch: the entry is written anew, as First writes it.
TouchAnew(t, k, now) == Put(t, k, [age |-> now, allowed |-> FALSE])

Touch(t, k, now) == [t EXCEPT ![k].age = now]

\* First returns true: the flow is written down, not as let through.
FirstOutcomes(t, ttl, max, k, now) ==
  {Put(u, k, [age |-> now, allowed |-> FALSE]) : u \in Room(t, ttl, max, now)}

AllowOutcomes(t, ttl, max, k, now) ==
  {Put(u, k, [age |-> now, allowed |-> TRUE]) : u \in Room(t, ttl, max, now)}

\* IsReply, asked of the opposite direction rev of the packet's flow.
Answers(t, ttl, rev, now) == rev \in Live(t, ttl, now) /\ t[rev].allowed

\* Forget drops the flows let through that keep does not hold.
Forgotten(t, keep) ==
  Restrict(t, {k \in DOMAIN t : ~ t[k].allowed \/ k \in keep})

(***************************************************************************)
(* One tick of the clock.  An age is capped: beyond its cap (the flow's    *)
(* ttl plus the oldest clock reading a caller may hold) no caller can tell *)
(* two ages apart.                                                         *)
(***************************************************************************)
Older(t, cap) ==
  [k \in DOMAIN t |->
     [t[k] EXCEPT !.age = IF t[k].age < cap[k] THEN t[k].age + 1 ELSE t[k].age]]
============================================================================
