------------------------------ MODULE NftTable ------------------------------
(***************************************************************************)
(* The two objects that own an nftables table: guard.Guard (the direct     *)
(* path) and nat.NAT (the address rewriting).  Their life is the same code *)
(* twice, and so is one set of operators here: Check, Apply, removeTable,  *)
(* Keep and Close.                                                         *)
(*                                                                         *)
(* A table is NoTable or the ruleset it was made from.  The kernel's table *)
(* outlives the process; the object does not.  nft runs a batch as one     *)
(* transaction: a command replaces the table, or fails and changes nothing *)
(* (external).  A ruleset of NoTable stands for guard.mode = "off" and for *)
(* an empty nat configuration.                                             *)
(*                                                                         *)
(* The operators that run nft give the set of what the code can be left    *)
(* with: the object, the kernel's table, and whether it returned no error. *)
(***************************************************************************)
CONSTANTS Rulesets, NoTable

Object == [on : BOOLEAN, keep : BOOLEAN, unchecked : BOOLEAN]

New == [on |-> FALSE, keep |-> FALSE, unchecked |-> FALSE]

\* Mode off: the table of an earlier process is removed too.  Without an nft
\* command nobody can tell whether there is one.
Removed(o, t) ==
  { [obj |-> [o EXCEPT !.on = FALSE, !.unchecked = TRUE], table |-> t, ok |-> TRUE],
    [obj |-> o, table |-> t, ok |-> FALSE],
    [obj |-> [o EXCEPT !.on = FALSE, !.unchecked = FALSE], table |-> NoTable, ok |-> TRUE] }

\* Mutant of Applied: what an earlier process left is not looked for.
AppliedOwnOnly(o, t, want) ==
  IF want = NoTable
  THEN {[obj |-> [o EXCEPT !.on = FALSE, !.unchecked = FALSE], table |-> t, ok |-> TRUE]}
  ELSE { [obj |-> o, table |-> t, ok |-> FALSE],
         [obj |-> [o EXCEPT !.on = TRUE, !.unchecked = FALSE], table |-> want, ok |-> TRUE] }

\* Mutant of Applied: the old table is dropped in a batch of its own before
\* the new one is added, and only the second batch may fail.
AppliedInTwo(o, t, want) ==
  IF want = NoTable
  THEN Removed(o, t)
  ELSE { [obj |-> o, table |-> t, ok |-> FALSE],
         [obj |-> [o EXCEPT !.unchecked = FALSE], table |-> NoTable, ok |-> FALSE],
         [obj |-> [o EXCEPT !.on = TRUE, !.unchecked = FALSE], table |-> want, ok |-> TRUE] }

(***************************************************************************)
(* Apply: no nft command, a batch nft refuses, or the new table.           *)
(***************************************************************************)
Applied(o, t, want) ==
  IF want = NoTable
  THEN Removed(o, t)
  ELSE { [obj |-> o, table |-> t, ok |-> FALSE],
         [obj |-> [o EXCEPT !.unchecked = FALSE], table |-> t, ok |-> FALSE],
         [obj |-> [o EXCEPT !.on = TRUE, !.unchecked = FALSE], table |-> want, ok |-> TRUE] }

\* Check changes nothing; without a table to make it does not ask nft.
MayFailCheck(want) == want # NoTable

Kept(o) == [o EXCEPT !.keep = TRUE]

\* Mutant of Closed: Keep is not looked at.
ClosedAnyway(o, t) ==
  IF ~ o.on
  THEN {[obj |-> o, table |-> t, ok |-> TRUE]}
  ELSE { [obj |-> o, table |-> t, ok |-> FALSE],
         [obj |-> [o EXCEPT !.on = FALSE], table |-> NoTable, ok |-> TRUE] }

\* Close: ok is FALSE when nft could not delete the table, which is logged.
Closed(o, t) ==
  IF ~ o.on \/ o.keep
  THEN {[obj |-> o, table |-> t, ok |-> TRUE]}
  ELSE { [obj |-> o, table |-> t, ok |-> FALSE],
         [obj |-> [o EXCEPT !.on = FALSE], table |-> NoTable, ok |-> TRUE] }
=============================================================================
