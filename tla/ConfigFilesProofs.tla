-------------------------- MODULE ConfigFilesProofs --------------------------
(***************************************************************************)
(* Theorems about ConfigFiles for any contents of the three files, any     *)
(* sets of them that are deployed, and any number of runs of genkey and    *)
(* genpsk.                                                                 *)
(***************************************************************************)
EXTENDS ConfigFiles, TLAPS

Config == [raw : Seq(Contents), hash : Seq(Contents), sec : [Secret -> Results]]

\* The records behind TypeOK.
Records == cur \in Config /\ (live # None => live \in Config)

\* The hash of a configuration that has been read is that of its bytes.
Loaded ==
  /\ job \notin {"none", "load"} => cur.hash = cur.raw
  /\ live # None => live.hash = live.raw

\* What is about to be set was found valid, and needs no restart.
Checked == job = "set" => Valid(cur) /\ (live # None => ~MustRestart)

\* Only what -f writes is written under another name, and it comes to the
\* path when it is done.
Staged ==
  /\ \A m \in Makers : run[m] = "written" => m \in Forced
  /\ \A s \in Secret : at[s] # None /\ at[s] \in Forced => run[at[s]] = "done"

IInv == TypeOK /\ Records /\ Loaded /\ Checked /\ Staged
        /\ KeyPairHolds /\ SecretsInForce

LEMMA BlankIsConfig == Blank \in Config
BY FilesAssumption DEF Blank, Config, Unread, Results, Secret

LEMMA InitIInv == Init => IInv
<1> SUFFICES ASSUME Init PROVE IInv
  OBVIOUS
<1>1. /\ disk \in Triples /\ goal \in Deployments
      /\ phase \in {"putting", "asking", "sure"}
  BY FilesAssumption DEF Init
<1>2. /\ run \in [Makers -> {"new", "made", "written", "done", "dead"}]
      /\ at \in [Secret -> Makers \cup {None}]
      /\ \A s \in Secret : at[s] # None => Kind[at[s]] = s
  BY FilesAssumption DEF Init, Secret
<1>3. /\ cur.raw \in Seq(Contents) /\ Len(cur.raw) <= 3
      /\ \A i \in 1..Len(cur.raw) : cur.raw[i] \in Parses[i]
  BY DEF Init, Blank
<1>4. /\ cur.sec \in [Secret -> Results]
      /\ wg \in [Secret -> Makers \cup {None}]
  BY DEF Init, Blank, Unread, Results
<1>5. job = "none" /\ live = None /\ restart = FALSE /\ cur = Blank
  BY DEF Init
<1>6. TypeOK
  BY <1>1, <1>2, <1>3, <1>4, <1>5 DEF TypeOK
<1>7. Records /\ Loaded /\ Checked
  BY <1>5, BlankIsConfig
  DEF Records, Loaded, Checked, Blank, Unread, Secret
<1>8. Staged
  BY FilesAssumption DEF Init, Staged, Secret
<1>9. KeyPairHolds /\ SecretsInForce
  BY <1>5 DEF KeyPairHolds, SecretsInForce
<1> QED BY <1>6, <1>7, <1>8, <1>9 DEF IInv

\* What the deployer does concerns nothing csa has read.
LEMMA FilesStep ==
  ASSUME IInv, UNCHANGED <<stores, job, cur, live, wg>>,
         disk' \in Triples, goal' \in Deployments, restart' \in BOOLEAN,
         phase' \in {"putting", "asking", "sure"}
  PROVE  IInv'
<1> USE DEF stores
<1>1. TypeOK'
  BY DEF IInv, TypeOK
<1>2. Records' /\ Loaded' /\ Checked' /\ Staged'
  BY DEF IInv, Records, Loaded, Checked, Staged, Valid,
         checkKeyPair, checkPSK, MustRestart, Same
<1>3. KeyPairHolds' /\ SecretsInForce'
  BY DEF IInv, KeyPairHolds, SecretsInForce
<1> QED BY <1>1, <1>2, <1>3 DEF IInv

\* What writes secrets touches nothing csa has read.
LEMMA StoresStep ==
  ASSUME IInv, UNCHANGED <<files, agent>>,
         run' \in [Makers -> {"new", "made", "written", "done", "dead"}],
         at' \in [Secret -> Makers \cup {None}],
         \A s \in Secret : at'[s] # None => Kind[at'[s]] = s,
         Staged'
  PROVE  IInv'
<1> USE DEF files, agent
<1>1. TypeOK'
  BY DEF IInv, TypeOK
<1>2. Records' /\ Loaded' /\ Checked'
  BY DEF IInv, Records, Loaded, Checked, Valid,
         checkKeyPair, checkPSK, MustRestart, Same
<1>3. KeyPairHolds' /\ SecretsInForce'
  BY DEF IInv, KeyPairHolds, SecretsInForce
<1> QED BY <1>1, <1>2, <1>3 DEF IInv

LEMMA MakerSteps ==
  ASSUME IInv, NEW m \in Makers, Create(m) \/ Write(m) \/ Rename(m) \/ Die(m)
  PROVE  IInv'
<1>1. /\ Kind[m] \in Secret /\ m # None
      /\ run \in [Makers -> {"new", "made", "written", "done", "dead"}]
      /\ at \in [Secret -> Makers \cup {None}]
      /\ \A s \in Secret : at[s] # None => Kind[at[s]] = s
      /\ Staged
  BY FilesAssumption DEF IInv, TypeOK
<1>2. CASE Create(m)
  <2>1. CASE m \notin Forced /\ at[Kind[m]] = None
    <3>1. /\ run' = [run EXCEPT ![m] = "made"]
          /\ at' = [at EXCEPT ![Kind[m]] = m]
          /\ UNCHANGED <<files, agent>>
      BY <1>2, <2>1 DEF Create
    <3>2. Staged'
      BY <1>1, <2>1, <3>1 DEF Staged
    <3> QED BY <1>1, <3>1, <3>2, StoresStep
  <2>2. CASE ~(m \notin Forced /\ at[Kind[m]] = None)
    <3>1. /\ run[m] = "new" /\ at' = at /\ UNCHANGED <<files, agent>>
          /\ \E r \in {"made", "dead"} : run' = [run EXCEPT ![m] = r]
      BY <1>2, <2>2 DEF Create
    <3>2. Staged'
      BY <1>1, <3>1 DEF Staged
    <3> QED BY <1>1, <3>1, <3>2, StoresStep
  <2> QED BY <2>1, <2>2
<1>3. CASE Write(m)
  <2>1. /\ run[m] = "made" /\ at' = at /\ UNCHANGED <<files, agent>>
        /\ run' = [run EXCEPT ![m] = IF m \in Forced THEN "written" ELSE "done"]
    BY <1>3 DEF Write
  <2>2. Staged'
    BY <1>1, <2>1 DEF Staged
  <2> QED BY <1>1, <2>1, <2>2, StoresStep
<1>4. CASE Rename(m)
  <2>1. /\ run' = [run EXCEPT ![m] = "done"]
        /\ at' = [at EXCEPT ![Kind[m]] = m]
        /\ UNCHANGED <<files, agent>>
    BY <1>4 DEF Rename
  <2>2. Staged'
    BY <1>1, <2>1 DEF Staged
  <2> QED BY <1>1, <2>1, <2>2, StoresStep
<1>5. CASE Die(m)
  <2>1. /\ run[m] \in {"made", "written"} /\ at' = at
        /\ run' = [run EXCEPT ![m] = "dead"]
        /\ UNCHANGED <<files, agent>>
    BY <1>5 DEF Die
  <2>2. Staged'
    BY <1>1, <2>1 DEF Staged
  <2> QED BY <1>1, <2>1, <2>2, StoresStep
<1> QED BY <1>2, <1>3, <1>4, <1>5

\* A start or a reload that begins or is given up has read nothing.
LEMMA BlankStep ==
  ASSUME IInv, job' \in {"none", "load"}, cur' = Blank, restart' \in BOOLEAN,
         \/ UNCHANGED <<live, wg>>
         \/ live' = None /\ wg' = Unread,
         UNCHANGED <<files, stores>>
  PROVE  IInv'
<1> USE DEF files, stores
<1>1. /\ cur'.raw = <<>> /\ cur'.raw \in Seq(Contents) /\ Len(cur'.raw) = 0
      /\ cur'.sec = Unread /\ cur'.sec \in [Secret -> Results]
      /\ Unread \in [Secret -> Makers \cup {None}] /\ Unread["psk"] = None
  BY DEF Blank, Unread, Results, Secret
<1>2. TypeOK'
  BY <1>1 DEF IInv, TypeOK
<1>3. Records' /\ Loaded' /\ Checked' /\ Staged'
  BY <1>1, BlankIsConfig DEF IInv, Records, Loaded, Checked, Staged
<1>4. KeyPairHolds' /\ SecretsInForce'
  BY DEF IInv, KeyPairHolds, SecretsInForce
<1> QED BY <1>2, <1>3, <1>4 DEF IInv

\* One more file: the hash is made when all three are there.
LEMMA DecodeStep ==
  ASSUME IInv, Decode
  PROVE  IInv'
<1>1. /\ job = "load" /\ Next3 \in File /\ UNCHANGED restart
      /\ TypeOK /\ Records /\ Loaded
  BY DEF Decode, IInv
<1>2. CASE disk[Next3] \notin Parses[Next3]
  <2>1. Refuse
    BY <1>2 DEF Decode
  <2> QED BY <1>1, <2>1, BlankStep DEF Refuse, TypeOK
<1>3. CASE disk[Next3] \in Parses[Next3]
  <2> DEFINE raw == Append(cur.raw, disk[Next3])
  <2>1. /\ cur' = [cur EXCEPT !.raw = raw,
                             !.hash = IF Len(raw) = 3 THEN HashFiles(raw) ELSE <<>>]
        /\ job' = IF Next3 = 3 THEN "private" ELSE "load"
        /\ UNCHANGED <<live, wg, files, stores>>
    BY <1>3 DEF Decode
  <2>2. /\ cur.raw \in Seq(Contents) /\ Len(cur.raw) \in Nat
        /\ disk[Next3] \in Contents
    <3>1. cur.raw \in Seq(Contents) /\ disk \in [File -> Contents]
      BY <1>1 DEF TypeOK, Triples
    <3>2. Len(cur.raw) \in Nat
      BY <3>1
    <3> QED BY <1>1, <3>1, <3>2
  <2>3. /\ raw \in Seq(Contents) /\ Len(raw) = Next3
        /\ \A i \in 1..Len(raw) : raw[i] \in Parses[i]
    BY <1>1, <1>3, <2>2 DEF TypeOK, Next3
  <2> DEFINE hash == IF Len(raw) = 3 THEN HashFiles(raw) ELSE <<>>
  <2>h. hash \in Seq(Contents) /\ (job' = "private" => hash = raw)
    BY <2>1, <2>3 DEF HashFiles
  <2>c. cur' = [cur EXCEPT !.raw = raw, !.hash = hash]
    BY <2>1
  <2> HIDE DEF raw, hash
  <2>4. /\ cur'.raw = raw /\ cur'.sec = cur.sec
        /\ cur' \in Config
        /\ job' = "private" => cur'.hash = raw
    BY <1>1, <2>c, <2>h, <2>3 DEF Records, Config
  <2>5. Len(raw) <= 3 /\ (job' # "load" => Len(raw) = 3)
    BY <1>1, <2>1, <2>3 DEF File
  <2>6. TypeOK'
    BY <1>1, <2>1, <2>3, <2>4, <2>5 DEF TypeOK, files, stores
  <2>7. Records' /\ Loaded' /\ Checked' /\ Staged'
    BY <1>1, <2>1, <2>4
    DEF IInv, Records, Loaded, Checked, Staged, files, stores
  <2>8. KeyPairHolds' /\ SecretsInForce'
    BY <2>1 DEF IInv, KeyPairHolds, SecretsInForce
  <2> QED BY <2>6, <2>7, <2>8 DEF IInv
<1> QED BY <1>2, <1>3

\* A secret is read: what is there, or that it is none.
LEMMA ReadSteps ==
  ASSUME IInv, ReadPrivate \/ LoadPSK
  PROVE  IInv'
<1>1. TypeOK /\ Records /\ Loaded
  BY DEF IInv
<1>2. PICK s \in Secret :
        /\ job = (IF s = "private" THEN "private" ELSE "psk")
        /\ cur' = [cur EXCEPT !.sec[s] = Read(s)]
        /\ job' = (IF s = "private" THEN "psk" ELSE "validate")
        /\ UNCHANGED <<live, wg, restart, files, stores>>
  BY DEF ReadPrivate, LoadPSK, Secret
<1>3. Read(s) \in Results
  BY <1>1, FilesAssumption DEF Read, Results, TypeOK
<1>4. /\ cur' \in Config /\ cur'.raw = cur.raw /\ cur'.hash = cur.hash
      /\ cur'.sec = [cur.sec EXCEPT ![s] = Read(s)]
      /\ cur'.sec \in [Secret -> Results]
  BY <1>1, <1>2, <1>3 DEF Records, Config
<1>5. TypeOK'
  BY <1>1, <1>2, <1>4 DEF TypeOK, files, stores
<1>6. Records' /\ Loaded'
  BY <1>1, <1>2, <1>4 DEF Records, Loaded
<1>7. Checked' /\ Staged' /\ KeyPairHolds' /\ SecretsInForce'
  BY <1>2 DEF IInv, Checked, Staged, KeyPairHolds, SecretsInForce, stores
<1> QED BY <1>5, <1>6, <1>7 DEF IInv

\* What was found valid has no secret that could not be read.
LEMMA ValidSecrets ==
  ASSUME IInv, job \in {"validate", "set"}, Valid(cur)
  PROVE  /\ cur.raw \in Triples
         /\ cur.sec \in [Secret -> Makers \cup {None}]
         /\ cur.sec["private"] = Pub[cur.raw[2]]
<1>1. cur.raw \in Triples
  BY FilesAssumption DEF Valid
<1>2. cur.sec \in [Secret -> Results]
  BY DEF IInv, TypeOK
<1>3. cur.sec["private"] \in Makers /\ cur.sec["psk"] # Refused
  BY DEF Valid, checkKeyPair, checkPSK
<1>4. \A s \in Secret : cur.sec[s] \in Makers \cup {None}
  BY <1>2, <1>3 DEF Results, Secret
<1> QED BY <1>1, <1>2, <1>4 DEF Valid, checkKeyPair

\* What is followed next was valid, and wg has been given the secrets it has.
LEMMA FollowStep ==
  ASSUME IInv, job \in {"validate", "set"}, Valid(cur),
         live' = cur, wg' \in [Secret -> Makers \cup {None}],
         \A s \in Secret : cur.sec[s] # None => wg'[s] = cur.sec[s],
         job' = "none", cur' = Blank, UNCHANGED <<restart, files, stores>>
  PROVE  IInv'
<1> USE DEF files, stores
<1>1. /\ cur'.raw = <<>> /\ cur'.raw \in Seq(Contents) /\ Len(cur'.raw) = 0
      /\ cur'.sec = Unread /\ cur'.sec \in [Secret -> Results]
  BY DEF Blank, Unread, Results, Secret
<1>2. /\ live'.raw \in Triples
      /\ live'.sec \in [Secret -> Makers \cup {None}]
      /\ live'.sec["private"] = Pub[live'.raw[2]]
  BY ValidSecrets
<1>3. TypeOK'
  BY <1>1, <1>2 DEF IInv, TypeOK
<1>4. Records' /\ Loaded' /\ Checked' /\ Staged'
  BY <1>1, BlankIsConfig DEF IInv, Records, Loaded, Checked, Staged
<1>5. SecretsInForce'
  BY DEF SecretsInForce
<1>6. KeyPairHolds'
  <2>1. cur.sec["private"] # None
    BY FilesAssumption DEF Valid, checkKeyPair
  <2>2. wg'["private"] = live'.sec["private"]
    BY <2>1 DEF Secret
  <2> QED BY <1>2, <2>2 DEF KeyPairHolds
<1> QED BY <1>3, <1>4, <1>5, <1>6 DEF IInv

\* Where no restart is needed the private key is the one wg has.
LEMMA SameKey ==
  ASSUME IInv, job \in {"validate", "set"}, Valid(cur), live # None, ~MustRestart
  PROVE  cur.sec["private"] = wg["private"]
BY ValidSecrets DEF IInv, KeyPairHolds, MustRestart

LEMMA ValidateStep ==
  ASSUME IInv, Validate
  PROVE  IInv'
<1>1. TypeOK /\ job = "validate" /\ cur.sec \in [Secret -> Results]
      /\ wg \in [Secret -> Makers \cup {None}]
  BY DEF IInv, TypeOK, Validate
<1>2. CASE Refuse /\ restart' \in BOOLEAN
  BY <1>2, BlankStep DEF Refuse
<1>3. CASE /\ Valid(cur) /\ (live # None => ~MustRestart)
           /\ job' = "set" /\ UNCHANGED <<cur, live, wg, restart, files, stores>>
  <2>1. TypeOK'
    BY <1>1, <1>3 DEF TypeOK, files, stores
  <2>2. Records' /\ Loaded' /\ Staged'
    BY <1>1, <1>3 DEF IInv, Records, Loaded, Staged, stores
  <2>3. Checked' /\ KeyPairHolds' /\ SecretsInForce'
    BY <1>3 DEF IInv, Checked, KeyPairHolds, SecretsInForce, Valid,
                checkKeyPair, checkPSK, MustRestart, Same
  <2> QED BY <2>1, <2>2, <2>3 DEF IInv
<1>4. CASE /\ Valid(cur) /\ live # None /\ ~MustRestart /\ ~AnyChange
           /\ live' = cur /\ job' = "none" /\ cur' = Blank
           /\ UNCHANGED <<wg, restart, files, stores>>
  <2>1. cur.sec["private"] = wg["private"] /\ cur.sec["psk"] = live.sec["psk"]
    BY <1>1, <1>4, SameKey DEF AnyChange
  <2>2. \A s \in Secret : cur.sec[s] # None => wg'[s] = cur.sec[s]
    BY <1>1, <1>4, <2>1 DEF Secret, IInv, SecretsInForce
  <2> QED BY <1>1, <1>4, <2>2, FollowStep
<1> QED BY <1>1, <1>2, <1>3, <1>4 DEF Validate, TypeOK

\* wg is given every secret there is, and keeps one nothing is said of.
LEMMA GivenFacts ==
  ASSUME IInv, job = "set"
  PROVE  /\ Valid(cur) /\ Given(cur) \in [Secret -> Makers \cup {None}]
         /\ \A s \in Secret : cur.sec[s] # None => Given(cur)[s] = cur.sec[s]
<1>1. /\ Valid(cur) /\ (live # None => ~MustRestart)
      /\ cur.sec \in [Secret -> Makers \cup {None}]
      /\ wg \in [Secret -> Makers \cup {None}]
  BY ValidSecrets DEF IInv, TypeOK, Checked
<1>2. CASE live = None
  BY <1>1, <1>2 DEF Given
<1>3. CASE live # None
  <2>1. cur.sec["private"] = wg["private"]
    BY <1>1, <1>3, SameKey
  <2> QED BY <1>1, <1>3, <2>1 DEF Given, Secret
<1> QED BY <1>1, <1>2, <1>3

LEMMA SetStep ==
  ASSUME IInv, Set
  PROVE  IInv'
BY GivenFacts, FollowStep DEF Set

\* What is not followed after all has changed no secret of what is.
LEMMA SetFailsStep ==
  ASSUME IInv, SetFails
  PROVE  IInv'
<1>0. job = "set" /\ TypeOK /\ restart \in BOOLEAN
  BY DEF SetFails, IInv, TypeOK
<1>1. CASE End
  BY <1>1, BlankStep DEF End
<1>2. CASE live # None /\ UNCHANGED wg /\ SetFails /\ ~End
  BY <1>0, <1>2, BlankStep DEF SetFails
<1>3. CASE live # None /\ ~UNCHANGED wg /\ SetFails /\ ~End
  <2> DEFINE w == Given(cur)["psk"]
  <2>1. /\ live.sec["psk"] = None /\ wg' = [wg EXCEPT !["psk"] = w]
        /\ w \in Makers \cup {None}
        /\ job' = "none" /\ cur' = Blank
        /\ UNCHANGED <<live, restart, files, stores>>
        /\ wg \in [Secret -> Makers \cup {None}]
    BY <1>0, <1>3, GivenFacts DEF SetFails, Secret, TypeOK
  <2> HIDE DEF w
  <2>2. /\ wg' \in [Secret -> Makers \cup {None}] /\ wg'["private"] = wg["private"]
        /\ \A s \in Secret : live.sec[s] # None => wg'[s] = wg[s]
    BY <2>1 DEF Secret
  <2>3. /\ cur'.raw = <<>> /\ cur'.raw \in Seq(Contents) /\ Len(cur'.raw) = 0
        /\ cur'.sec \in [Secret -> Results]
    BY <2>1 DEF Blank, Unread, Results
  <2>4. TypeOK'
    BY <1>0, <2>1, <2>2, <2>3 DEF TypeOK, files, stores
  <2>5. Records' /\ Loaded' /\ Checked' /\ Staged'
    BY <2>1, BlankIsConfig DEF IInv, Records, Loaded, Checked, Staged, stores
  <2>6. KeyPairHolds' /\ SecretsInForce'
    BY <2>1, <2>2 DEF IInv, KeyPairHolds, SecretsInForce
  <2> QED BY <2>4, <2>5, <2>6 DEF IInv
<1> QED BY <1>0, <1>1, <1>2, <1>3 DEF SetFails

LEMMA NextIInv == IInv /\ [Next]_vars => IInv'
<1> SUFFICES ASSUME IInv, [Next]_vars PROVE IInv'
  OBVIOUS
<1>1. TypeOK
  BY DEF IInv
<1>2. CASE NewGoal \/ AllPut \/ Confirm
  BY <1>1, <1>2, FilesStep DEF NewGoal, AllPut, Confirm, TypeOK, agent
<1>3. ASSUME NEW i \in File, Put(i) PROVE IInv'
  <2>1. disk' \in Triples
    BY <1>1, <1>3, FilesAssumption DEF Put, TypeOK, Triples
  <2> QED BY <1>1, <1>3, <2>1, FilesStep DEF Put, TypeOK, agent
<1>4. ASSUME NEW m \in Makers, Create(m) \/ Write(m) \/ Rename(m) \/ Die(m)
      PROVE  IInv'
  BY <1>4, MakerSteps
<1>5. CASE Start \/ Ask \/ Request
  BY <1>1, <1>5, BlankStep DEF Start, Ask, Request, Begin, TypeOK
<1>6. CASE Reading
  BY <1>6, DecodeStep, ReadSteps, ValidateStep, SetStep, SetFailsStep DEF Reading
<1>7. CASE Kill \/ Restart
  BY <1>1, <1>7, BlankStep DEF Kill, Restart, End, TypeOK
<1>8. CASE UNCHANGED vars
  BY <1>1, <1>8, FilesStep DEF vars, files, agent, TypeOK
<1> QED BY <1>2, <1>3, <1>4, <1>5, <1>6, <1>7, <1>8 DEF Next

LEMMA Invariant == Spec => []IInv
BY InitIInv, NextIInv, PTL DEF Spec

(***************************************************************************)
(* Every variable has its type, and what is taken was parsed.              *)
(***************************************************************************)
THEOREM TypeCorrect == Spec => []TypeOK
<1>1. IInv => TypeOK
  BY DEF IInv
<1> QED BY Invariant, <1>1, PTL

(***************************************************************************)
(* The private key wg uses and the public key csa follows are a pair,      *)
(* whoever writes which file when (validate.go:checkKeyPair).              *)
(***************************************************************************)
THEOREM KeyPairHoldsAlways == Spec => []KeyPairHolds
<1>1. IInv => KeyPairHolds
  BY DEF IInv
<1> QED BY Invariant, <1>1, PTL

(***************************************************************************)
(* wg has the secrets the next reload compares with the files              *)
(* (diff.go:changedPSK).                                                   *)
(***************************************************************************)
THEOREM SecretsInForceAlways == Spec => []SecretsInForce
<1>1. IInv => SecretsInForce
  BY DEF IInv
<1> QED BY Invariant, <1>1, PTL

(***************************************************************************)
(* A deployer that sees its hash is followed in all three files            *)
(* (config.go:Load, HashFiles).                                            *)
(***************************************************************************)
THEOREM ConfirmedIsFollowedAlways == Spec => ConfirmedIsFollowed
<1>1. ASSUME IInv, [Next]_vars, phase = "asking", phase' = "sure"
      PROVE  live.raw = goal
  <2>1. Confirm
    BY <1>1 DEF Next, vars, files, stores, agent, NewGoal, AllPut, Put, Create,
       Write, Rename, Die, Start, Ask, Request, Begin, Reading, Decode, Refuse,
       ReadPrivate, LoadPSK, Validate, Set, SetFails,
       Kill, Restart, End
  <2> QED BY <1>1, <2>1 DEF Confirm, IInv, Loaded
<1>2. IInv /\ [Next]_vars
        => [phase = "asking" /\ phase' = "sure" => live.raw = goal]_vars
  BY <1>1
<1> QED BY Invariant, <1>2, PTL DEF Spec, ConfirmedIsFollowed

(***************************************************************************)
(* A whole secret at a path is followed by a whole secret, of a run with   *)
(* -f, and by nothing else (cmd/csa/main.go:writeSecret).                  *)
(***************************************************************************)
THEOREM KeyNeverLostAlways == Spec => KeyNeverLost
<1> DEFINE Kept(s) == at[s] # None /\ Whole(at[s]) =>
                        /\ at'[s] # None /\ Whole(at[s])'
                        /\ at'[s] # at[s] => at'[s] \in Forced
<1>1. ASSUME IInv, [Next]_vars, NEW s \in Secret PROVE Kept(s)
  <2>1. /\ run \in [Makers -> {"new", "made", "written", "done", "dead"}]
        /\ at \in [Secret -> Makers \cup {None}]
        /\ \A r \in Secret : at[r] # None => Kind[at[r]] = r
        /\ Staged
    BY <1>1 DEF IInv, TypeOK
  <2>2. CASE UNCHANGED stores
    BY <2>2 DEF stores, Whole
  <2>3. ASSUME NEW m \in Makers, Create(m) PROVE Kept(s)
    BY <2>1, <2>3, FilesAssumption DEF Create, Whole
  <2>4. ASSUME NEW m \in Makers, Write(m) PROVE Kept(s)
    BY <2>1, <2>4, FilesAssumption DEF Write, Whole
  <2>5. ASSUME NEW m \in Makers, Rename(m) PROVE Kept(s)
    BY <2>1, <2>5, FilesAssumption DEF Rename, Whole, Staged
  <2>6. ASSUME NEW m \in Makers, Die(m) PROVE Kept(s)
    BY <2>1, <2>6, FilesAssumption DEF Die, Whole, Staged
  <2>7. CASE ~UNCHANGED stores
    <3>1. \E m \in Makers : Create(m) \/ Write(m) \/ Rename(m) \/ Die(m)
      BY <1>1, <2>7 DEF Next, vars, agent, NewGoal, AllPut, Confirm, Put,
         Start, Ask, Request, Begin, Reading, Decode, Refuse, ReadPrivate,
         LoadPSK, Validate, Set, SetFails,
       Kill, Restart, End
    <3> QED BY <3>1, <2>3, <2>4, <2>5, <2>6
  <2> QED BY <2>2, <2>7
<1>2. IInv /\ [Next]_vars => [\A s \in Secret : Kept(s)]_vars
  BY <1>1
<1> QED BY Invariant, <1>2, PTL DEF Spec, KeyNeverLost
=============================================================================
