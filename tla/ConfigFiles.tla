----------------------------- MODULE ConfigFiles -----------------------------
(***************************************************************************)
(* The files csa runs on, and who writes them while csa reads them.  Load  *)
(* reads csa.toml, peers.toml and policy.toml one after the other, Secrets *)
(* then the private key and the pre-shared key, once; the bytes that were  *)
(* checked are the bytes that are used, and the hash csa status shows is   *)
(* the hash of the bytes that were parsed (internal/config:Load, decode,   *)
(* Secrets; cmd/csa/main.go:runRun, reload, writeSecret).                  *)
(*                                                                         *)
(* A program deploys sets of the three files, one file at a time, asks for *)
(* a reload, and takes the set for deployed when csa shows its hash.       *)
(* csa genkey and csa genpsk write secrets, with -f or without, and may    *)
(* die at any step.  csa may be killed, and is started again.              *)
(*                                                                         *)
(* Agent has the reloads that overlap and the steps in which one fails and *)
(* is undone, Config what the checks look at; here a configuration is put  *)
(* together under the feet of one reader at a time, and nobody deletes a   *)
(* secret.  A hash stands for the bytes it was made of.                    *)
(***************************************************************************)
EXTENDS Integers, Sequences

CONSTANTS
  Contents,     \* what a file may hold
  Half,         \* the content of a file that is still being written
  InPlace,      \* the files the deployer writes in place
  Parses,       \* the contents decode takes, for each file
  Sense,        \* what a content means to Diff, for each file
  Pub,          \* the public key peers.toml gives this machine
  Requires,     \* the contents of csa.toml with psk.mode required
  Coherent,     \* the triples in which Validate finds nothing else wrong
  Deployments,  \* the triples that are deployed
  Makers,       \* runs of genkey and genpsk; each makes one secret
  Kind,         \* the secret each makes
  Forced,       \* the runs that are given -f
  First,        \* the run that made the private key there is in the beginning
  None,         \* no file, no configuration
  Refused       \* a secret that could not be read, or is none

File == 1..3    \* csa.toml, peers.toml, policy.toml
Secret == {"private", "psk"}
Triples == [File -> Contents]

ASSUME FilesAssumption ==
  /\ Half \in Contents /\ InPlace \subseteq File
  /\ Parses \in [File -> SUBSET Contents]
  /\ DOMAIN Sense = File /\ \A i \in File : DOMAIN Sense[i] = Contents
  /\ DOMAIN Pub = Contents
  /\ Requires \subseteq Contents
  /\ Coherent \subseteq Triples /\ Deployments \subseteq Triples
  /\ Kind \in [Makers -> Secret] /\ Forced \subseteq Makers
  /\ First \in Makers /\ Kind[First] = "private"
  /\ None \notin Makers \cup {Refused} /\ Refused \notin Makers

VARIABLES
  disk,     \* the three files
  goal,     \* the set the deployer wants
  phase,    \* "putting", "asking", or "sure" that csa follows it
  run,      \* how far each run of genkey or genpsk is
  at,       \* whose secret is at each path
  job,      \* where the start or the reload in progress is
  cur,      \* the configuration it reads
  live,     \* the configuration in force
  wg,       \* the secrets wg was given
  restart   \* csa has answered that it must be restarted

files  == <<disk, goal, phase>>
stores == <<run, at>>
agent  == <<job, cur, live, wg, restart>>
vars   == <<files, stores, agent>>

Unread == [s \in Secret |-> None]
Blank  == [raw |-> <<>>, hash |-> <<>>, sec |-> Unread]

Init ==
  /\ disk \in Deployments /\ goal = disk /\ phase = "putting"
  /\ run = [m \in Makers |-> IF m = First THEN "done" ELSE "new"]
  /\ at = [s \in Secret |-> IF s = "private" THEN First ELSE None]
  /\ job = "none" /\ cur = Blank /\ live = None /\ wg = Unread
  /\ restart = FALSE

----------------------------------------------------------------------------
(* The deployer.                                                           *)

NewGoal ==
  /\ phase # "putting"
  /\ goal' \in Deployments /\ phase' = "putting" /\ restart' = FALSE
  /\ UNCHANGED <<disk, stores, job, cur, live, wg>>

\* A file is replaced at once, or written in place and for a while half.
Put(i) ==
  /\ phase = "putting" /\ disk[i] # goal[i]
  /\ \E c \in {goal[i]} \cup (IF i \in InPlace THEN {Half} ELSE {}) :
       disk' = [disk EXCEPT ![i] = c]
  /\ UNCHANGED <<goal, phase, stores, agent>>

AllPut ==
  /\ phase = "putting" /\ disk = goal
  /\ phase' = "asking"
  /\ UNCHANGED <<disk, goal, stores, agent>>

\* csa status: is it the hash of what was deployed?
Confirm ==
  /\ phase = "asking" /\ live # None
  /\ live.hash = goal
  /\ phase' = "sure"
  /\ UNCHANGED <<disk, goal, stores, agent>>

----------------------------------------------------------------------------
(* writeSecret.                                                            *)

Whole(m) == run[m] \in {"written", "done"}

\* With -f a file under another name; without, at the path itself, if there
\* is none.
Create(m) ==
  /\ run[m] = "new"
  /\ IF m \in Forced
     THEN run' = [run EXCEPT ![m] = "made"] /\ UNCHANGED at
     ELSE IF at[Kind[m]] = None
     THEN /\ run' = [run EXCEPT ![m] = "made"]
          /\ at' = [at EXCEPT ![Kind[m]] = m]
     ELSE run' = [run EXCEPT ![m] = "dead"] /\ UNCHANGED at
  /\ UNCHANGED <<files, agent>>

Write(m) ==
  /\ run[m] = "made"
  /\ run' = [run EXCEPT ![m] = IF m \in Forced THEN "written" ELSE "done"]
  /\ UNCHANGED <<at, files, agent>>

\* Mutant of Rename: the new file takes the place before it is written.
RenameEarly(m) ==
  /\ run[m] = "made" /\ m \in Forced
  /\ at' = [at EXCEPT ![Kind[m]] = m]
  /\ UNCHANGED <<run, files, agent>>

Rename(m) ==
  /\ run[m] = "written"
  /\ run' = [run EXCEPT ![m] = "done"]
  /\ at' = [at EXCEPT ![Kind[m]] = m]
  /\ UNCHANGED <<files, agent>>

\* A call fails or the run is killed: what it left at the path stays.
Die(m) ==
  /\ run[m] \in {"made", "written"}
  /\ run' = [run EXCEPT ![m] = "dead"]
  /\ UNCHANGED <<at, files, agent>>

----------------------------------------------------------------------------
(* csa.                                                                    *)

\* ReadSecret, and the check that what it read is a key: one open file is
\* both looked at and read.
Read(s) == IF at[s] = None THEN None
           ELSE IF ~Whole(at[s]) THEN Refused
           ELSE at[s]

\* Mutant of HashFiles: the files are read once more for it.
HashOfDisk(raw) == disk

HashFiles(raw) == raw

Begin ==
  /\ job = "none"
  /\ job' = "load" /\ cur' = Blank
  /\ UNCHANGED <<live, wg, restart, files, stores>>

\* runRun, by hand or by what supervises csa.
Start == live = None /\ Begin

\* csa reload by the deployer, and by anyone.
Ask == phase = "asking" /\ live # None /\ live.hash # goal /\ ~restart /\ Begin
Request == live # None /\ Begin

\* The start ends, or the reload leaves everything as it is.
Refuse ==
  /\ job' = "none" /\ cur' = Blank
  /\ UNCHANGED <<live, wg, files, stores>>

Next3 == Len(cur.raw) + 1   \* the file that is next

\* One file is read and parsed; after the third, the hash.
Decode ==
  /\ job = "load" /\ Next3 \in File
  /\ IF disk[Next3] \in Parses[Next3]
     THEN /\ LET raw == Append(cur.raw, disk[Next3])
             IN cur' = [cur EXCEPT !.raw = raw,
                          !.hash = IF Len(raw) = 3 THEN HashFiles(raw) ELSE <<>>]
          /\ job' = IF Next3 = 3 THEN "private" ELSE "load"
          /\ UNCHANGED <<live, wg, files, stores>>
     ELSE Refuse
  /\ UNCHANGED restart

\* Secrets, for the first time: the private key, then the peer's secret.
ReadPrivate ==
  /\ job = "private"
  /\ cur' = [cur EXCEPT !.sec["private"] = Read("private")] /\ job' = "psk"
  /\ UNCHANGED <<live, wg, restart, files, stores>>

LoadPSK ==
  /\ job = "psk"
  /\ cur' = [cur EXCEPT !.sec["psk"] = Read("psk")] /\ job' = "validate"
  /\ UNCHANGED <<live, wg, restart, files, stores>>

checkKeyPair(c) ==
  /\ c.sec["private"] \in Makers
  /\ c.sec["private"] = Pub[c.raw[2]]

checkPSK(c) ==
  /\ c.sec["psk"] # Refused
  /\ c.raw[1] \in Requires => c.sec["psk"] # None

Valid(c) == checkKeyPair(c) /\ checkPSK(c) /\ c.raw \in Coherent

Same(i) == Sense[i][cur.raw[i]] = Sense[i][live.raw[i]]

\* Mutant of AnyChange: the files alone are compared.
AnyChangeOfFiles == ~Same(2) \/ ~Same(3)

\* Diff: SelfChanged and SelfPeerChanged, and whether anything else differs.
MustRestart == ~Same(1) \/ Pub[cur.raw[2]] # Pub[live.raw[2]]
AnyChange == ~Same(2) \/ ~Same(3) \/ cur.sec["psk"] # live.sec["psk"]

\* Mutant of Validate: files that say the same are left at that.
ValidateKeeps ==
  /\ job = "validate"
  /\ IF ~Valid(cur) THEN Refuse /\ UNCHANGED restart
     ELSE IF live # None /\ MustRestart THEN Refuse /\ restart' = TRUE
     ELSE IF live = None \/ AnyChange
     THEN job' = "set" /\ UNCHANGED <<cur, live, wg, restart, files, stores>>
     ELSE Refuse /\ UNCHANGED restart

\* Validate and Diff: nothing is changed, only what is followed when the new
\* files say the same.
Validate ==
  /\ job = "validate"
  /\ IF ~Valid(cur) THEN Refuse /\ UNCHANGED restart
     ELSE IF live = None
     THEN job' = "set" /\ UNCHANGED <<cur, live, wg, restart, files, stores>>
     ELSE IF MustRestart THEN Refuse /\ restart' = TRUE
     ELSE IF AnyChange
     THEN job' = "set" /\ UNCHANGED <<cur, live, wg, restart, files, stores>>
     ELSE /\ live' = cur /\ job' = "none" /\ cur' = Blank
          /\ UNCHANGED <<wg, restart, files, stores>>

\* What wg is told: at the start everything, at a reload the peer's secret,
\* and nothing of one that is not there.
Given(c) ==
  IF live = None THEN c.sec
  ELSE [wg EXCEPT !["psk"] = IF c.sec["psk"] = None THEN wg["psk"] ELSE c.sec["psk"]]

\* Mutant of Set: the secrets are read again when they are used.
SetReread ==
  /\ job = "set"
  /\ wg' = Given([cur EXCEPT !.sec = [s \in Secret |-> Read(s)]])
  /\ live' = cur /\ job' = "none" /\ cur' = Blank
  /\ UNCHANGED <<restart, files, stores>>

\* Open, or Device.Reload and the store after it.
Set ==
  /\ job = "set"
  /\ wg' = Given(cur) /\ live' = cur
  /\ job' = "none" /\ cur' = Blank
  /\ UNCHANGED <<restart, files, stores>>

\* The process ends, killed or told to.
End ==
  /\ job' = "none" /\ cur' = Blank /\ live' = None /\ wg' = Unread
  /\ restart' = FALSE
  /\ UNCHANGED <<files, stores>>

Kill == (live # None \/ job # "none") /\ End

\* A start that fails ends.  So does csa after a reload that cannot be undone.
\* One that is undone leaves wg as it was, but that no line of the way back
\* takes a pre-shared key away that there was none of before.  (An IpcSet that
\* fails half-way, which nothing undoes, is Agent's: RevertedIsWhole.)
SetFails ==
  /\ job = "set"
  /\ \/ End
     \/ /\ live # None
        /\ wg' \in {wg, [wg EXCEPT !["psk"] = IF live.sec["psk"] = None
                                            THEN Given(cur)["psk"] ELSE @]}
        /\ job' = "none" /\ cur' = Blank
        /\ UNCHANGED <<live, restart, files, stores>>

\* The deployer, told so, restarts csa.
Restart == phase = "asking" /\ live # None /\ restart /\ End

Reading == Decode \/ ReadPrivate \/ LoadPSK \/ Validate \/ Set \/ SetFails

Next ==
  \/ NewGoal \/ AllPut \/ Confirm \/ \E i \in File : Put(i)
  \/ \E m \in Makers : Create(m) \/ Write(m) \/ Rename(m) \/ Die(m)
  \/ Start \/ Ask \/ Request \/ Reading \/ Kill \/ Restart

Spec == Init /\ [][Next]_vars

\* A start and a reload go on and do not fail for ever, csa is started when it
\* is down, and the deployer puts what it wants, asks, looks, and restarts csa
\* when told to.
FairSpec ==
  /\ Spec
  /\ WF_vars(Reading) /\ SF_vars(Set) /\ WF_vars(Start)
  /\ WF_vars(AllPut) /\ WF_vars(Ask) /\ WF_vars(Restart) /\ WF_vars(Confirm)

----------------------------------------------------------------------------
(* Properties.                                                             *)

Results == Makers \cup {None, Refused}

\* Every variable has its type; a file that is taken parses, and no secret
\* that could not be read gets into a configuration in force or into wg.
TypeOK ==
  /\ disk \in Triples /\ goal \in Deployments
  /\ phase \in {"putting", "asking", "sure"}
  /\ run \in [Makers -> {"new", "made", "written", "done", "dead"}]
  /\ at \in [Secret -> Makers \cup {None}]
  /\ \A s \in Secret : at[s] # None => Kind[at[s]] = s
  /\ restart \in BOOLEAN
  /\ job \in {"none", "load", "private", "psk", "validate", "set"}
  /\ cur.raw \in Seq(Contents) /\ Len(cur.raw) <= 3
  /\ \A i \in 1..Len(cur.raw) : cur.raw[i] \in Parses[i]
  /\ job \notin {"none", "load"} => Len(cur.raw) = 3
  /\ cur.sec \in [Secret -> Results]
  /\ wg \in [Secret -> Makers \cup {None}]
  /\ live # None => live.raw \in Triples /\ live.sec \in [Secret -> Makers \cup {None}]

\* The private key wg uses is the one whose public half peers.toml, as csa
\* follows it, tells the others: it was validated with the very bytes that
\* were set, and a reload cannot change one without the other, whoever
\* replaces which file when (validate.go:379-406, diff.go:66).
KeyPairHolds ==
  live # None => wg["private"] = Pub[live.raw[2]]

\* The secrets of the configuration in force, which the next reload compares
\* with the files, are those wg has: a new secret is never overlooked, also
\* after reloads that failed and went back.  (Of a secret the configuration
\* does not have wg may have one: uapi.go:60-71 takes none away.)
SecretsInForce ==
  live # None =>
    \A s \in Secret : live.sec[s] # None => wg[s] = live.sec[s]

\* A deployer that sees its hash is followed as a whole: no file is of
\* another set, though the files were read while they were replaced.
ConfirmedIsFollowed ==
  [][phase = "asking" /\ phase' = "sure" => live.raw = goal]_vars

\* Once a whole secret is at a path, there is one at every moment, through
\* failures and deaths of those who replace it; and only -f replaces it.
KeyNeverLost ==
  [][\A s \in Secret : at[s] # None /\ Whole(at[s]) =>
       /\ at'[s] # None /\ Whole(at[s])'
       /\ at'[s] # at[s] => at'[s] \in Forced]_vars

\* What is needed to follow the set that is deployed is there.
Fits ==
  /\ disk = goal /\ \A i \in File : goal[i] \in Parses[i]
  /\ Valid([raw |-> goal, sec |-> [s \in Secret |-> Read(s)]])

\* A deployer whose set is valid does not ask for ever: csa comes to show
\* its hash, even when nothing in it means anything else.  (Unless csa is
\* killed again and again.)
DeployerIsAnswered ==
  <>[][~Kill]_vars => []<>(phase # "asking" \/ ~Fits)
=============================================================================
