----------------------- MODULE CertificatesTalliesProofs -----------------------
(***************************************************************************)
(* What the certificates keep on a deployment, however sweeps overlap on   *)
(* it: the sweep that completes it accounts for everybody covered, sheets  *)
(* and deployment carry one wording, the tally of claims is exact.         *)
(***************************************************************************)
EXTENDS CertificatesProofs

------------------------------------------------------------------------------
(* What it takes to change a run, a row, a sheet *)

\* A sweep writes no request of a director or a volunteer.
LEMMA SweepLeaves ==
  ASSUME NEW j \in Sweeps, SweepStep(j) \/ Fails(j) \/ Dies(j)
  PROVE  call' = call /\ open' = open /\ crossed \subseteq crossed'
<1>1. CASE Begins(j)
  BY <1>1 DEF Begins
<1>2. CASE Plans(j) \/ \E d \in Deployments : Gathers(j, d)
  BY <1>2 DEF Gathers, Plans
<1>3. CASE Counts(j) \/ Announces(j)
  BY <1>3 DEF Counts, Announces
<1>4. CASE Commits(j)
  BY <1>4 DEF Commits
<1>5. CASE Fails(j) \/ Dies(j)
  BY <1>5 DEF Fails, Dies
<1> QED
  BY <1>1, <1>2, <1>3, <1>4, <1>5 DEF SweepStep

\* A run that lets go of a deployment keeps what it read of the others.
Released(j, x) ==
    /\ x \in RunType /\ x.stage \in {"idle", "begun"} /\ x.at = NoDeployment
    /\ x.due \subseteq run[j].due
    /\ run[j].stage \in Working => run[j].at \notin x.due
    /\ \A e \in x.due : x.was[e] = run[j].was[e]

LEMMA OnwardReleases ==
  ASSUME IInv, NEW j \in Sweeps
  PROVE  /\ run[j].stage \in Working => Released(j, Onward(j))
         /\ Released(j, IdleRun)
<1>1. Released(j, IdleRun)
  BY DEF Released, IdleRun, RunType, HoursRead, Unread, ReadType
<1>2. ASSUME run[j].stage \in Working PROVE Released(j, Onward(j))
  <2> DEFINE rest == run[j].due \ {run[j].at}
             was == [run[j].was EXCEPT ![run[j].at] = Unread]
             x == [IdleRun EXCEPT !.stage = "begun", !.due = rest, !.was = was]
  <2>1. run[j] \in RunType
    BY DEF IInv, TypeOK
  <2>2. /\ rest \in SUBSET Deployments /\ was \in [Deployments -> ReadType]
        /\ \A e \in rest : was[e] = run[j].was[e]
    BY <2>1 DEF RunType, Unread, ReadType
  <2>3. Onward(j) = IdleRun \/ Onward(j) = x
    BY DEF Onward
  <2>r. rest \subseteq run[j].due /\ run[j].at \notin rest
    OBVIOUS
  <2> HIDE DEF rest, was
  <2>4. /\ x \in RunType /\ x.stage = "begun" /\ x.at = NoDeployment /\ x.due = rest /\ x.was = was
    BY <2>2 DEF IdleRun, RunType, HoursRead
  <2> HIDE DEF x
  <2> QED
    BY <1>1, <2>2, <2>3, <2>4, <2>r DEF Released
<1> QED
  BY <1>1, <1>2

\* The run that committed: still at its deployment to tell its batch, or released.
LEMMA CommitLeaves ==
  ASSUME IInv, NEW j \in Sweeps, Commits(j)
  PROVE  /\ \A k \in Sweeps : k # j => run'[k] = run[k]
         /\ \/ Released(j, run'[j])
            \/ /\ run'[j].stage = "telling" /\ run'[j].at = run[j].at
               /\ run'[j].due = run[j].due /\ run'[j].was = run[j].was
         /\ run'[j].due \subseteq run[j].due
<1> DEFINE tells == [run[j] EXCEPT !.stage = "telling", !.top = 0, !.participants = 0,
                                   !.absent = {}, !.distributed = 0, !.claimed = 0]
<1>1. run[j] \in RunType /\ run[j].stage \in Working
  BY DEF IInv, TypeOK, Commits, Working
<1>2. /\ tells \in RunType /\ tells.stage = "telling" /\ tells.at = run[j].at
      /\ tells.due = run[j].due /\ tells.was = run[j].was
  BY <1>1 DEF RunType
<1>3. run' = [run EXCEPT ![j] = IF InBatch(j) = {} THEN Onward(j) ELSE tells]
  BY DEF Commits
<1>4. Released(j, Onward(j))
  BY <1>1, OnwardReleases
<1>5. run'[j] = IF InBatch(j) = {} THEN Onward(j) ELSE tells
  BY <1>3 DEF IInv, TypeOK
<1>6. \A k \in Sweeps : k # j => run'[k] = run[k]
  BY CommitRuns
<1> HIDE DEF tells
<1> QED
  BY <1>2, <1>4, <1>5, <1>6 DEF Released

\* What a director's request writes on a row: no tally, and the wording only if it deploys.
LEMMA Written ==
  ASSUME IInv, NEW c \in Directors, Deployed(c) \/ Steered(c), NEW e \in Deployments
  PROVE  /\ deployment'[e].distributed = deployment[e].distributed
         /\ deployment'[e].claimed = deployment[e].claimed
         /\ deployment'[e].absent = deployment[e].absent
         /\ deployment'[e].dropped = deployment[e].dropped
         /\ deployment'[e].status = "COMPLETED" /\ ~deployment'[e].byHand =>
              deployment[e].status = "COMPLETED" /\ ~deployment[e].byHand
         /\ \/ e = call[c].at /\ call[c].stage = "deploy"
            \/ deployment'[e].design = deployment[e].design
<1>1. deployment \in [Deployments -> DeploymentType] /\ deployment[e] \in DeploymentType
  BY DEF IInv, TypeOK
<1>2. CASE deployment' = deployment
  BY <1>2
<1>3. CASE e # call[c].at
  BY <1>1, <1>3 DEF Deployed, Steered
<1>4. CASE e = call[c].at /\ Deployed(c) /\ call[c].status # "NONE"
  BY <1>1, <1>4 DEF Deployed, DeploymentType
<1>5. CASE e = call[c].at /\ Deployed(c) /\ call[c].status = "NONE" /\ deployment[e].status = "NONE"
  BY <1>1, <1>5 DEF Deployed, DeploymentType, Derived
<1>6. CASE e = call[c].at /\ Deployed(c) /\ call[c].status = "NONE" /\ deployment[e].status # "NONE"
  BY <1>6 DEF Deployed
<1>7. CASE e = call[c].at /\ Steered(c)
  BY <1>1, <1>7 DEF Steered, DeploymentType
<1> QED
  BY <1>2, <1>3, <1>4, <1>5, <1>6, <1>7

\* What a claim writes: one sheet is opened, and one more is counted.
MarksClaimed(d, r) ==
    /\ \A e \in Deployments, q \in Rows : e # d \/ q # r => sheet'[e][q] = sheet[e][q]
    /\ sheet'[d][r].claimed
    /\ sheet'[d][r].number = sheet[d][r].number /\ sheet'[d][r].design = sheet[d][r].design
    /\ \A e \in Deployments : e # d => deployment'[e] = deployment[e]
    /\ deployment'[d] = [deployment[d] EXCEPT !.claimed = deployment[d].claimed + 1]

LEMMA ClaimWrites ==
  ASSUME IInv, NEW v \in Viewers, Claims(v)
  PROVE  \E d \in Deployments, r \in Rows : d = open[v].at /\ r = open[v].row /\ MarksClaimed(d, r)
<1>0. PICK d \in Deployments, r \in Rows : d = open[v].at /\ r = open[v].row
  BY DEF IInv, Opened, Held, Claims
<1>1. /\ sheet \in [Deployments -> [Rows -> SheetType]]
      /\ deployment \in [Deployments -> DeploymentType]
  BY DEF IInv, TypeOK
<1>2. /\ sheet' = [sheet EXCEPT ![d][r].claimed = TRUE]
      /\ deployment' = [deployment EXCEPT ![d].claimed = @ + 1]
  BY <1>0 DEF Claims
<1>3. /\ sheet[d] \in [Rows -> SheetType] /\ sheet[d][r] \in SheetType
      /\ sheet'[d] = [sheet[d] EXCEPT ![r] = [sheet[d][r] EXCEPT !.claimed = TRUE]]
      /\ \A e \in Deployments : e # d => sheet'[e] = sheet[e] /\ deployment'[e] = deployment[e]
      /\ deployment'[d] = [deployment[d] EXCEPT !.claimed = deployment[d].claimed + 1]
  BY <1>0, <1>1, <1>2
<1>4. /\ sheet'[d][r] = [sheet[d][r] EXCEPT !.claimed = TRUE]
      /\ \A q \in Rows : q # r => sheet'[d][q] = sheet[d][q]
  BY <1>3
<1>5. MarksClaimed(d, r)
  BY <1>3, <1>4 DEF SheetType, MarksClaimed
<1> QED
  BY <1>0, <1>5

\* The stages in which a run holds a batch that is not committed.
InHand == {"gathered", "planned", "counted"}

\* A run takes something in hand only by beginning; what it has read, it keeps; and it
\* holds a batch because it gathers one, plans or counts for it, or did nothing.
LEMMA Moves ==
  ASSUME IInv, [Next]_vars, NEW k \in Sweeps
  PROVE  \/ Begins(k)
         \/ /\ \A e \in run'[k].due : e \in run[k].due /\ run'[k].was[e] = run[k].was[e]
            /\ run'[k].stage = "counted" => run'[k] = run[k] \/ Counts(k)
            /\ run'[k].stage \in InHand =>
                 \/ run'[k] = run[k] \/ Counts(k) \/ Plans(k)
                 \/ \E d \in Deployments : Gathers(k, d)
<1> DEFINE Goal ==
      /\ \A e \in run'[k].due : e \in run[k].due /\ run'[k].was[e] = run[k].was[e]
      /\ run'[k].stage = "counted" => run'[k] = run[k] \/ Counts(k)
      /\ run'[k].stage \in InHand =>
           \/ run'[k] = run[k] \/ Counts(k) \/ Plans(k)
           \/ \E d \in Deployments : Gathers(k, d)
<1>0. run \in [Sweeps -> RunType] /\ run[k] \in RunType
  BY DEF IInv, TypeOK
<1>1. CASE run'[k] = run[k]
  BY <1>1
<1>2. CASE Plans(k) \/ Counts(k)
  <2>1. CASE Plans(k)
    BY <1>0, <2>1 DEF Plans, RunType
  <2>2. CASE Counts(k)
    BY <1>0, <2>2 DEF Counts, RunType
  <2> QED
    BY <1>2, <2>1, <2>2
<1>3. CASE Released(k, run'[k])
  BY <1>3 DEF Released, InHand
<1>4. CASE Commits(k)
  BY <1>3, <1>4, CommitLeaves DEF InHand
<1>5. CASE Announces(k) \/ Fails(k) \/ Dies(k)
  <2>1. \/ run' = [run EXCEPT ![k] = Onward(k)] /\ run[k].stage \in Working
        \/ run' = [run EXCEPT ![k] = IdleRun]
    BY <1>5 DEF Announces, Fails, Dies, Working
  <2>2. \/ run'[k] = Onward(k) /\ run[k].stage \in Working
        \/ run'[k] = IdleRun
    BY <1>0, <2>1
  <2> QED
    BY <1>3, <2>2, OnwardReleases
<1>6. ASSUME NEW d \in Deployments, Gathers(k, d) PROVE Goal
  BY <1>0, <1>6 DEF Gathers, RunType
<1>7. ASSUME NEW j \in Sweeps, j # k, SweepStep(j) \/ Fails(j) \/ Dies(j) PROVE Goal
  <2>1. CASE Commits(j)
    BY <1>1, <1>7, <2>1, CommitRuns
  <2>2. CASE ~Commits(j)
    <3>1. run'[k] = run[k]
      BY <1>0, <1>7, <2>2 DEF SweepStep, Begins, Gathers, Plans, Counts, Announces, Fails, Dies
    <3> QED
      BY <1>1, <3>1
  <2> QED
    BY <2>1, <2>2
<1>8. CASE run' = run
  BY <1>1, <1>8
<1>9. CASE SweepStep(k) \/ Fails(k) \/ Dies(k)
  BY <1>2, <1>4, <1>5, <1>6, <1>9 DEF SweepStep
<1>10. CASE ~\E j \in Sweeps : SweepStep(j) \/ Fails(j) \/ Dies(j)
  <2>1. run' = run
    BY <1>10 DEF Next, vars, Ends, Ruled, Answers, Deploys, Steers, Deployed, Steered, Opens, Claims
  <2> QED
    BY <1>8, <2>1
<1> HIDE DEF Goal
<1> QED
  BY <1>7, <1>9, <1>10 DEF Goal

\* A run that begins has in hand what is due, the wording of it and its tally.
LEMMA BeginsReads ==
  ASSUME IInv, NEW j \in Sweeps, Begins(j)
  PROVE  /\ run'[j].due = Due
         /\ \A d \in Due : /\ run'[j].was[d].design = deployment[d].design
                           /\ run'[j].was[d].distributed = deployment[d].distributed
<1> DEFINE was == [d \in Deployments |->
                     IF d \in Due THEN [design |-> deployment[d].design,
                                       distributed |-> deployment[d].distributed]
                     ELSE Unread]
<1>1. run'[j] = [IdleRun EXCEPT !.stage = "begun", !.due = Due, !.was = was]
  BY DEF Begins, IInv, TypeOK
<1>2. \A d \in Due : /\ was[d].design = deployment[d].design
                     /\ was[d].distributed = deployment[d].distributed
  BY DEF Due
<1> HIDE DEF was
<1> QED
  BY <1>1, <1>2 DEF IdleRun

\* Only a request to deploy changes the wording of a deployment.
LEMMA DesignKept ==
  ASSUME IInv, [Next]_vars, NEW d \in Deployments
  PROVE  \/ deployment'[d].design = deployment[d].design
         \/ \E c \in Directors : call[c].stage = "deploy" /\ call[c].at = d /\ Deployed(c)
<1>1. CASE deployment' = deployment
  BY <1>1
<1>2. ASSUME NEW c \in Directors, Deployed(c) \/ Steered(c)
      PROVE  \/ deployment'[d].design = deployment[d].design
             \/ call[c].stage = "deploy" /\ call[c].at = d /\ Deployed(c)
  <2>1. \/ d = call[c].at /\ call[c].stage = "deploy"
        \/ deployment'[d].design = deployment[d].design
    BY <1>2, Written
  <2>2. Steered(c) => call[c].stage # "deploy"
    BY DEF Steered
  <2> QED
    BY <1>2, <2>1, <2>2
<1>3. ASSUME NEW v \in Viewers, Claims(v)
      PROVE  deployment'[d].design = deployment[d].design
  <2>1. PICK e \in Deployments, r \in Rows : MarksClaimed(e, r)
    BY <1>3, ClaimWrites
  <2>2. deployment[d] \in DeploymentType
    BY DEF IInv, TypeOK
  <2> QED
    BY <2>1, <2>2 DEF DeploymentType, MarksClaimed
<1>4. ASSUME NEW j \in Sweeps, Commits(j)
      PROVE  deployment'[d].design = deployment[d].design
  <2>1. CASE d = run[j].at
    BY <1>4, <2>1, CommitRow
  <2>2. CASE d # run[j].at
    <3>1. deployment'[d] = deployment[d]
      BY <1>4, <2>2, CommitWrites
    <3> QED
      BY <3>1
  <2> QED
    BY <2>1, <2>2
<1>5. CASE /\ ~\E c \in Directors : Deployed(c) \/ Steered(c)
           /\ ~\E v \in Viewers : Claims(v)
           /\ ~\E j \in Sweeps : Commits(j)
  <2>1. CASE \E j \in Sweeps : SweepStep(j) \/ Fails(j) \/ Dies(j)
    BY <1>5, <2>1 DEF SweepStep, Begins, Gathers, Plans, Counts, Announces, Fails, Dies
  <2>2. CASE ~\E j \in Sweeps : SweepStep(j) \/ Fails(j) \/ Dies(j)
    <3>1. deployment' = deployment
      BY <1>5, <2>2 DEF Next, vars, Ends, Ruled, Answers, Deploys, Steers, Opens
    <3> QED
      BY <3>1
  <2> QED
    BY <2>1, <2>2
<1> QED
  BY <1>2, <1>3, <1>4, <1>5

\* A sheet is cut by a commit alone, and once cut only a claim writes on it.
LEMMA SheetKept ==
  ASSUME IInv, [Next]_vars, NEW d \in Deployments, NEW r \in Rows
  PROVE  \/ sheet'[d][r] = sheet[d][r]
         \/ \E j \in Sweeps :
              /\ Commits(j) /\ d = run[j].at /\ r \in Added(j)
              /\ sheet'[d][r].design = run[j].was[d].design /\ ~sheet'[d][r].claimed
         \/ \E v \in Viewers :
              /\ Claims(v) /\ d = open[v].at /\ r = open[v].row
              /\ sheet'[d][r].number = sheet[d][r].number
              /\ sheet'[d][r].design = sheet[d][r].design
<1>1. CASE sheet' = sheet
  BY <1>1
<1>2. ASSUME NEW j \in Sweeps, Commits(j)
      PROVE  \/ sheet'[d][r] = sheet[d][r]
             \/ /\ d = run[j].at /\ r \in Added(j)
                /\ sheet'[d][r].design = run[j].was[d].design /\ ~sheet'[d][r].claimed
  <2>1. \/ sheet'[d][r] = sheet[d][r]
        \/ /\ d = run[j].at /\ r \in Added(j)
           /\ sheet'[d][r] = [number |-> NumberFor(j, r), design |-> run[j].was[d].design,
                              hours |-> run[j].batch[r], claimed |-> FALSE]
    BY <1>2, CommitWrites
  <2> QED
    BY <2>1
<1>3. ASSUME NEW v \in Viewers, Claims(v)
      PROVE  \/ sheet'[d][r] = sheet[d][r]
             \/ /\ d = open[v].at /\ r = open[v].row
                /\ sheet'[d][r].number = sheet[d][r].number
                /\ sheet'[d][r].design = sheet[d][r].design
  <2>1. PICK e \in Deployments, q \in Rows :
          e = open[v].at /\ q = open[v].row /\ MarksClaimed(e, q)
    BY <1>3, ClaimWrites
  <2> QED
    BY <2>1 DEF MarksClaimed
<1>4. CASE /\ ~\E v \in Viewers : Claims(v)
           /\ ~\E j \in Sweeps : Commits(j)
  <2>1. CASE \E j \in Sweeps : SweepStep(j) \/ Fails(j) \/ Dies(j)
    BY <1>4, <2>1 DEF SweepStep, Begins, Gathers, Plans, Counts, Announces, Fails, Dies
  <2>2. CASE ~\E j \in Sweeps : SweepStep(j) \/ Fails(j) \/ Dies(j)
    <3>1. sheet' = sheet
      BY <1>4, <2>2 DEF Next, vars, Ends, Ruled, Answers, Deploys, Steers, Deployed, Steered, Opens
    <3> QED
      BY <3>1
  <2> QED
    BY <2>1, <2>2
<1> QED
  BY <1>2, <1>3, <1>4

\* A sheet once cut stays cut.
LEMMA HeldGrows ==
  ASSUME IInv, [Next]_vars, NEW d \in Deployments
  PROVE  Held(d) \subseteq Held(d)'
<1> SUFFICES ASSUME NEW r \in Rows, sheet[d][r].number # 0 PROVE sheet'[d][r].number # 0
  BY DEF Held
<1>1. ASSUME NEW j \in Sweeps, d = run[j].at, r \in Added(j) PROVE FALSE
  BY <1>1 DEF Added, Held
<1> QED
  BY <1>1, SheetKept

------------------------------------------------------------------------------
(* Completion *)

\* A tally that was read counts no more sheets than there are.
Reads(j) == \A d \in run[j].due : run[j].was[d].distributed <= Cardinality(Held(d))

\* What a run believes handed out with its batch is there, or in the batch.
Reckons(j) ==
    run[j].stage \in InHand => Believed(j) <= Cardinality(Held(run[j].at) \cup InBatch(j))

\* A run that is about to complete its deployment has counted out whoever is neither
\* served nor in its batch.
CountsOut(j) ==
    run[j].stage \in {"planned", "counted"} /\ Complete(j) =>
        Covered(run[j].at) \ (Held(run[j].at) \cup InBatch(j)) \subseteq run[j].absent

SInv ==
    /\ \A j \in Sweeps : Reads(j) /\ Reckons(j) /\ CountsOut(j)
    /\ CompletedIsComplete

LEMMA NextReads ==
  ASSUME IInv, [Next]_vars, NEW j \in Sweeps, Reads(j)
  PROVE  Reads(j)'
<1> SUFFICES ASSUME NEW d \in run'[j].due
             PROVE  run'[j].was[d].distributed <= Cardinality(Held(d)')
  BY DEF Reads
<1>1. d \in Deployments
  BY NextIInv DEF IInv, TypeOK, RunType
<1>2. Held(d) \subseteq Held(d)' /\ Held(d)' \in SUBSET Rows
  BY <1>1, HeldGrows DEF Held
<1>3. /\ Cardinality(Held(d)) \in Nat /\ Cardinality(Held(d)') \in Nat
      /\ Cardinality(Held(d)) <= Cardinality(Held(d)')
  <2>1. Held(d) \in SUBSET Rows
    BY DEF Held
  <2>2. IsFiniteSet(Held(d)') /\ Cardinality(Held(d)') \in Nat /\ Cardinality(Held(d)) \in Nat
    BY <1>2, <2>1, FiniteRows
  <2> QED
    BY <1>2, <2>2, FS_Subset
<1>4. /\ run'[j].was[d].distributed \in Nat
      /\ run'[j].was[d].distributed <= Cardinality(Held(d))
  <2>1. run'[j].was[d].distributed \in Nat
    BY <1>1, NextIInv DEF IInv, TypeOK, RunType, ReadType
  <2>2. CASE Begins(j)
    <3>1. d \in Due /\ run'[j].was[d].distributed = deployment[d].distributed
      BY <2>2, BeginsReads
    <3> QED
      BY <1>1, <2>1, <3>1 DEF IInv, DistributedHaveSheets
  <2>3. CASE ~Begins(j)
    <3>1. d \in run[j].due /\ run'[j].was[d] = run[j].was[d]
      BY <2>3, Moves
    <3> QED
      BY <2>1, <3>1 DEF Reads
  <2> QED
    BY <2>2, <2>3
<1> QED
  BY <1>3, <1>4

\* A run that reads the roster, or counts, keeps its batch and what it believes.
LEMMA SameHand ==
  ASSUME IInv, NEW j \in Sweeps, Plans(j) \/ Counts(j)
  PROVE  /\ run'[j].at = run[j].at /\ run[j].at \in Deployments
         /\ InBatch(j)' = InBatch(j) /\ Believed(j)' = Believed(j)
         /\ sheet' = sheet
         /\ Counts(j) => /\ run[j].stage = "planned" /\ run'[j].participants = run[j].participants
                         /\ run'[j].absent = run[j].absent
         /\ Plans(j) => /\ run[j].stage = "gathered"
                        /\ run'[j].participants = IF Cardinality(Roster(run[j].at)) >= Believed(j)
                                                  THEN Cardinality(Roster(run[j].at))
                                                  ELSE Believed(j)
                        /\ run'[j].absent = {r \in Covered(run[j].at) : status[r] = "ABSENT"}
<1>1. run \in [Sweeps -> RunType] /\ run[j] \in RunType /\ run[j].stage \in Working
  BY DEF IInv, TypeOK, Plans, Counts, Working
<1>2. run[j].at \in Deployments /\ sheet' = sheet
  BY <1>1, AtDeployment DEF IInv, Plans, Counts
<1>3. /\ run'[j].at = run[j].at /\ run'[j].batch = run[j].batch /\ run'[j].was = run[j].was
      /\ Counts(j) => /\ run[j].stage = "planned" /\ run'[j].participants = run[j].participants
                      /\ run'[j].absent = run[j].absent
  <2>1. CASE Plans(j)
    BY <1>1, <2>1 DEF Plans, Counts, RunType
  <2>2. CASE Counts(j)
    BY <1>1, <2>2 DEF Counts, RunType
  <2> QED
    BY <2>1, <2>2
<1>4. Plans(j) => /\ run[j].stage = "gathered"
                  /\ run'[j].participants = IF Cardinality(Roster(run[j].at)) >= Believed(j)
                                            THEN Cardinality(Roster(run[j].at)) ELSE Believed(j)
                  /\ run'[j].absent = {r \in Covered(run[j].at) : status[r] = "ABSENT"}
  BY <1>1 DEF Plans, RunType
<1>5. InBatch(j)' = InBatch(j)
  BY <1>3 DEF InBatch
<1>6. Believed(j)' = Believed(j)
  BY <1>3, <1>5 DEF Believed
<1> QED
  BY <1>2, <1>3, <1>4, <1>5, <1>6

\* A batch is of newcomers, so with the sheets there are it makes up their sum.
LEMMA GathersReckons ==
  ASSUME IInv, NEW j \in Sweeps, NEW d \in Deployments, Gathers(j, d), Reads(j)
  PROVE  Reckons(j)'
<1>1. /\ run[j] \in RunType /\ run \in [Sweeps -> RunType] /\ run[j].stage = "begun"
      /\ d \in run[j].due /\ sheet' = sheet
  BY DEF IInv, TypeOK, Gathers
<1>2. /\ run'[j].at = d /\ run'[j].was = run[j].was
      /\ run'[j].batch = [r \in Rows |-> IF r \in Earned(d) \ Held(d) THEN hours[r] ELSE "none"]
  BY <1>1 DEF Gathers, RunType
<1> DEFINE H == Held(d)
           B == InBatch(j)'
<1>3. B \in SUBSET Rows /\ B \cap H = {}
  BY <1>2 DEF InBatch
<1>4. H \in SUBSET Rows /\ Held(d)' = H
  BY <1>1 DEF Held
<1>5. run[j].was[d].distributed \in Nat /\ run[j].was[d].distributed <= Cardinality(H)
  BY <1>1 DEF RunType, ReadType, Reads
<1>6. (Believed(j))' = run[j].was[d].distributed + Cardinality(B)
  BY <1>2 DEF Believed
<1>7. (Held(run[j].at) \cup InBatch(j))' = H \cup B
  BY <1>1, <1>2 DEF Held
<1> HIDE DEF H, B
<1>8. /\ IsFiniteSet(H) /\ IsFiniteSet(B) /\ Cardinality(H) \in Nat /\ Cardinality(B) \in Nat
      /\ Cardinality(H \cup B) = Cardinality(H) + Cardinality(B)
  <2>1. IsFiniteSet(H) /\ IsFiniteSet(B) /\ Cardinality(H) \in Nat /\ Cardinality(B) \in Nat
    BY <1>3, <1>4, FiniteRows
  <2>2. H \cap B = {}
    BY <1>3
  <2>3. Cardinality(H \cap B) = 0
    BY <2>2, FS_EmptySet
  <2>4. Cardinality(H \cup B) = Cardinality(H) + Cardinality(B) - Cardinality(H \cap B)
    BY <2>1, FS_Union
  <2> QED
    BY <2>1, <2>3, <2>4
<1>9. Believed(j)' <= Cardinality(H \cup B)
  BY <1>5, <1>6, <1>8
<1>10. Cardinality(Held(run[j].at) \cup InBatch(j))' = Cardinality(H \cup B)
  BY <1>7
<1> QED
  BY <1>9, <1>10 DEF Reckons

LEMMA NextReckons ==
  ASSUME IInv, [Next]_vars, NEW j \in Sweeps, Reads(j), Reckons(j)
  PROVE  Reckons(j)'
<1> SUFFICES ASSUME run'[j].stage \in InHand
             PROVE  (Believed(j) <= Cardinality(Held(run[j].at) \cup InBatch(j)))'
  BY DEF Reckons
<1>1. CASE \E d \in Deployments : Gathers(j, d)
  BY <1>1, GathersReckons DEF Reckons
<1>2. CASE Plans(j) \/ Counts(j)
  <2>1. run[j].stage \in InHand
    BY <1>2 DEF Plans, Counts, InHand
  <2>2. Believed(j) <= Cardinality(Held(run[j].at) \cup InBatch(j))
    BY <2>1 DEF Reckons
  <2>3. (Held(run[j].at) \cup InBatch(j))' = Held(run[j].at) \cup InBatch(j)
    BY <1>2, SameHand DEF Held
  <2>4. Believed(j)' = Believed(j)
    BY <1>2, SameHand
  <2> QED
    BY <2>2, <2>3, <2>4
<1>3. CASE run'[j] = run[j]
  <2> DEFINE H == Held(run[j].at) \cup InBatch(j)
  <2>1. run[j].stage \in InHand /\ run[j].stage \in Working /\ run[j].at \in Deployments
    BY <1>3, AtDeployment DEF IInv, InHand, Working
  <2>2. Believed(j) <= Cardinality(H) /\ Believed(j) \in Nat
    BY <2>1, BelievedNat DEF IInv, Reckons
  <2>3. InBatch(j)' = InBatch(j) /\ Believed(j)' = Believed(j)
    BY <1>3, SameBatch DEF Believed
  <2>4. H \subseteq H' /\ H' \in SUBSET Rows
    <3>1. Held(run[j].at) \subseteq Held(run[j].at)'
      <4> DEFINE e == run[j].at
      <4>1. Held(e) \subseteq {r \in Rows : sheet'[e][r].number # 0}
        <5> HIDE DEF e
        <5>1. e \in Deployments
          BY <2>1 DEF e
        <5> QED
          BY <5>1, HeldGrows DEF Held
      <4> QED
        BY <1>3, <4>1 DEF Held
    <3>2. H' \in SUBSET Rows
      BY DEF Held, InBatch
    <3> QED
      BY <2>3, <3>1, <3>2
  <2>5. H \in SUBSET Rows
    BY DEF Held, InBatch
  <2> HIDE DEF H
  <2>6. Cardinality(H) \in Nat /\ Cardinality(H') \in Nat /\ Cardinality(H) <= Cardinality(H')
    <3>1. IsFiniteSet(H') /\ Cardinality(H') \in Nat /\ Cardinality(H) \in Nat
      BY <2>4, <2>5, FiniteRows
    <3> QED
      BY <2>4, <3>1, FS_Subset
  <2>7. Believed(j)' <= Cardinality(H')
    BY <2>2, <2>3, <2>6
  <2> QED
    BY <2>7 DEF H
<1>4. ~Begins(j)
  BY DEF Begins, IInv, TypeOK, IdleRun, InHand
<1> QED
  BY <1>1, <1>2, <1>3, <1>4, Moves

\* When the roster is read: a run that will complete its deployment believes no fewer
\* sheets handed out than the roster is long; these are all of people on the roster, so
\* they are the roster, and the others it covers were absent.
LEMMA PlansCountsOut ==
  ASSUME IInv, NEW j \in Sweeps, Plans(j), Reckons(j)
  PROVE  CountsOut(j)'
<1> DEFINE d == run[j].at
           H == Held(d) \cup InBatch(j)
           R == Roster(d)
<1>1. /\ d \in Deployments /\ run'[j].at = d /\ run[j].stage = "gathered"
      /\ InBatch(j)' = InBatch(j) /\ Believed(j)' = Believed(j) /\ sheet' = sheet
      /\ run'[j].participants = IF Cardinality(R) >= Believed(j) THEN Cardinality(R) ELSE Believed(j)
      /\ run'[j].absent = {r \in Covered(d) : status[r] = "ABSENT"}
  BY SameHand
<1>2. H \subseteq R
  <2>1. \A r \in Held(d) : r \in Covered(d) /\ status[r] = "COMPLETED"
    BY <1>1 DEF IInv, SheetsEarned
  <2>2. \A r \in InBatch(j) : r \in Covered(d) /\ status[r] = "COMPLETED"
    BY DEF IInv, BatchesEarned
  <2> QED
    BY <2>1, <2>2 DEF Roster
<1>3. /\ IsFiniteSet(R) /\ Cardinality(R) \in Nat /\ Cardinality(H) \in Nat
      /\ Believed(j) \in Nat /\ Believed(j) <= Cardinality(H)
  <2>1. R \in SUBSET Rows
    BY DEF Roster, Covered
  <2>2. H \in SUBSET Rows
    BY DEF Held, InBatch
  <2>3. Believed(j) \in Nat /\ Believed(j) <= Cardinality(H)
    BY <1>1, BelievedNat DEF IInv, Reckons, Working, InHand
  <2> QED
    BY <2>1, <2>2, <2>3, FiniteRows
<1>4. (Held(run[j].at) \cup InBatch(j))' = H /\ Covered(run[j].at)' = Covered(d)
  BY <1>1 DEF Held, Covered
<1>5. Complete(j)' => Believed(j) >= run'[j].participants
  BY <1>1 DEF Complete
<1>6. ASSUME Complete(j)' PROVE R = H
  <2> HIDE DEF R, H, d
  <2>1. Cardinality(R) <= Cardinality(H)
    BY <1>1, <1>3, <1>5, <1>6
  <2>2. Cardinality(H) <= Cardinality(R) /\ (Cardinality(R) = Cardinality(H) => R = H)
    BY <1>2, <1>3, FS_Subset
  <2> QED
    BY <1>3, <2>1, <2>2
<1>7. Covered(d) \ R \subseteq run'[j].absent
  BY <1>1 DEF Roster
<1>8. Complete(j)' => (Covered(run[j].at) \ (Held(run[j].at) \cup InBatch(j)))' \subseteq run'[j].absent
  BY <1>4, <1>6, <1>7
<1> QED
  BY <1>8 DEF CountsOut

LEMMA NextCountsOut ==
  ASSUME IInv, [Next]_vars, NEW j \in Sweeps, Reckons(j), CountsOut(j)
  PROVE  CountsOut(j)'
<1> SUFFICES ASSUME run'[j].stage \in {"planned", "counted"}, Complete(j)'
             PROVE  (Covered(run[j].at) \ (Held(run[j].at) \cup InBatch(j)))' \subseteq run'[j].absent
  BY DEF CountsOut
<1>1. CASE Plans(j)
  BY <1>1, PlansCountsOut DEF CountsOut
<1>2. CASE Counts(j)
  <2>1. /\ run[j].stage = "planned" /\ run'[j].at = run[j].at /\ run'[j].absent = run[j].absent
        /\ InBatch(j)' = InBatch(j) /\ sheet' = sheet
        /\ run'[j].participants = run[j].participants /\ Believed(j)' = Believed(j)
    BY <1>2, SameHand
  <2>2. Complete(j)
    BY <2>1 DEF Complete
  <2>3. (Covered(run[j].at) \ (Held(run[j].at) \cup InBatch(j)))'
          = Covered(run[j].at) \ (Held(run[j].at) \cup InBatch(j))
    BY <2>1 DEF Held, Covered
  <2> QED
    BY <2>1, <2>2, <2>3 DEF CountsOut
<1>3. CASE run'[j] = run[j]
  <2> DEFINE e == run[j].at
  <2>1. run[j].stage \in Working /\ e \in Deployments
    BY <1>3, AtDeployment DEF IInv, Working
  <2>2. InBatch(j)' = InBatch(j) /\ Complete(j)
    <3>1. InBatch(j)' = InBatch(j)
      BY <1>3, SameBatch
    <3> QED
      BY <1>3, <3>1 DEF Complete, Believed
  <2>3. Covered(e) \ (Held(e) \cup InBatch(j)) \subseteq run[j].absent
    BY <1>3, <2>2 DEF CountsOut
  <2>4. Held(e) \subseteq {r \in Rows : sheet'[e][r].number # 0}
    <3> HIDE DEF e
    <3> QED
      BY <2>1, HeldGrows DEF Held
  <2>5. Held(run[j].at)' = {r \in Rows : sheet'[e][r].number # 0} /\ Covered(run[j].at)' = Covered(e)
    BY <1>3 DEF Held, Covered
  <2> HIDE DEF e
  <2> QED
    BY <1>3, <2>2, <2>3, <2>4, <2>5
<1>4. ~Begins(j)
  BY DEF Begins, IInv, TypeOK, IdleRun
<1>5. ASSUME NEW d \in Deployments, Gathers(j, d) PROVE FALSE
  <2>1. run'[j].stage = "gathered"
    BY <1>5 DEF Gathers, IInv, TypeOK, RunType
  <2> QED
    BY <2>1
<1> QED
  BY <1>1, <1>2, <1>3, <1>4, <1>5, Moves DEF InHand

\* Only a commit completes a deployment by the sweep, and only it says who was left out.
LEMMA CompletionKept ==
  ASSUME IInv, [Next]_vars, NEW d \in Deployments
  PROVE  \/ \E j \in Sweeps : Commits(j) /\ d = run[j].at
         \/ /\ deployment'[d].absent = deployment[d].absent
            /\ deployment'[d].dropped = deployment[d].dropped
            /\ deployment'[d].status = "COMPLETED" /\ ~deployment'[d].byHand =>
                 deployment[d].status = "COMPLETED" /\ ~deployment[d].byHand
<1>1. CASE deployment'[d] = deployment[d]
  BY <1>1
<1>2. ASSUME NEW c \in Directors, Deployed(c) \/ Steered(c)
      PROVE  /\ deployment'[d].absent = deployment[d].absent
             /\ deployment'[d].dropped = deployment[d].dropped
             /\ deployment'[d].status = "COMPLETED" /\ ~deployment'[d].byHand =>
                  deployment[d].status = "COMPLETED" /\ ~deployment[d].byHand
  BY <1>2, Written
<1>3. ASSUME NEW v \in Viewers, Claims(v)
      PROVE  /\ deployment'[d].absent = deployment[d].absent
             /\ deployment'[d].dropped = deployment[d].dropped
             /\ deployment'[d].status = deployment[d].status
             /\ deployment'[d].byHand = deployment[d].byHand
  <2>1. PICK e \in Deployments, r \in Rows : MarksClaimed(e, r)
    BY <1>3, ClaimWrites
  <2>2. deployment[d] \in DeploymentType
    BY DEF IInv, TypeOK
  <2> QED
    BY <2>1, <2>2 DEF DeploymentType, MarksClaimed
<1>4. ASSUME NEW j \in Sweeps, Commits(j), d # run[j].at
      PROVE  deployment'[d] = deployment[d]
  BY <1>4, CommitWrites
<1>5. CASE /\ ~\E c \in Directors : Deployed(c) \/ Steered(c)
           /\ ~\E v \in Viewers : Claims(v)
           /\ ~\E j \in Sweeps : Commits(j)
  <2>1. CASE \E j \in Sweeps : SweepStep(j) \/ Fails(j) \/ Dies(j)
    BY <1>5, <2>1 DEF SweepStep, Begins, Gathers, Plans, Counts, Announces, Fails, Dies
  <2>2. CASE ~\E j \in Sweeps : SweepStep(j) \/ Fails(j) \/ Dies(j)
    <3>1. deployment' = deployment
      BY <1>5, <2>2 DEF Next, vars, Ends, Ruled, Answers, Deploys, Steers, Opens
    <3> QED
      BY <3>1
  <2> QED
    BY <2>1, <2>2
<1> QED
  BY <1>1, <1>2, <1>3, <1>4, <1>5

LEMMA NextComplete ==
  ASSUME IInv, SInv, [Next]_vars
  PROVE  CompletedIsComplete'
<1> SUFFICES ASSUME NEW d \in Deployments,
                    deployment'[d].status = "COMPLETED", ~deployment'[d].byHand
             PROVE  Covered(d) \ Held(d)' \subseteq deployment'[d].absent \cup deployment'[d].dropped
  BY DEF CompletedIsComplete, Covered
<1>1. ASSUME NEW j \in Sweeps, Commits(j), d = run[j].at
      PROVE  Covered(d) \ Held(d)' \subseteq deployment'[d].absent \cup deployment'[d].dropped
  <2>1. /\ deployment'[d].absent = run[j].absent
        /\ deployment'[d].dropped = InBatch(j) \ (Held(d) \cup Added(j))
        /\ deployment'[d].status = IF Complete(j) THEN "COMPLETED" ELSE "DISTRIBUTING"
    BY <1>1, CommitRow
  <2>2. Complete(j) /\ run[j].stage = "counted"
    <3>1. CASE ~Complete(j)
      BY <2>1, <3>1
    <3>2. run[j].stage = "counted"
      BY <1>1 DEF Commits
    <3> QED
      BY <3>1, <3>2
  <2>3. Covered(d) \ (Held(d) \cup InBatch(j)) \subseteq run[j].absent
    BY <1>1, <2>2 DEF SInv, CountsOut
  <2>4. Held(d)' = Held(d) \cup Added(j)
    BY <1>1, CommitNumbers
  <2> QED
    BY <2>1, <2>3, <2>4
<1>2. CASE ~\E j \in Sweeps : Commits(j) /\ d = run[j].at
  <2>1. /\ deployment'[d].absent = deployment[d].absent
        /\ deployment'[d].dropped = deployment[d].dropped
        /\ deployment[d].status = "COMPLETED" /\ ~deployment[d].byHand
    BY <1>2, CompletionKept
  <2>2. Covered(d) \ Held(d) \subseteq deployment[d].absent \cup deployment[d].dropped
    BY <2>1 DEF SInv, CompletedIsComplete
  <2> QED
    BY <2>1, <2>2, HeldGrows
<1> QED
  BY <1>1, <1>2

LEMMA InitSInv == Init => SInv
<1> SUFFICES ASSUME Init PROVE SInv
  OBVIOUS
<1>1. \A j \in Sweeps : run[j].due = {} /\ run[j].stage = "idle"
  BY DEF Init, IdleRun
<1>2. \A d \in Deployments : deployment[d].status = "NONE"
  BY DEF Init, Undeployed
<1> QED
  BY <1>1, <1>2 DEF SInv, Reads, Reckons, CountsOut, CompletedIsComplete, InHand

\* Of a deployment that the sweep completed, whoever is without a sheet was absent on the
\* roster that the completing run counted, or was in its batch and lost the number to a
\* sweep beside it: every count the decision rests on is of sheets that are there.
THEOREM Completion == Spec => []CompletedIsComplete
<1>1. IInv /\ SInv /\ [Next]_vars => (IInv /\ SInv)'
  BY NextIInv, NextReads, NextReckons, NextCountsOut, NextComplete DEF SInv
<1>2. Init => IInv /\ SInv
  BY InitIInv, InitSInv
<1>3. SInv => CompletedIsComplete
  BY DEF SInv
<1> QED
  BY <1>1, <1>2, <1>3, PTL DEF Spec

------------------------------------------------------------------------------
(* One wording *)

Steady(d) == <<d, "deploy">> \notin crossed /\ <<d, "count">> \notin crossed
Deploying(d) == \E c \in Directors : call[c].stage = "deploy" /\ call[c].at = d

\* A deploy that meets no sweep and no wrong tally finds nothing cut and nothing being cut;
\* the runs carry the wording of the row, and so do the sheets.
Worded(d) ==
    Steady(d) =>
        /\ Deploying(d) => Held(d) = {} /\ ~Sweeping(d)
        /\ \A j \in Sweeps : d \in run[j].due => run[j].was[d].design = deployment[d].design
        /\ \A r \in Held(d) : sheet[d][r].design = deployment[d].design

WInv == \A d \in Deployments : Worded(d)

\* What got in one another's way is not forgotten.
LEMMA Lasting ==
  ASSUME [Next]_vars
  PROVE  crossed \subseteq crossed'
<1>1. CASE \E j \in Sweeps : SweepStep(j) \/ Fails(j) \/ Dies(j)
  BY <1>1, SweepLeaves
<1>2. CASE ~\E j \in Sweeps : SweepStep(j) \/ Fails(j) \/ Dies(j)
  BY <1>2 DEF Next, vars, Ends, Ruled, Answers, Deploys, Steers, Deployed, Steered, Opens, Claims
<1> QED
  BY <1>1, <1>2

\* A director's request to deploy comes of Deploys alone.
LEMMA Deployer ==
  ASSUME IInv, [Next]_vars, NEW d \in Deployments, Deploying(d)'
  PROVE  \/ Deploying(d)
         \/ \E c \in Directors, g \in Designs : Deploys(c, d, g)
<1>0. call \in [Directors -> CallType] /\ IdleCall.stage = "idle"
  BY DEF IInv, TypeOK, IdleCall
<1>1. PICK c \in Directors : call'[c].stage = "deploy" /\ call'[c].at = d
  BY DEF Deploying
<1>2. CASE call'[c] = call[c]
  BY <1>1, <1>2 DEF Deploying
<1>3. ASSUME NEW k \in Directors, NEW e \in Deployments, NEW g \in Designs, Deploys(k, e, g)
      PROVE  call'[c] = call[c] \/ e = d
  BY <1>0, <1>1, <1>3 DEF Deploys, Request
<1>4. ASSUME NEW k \in Directors, NEW e \in Deployments,
             NEW s \in {"DISTRIBUTING", "PAUSED", "COMPLETED"}, Steers(k, e, s)
      PROVE  call'[c] = call[c]
  BY <1>0, <1>1, <1>4 DEF Steers, Request
<1>5. ASSUME NEW k \in Directors, Deployed(k) \/ Steered(k)
      PROVE  call'[c] = call[c]
  <2>1. call' = [call EXCEPT ![k] = IdleCall]
    BY <1>5 DEF Deployed, Steered
  <2> QED
    BY <1>0, <1>1, <2>1
<1>6. CASE \E j \in Sweeps : SweepStep(j) \/ Fails(j) \/ Dies(j)
  <2>1. call' = call
    BY <1>6, SweepLeaves
  <2> QED
    BY <1>2, <2>1
<1>7. CASE \/ \E e \in Events : Ends(e)
           \/ \E r \in Rows : Ruled(r) \/ Answers(r)
           \/ \E v \in Viewers : Claims(v) \/ \E e \in Deployments, r \in Rows : Opens(v, e, r)
           \/ UNCHANGED vars
  <2>1. call' = call
    BY <1>7 DEF vars, Ends, Ruled, Answers, Opens, Claims
  <2> QED
    BY <1>2, <2>1
<1> QED
  BY <1>2, <1>3, <1>4, <1>5, <1>6, <1>7 DEF Next

LEMMA NextWorded ==
  ASSUME IInv, [Next]_vars, NEW d \in Deployments, Worded(d)
  PROVE  Worded(d)'
<1> SUFFICES ASSUME Steady(d)'
             PROVE  /\ Deploying(d)' => Held(d)' = {} /\ ~Sweeping(d)'
                    /\ \A j \in Sweeps : d \in run'[j].due =>
                         run'[j].was[d].design = deployment'[d].design
                    /\ \A r \in Held(d)' : sheet'[d][r].design = deployment'[d].design
  BY DEF Worded
<1>1. Steady(d)
  BY Lasting DEF Steady
<1>2. /\ Deploying(d) => Held(d) = {} /\ ~Sweeping(d)
      /\ \A j \in Sweeps : d \in run[j].due => run[j].was[d].design = deployment[d].design
      /\ \A r \in Held(d) : sheet[d][r].design = deployment[d].design
  BY <1>1 DEF Worded
<1>3. Deploying(d) => ~Sweeping(d)'
  <2> SUFFICES ASSUME Deploying(d), NEW j \in Sweeps, d \in run'[j].due PROVE FALSE
    BY DEF Sweeping
  <2>1. Begins(j) \/ d \in run[j].due
    BY Moves
  <2>2. Begins(j)
    BY <1>2, <2>1 DEF Sweeping
  <2>3. d \in Due
    BY <2>2, BeginsReads
  <2>4. <<d, "deploy">> \in Crossings
    BY <2>3 DEF Crossings, Deploying
  <2> QED
    BY <2>2, <2>4 DEF Begins, Steady
<1>4. Deploying(d) => Held(d)' = {}
  <2> SUFFICES ASSUME Deploying(d), NEW r \in Rows, sheet'[d][r].number # 0 PROVE FALSE
    BY DEF Held
  <2>1. sheet[d][r].number = 0
    BY <1>2 DEF Held
  <2>2. PICK j \in Sweeps : Commits(j) /\ d = run[j].at
    BY <2>1, SheetKept
  <2>3. d \in run[j].due
    BY <2>2, CommitWrites
  <2> QED
    BY <1>2, <2>3 DEF Sweeping
<1>5. ASSUME NEW c \in Directors, NEW g \in Designs, Deploys(c, d, g)
      PROVE  Held(d)' = {} /\ ~Sweeping(d)'
  <2>1. deployment[d].distributed = 0 /\ UNCHANGED <<run, sheet>>
    BY <1>5 DEF Deploys
  <2>m. Meets(d) \subseteq crossed'
    BY <1>5 DEF Deploys
  <2>2. Cardinality(Held(d)) = 0
    BY <2>1, <2>m DEF Meets, Steady
  <2>3. Held(d) = {}
    <3>1. Held(d) \in SUBSET Rows
      BY DEF Held
    <3> QED
      BY <2>2, <3>1, FiniteRows, FS_EmptySet
  <2>4. ~Sweeping(d)
    BY <2>m DEF Meets, Sweeping, Steady
  <2> QED
    BY <2>1, <2>3, <2>4 DEF Held, Sweeping
<1>6. Deploying(d)' => Held(d)' = {} /\ ~Sweeping(d)'
  BY <1>3, <1>4, <1>5, Deployer
<1>7. deployment'[d].design = deployment[d].design \/ Deploying(d)
  BY DesignKept DEF Deploying
<1>8. ASSUME NEW j \in Sweeps, d \in run'[j].due
      PROVE  run'[j].was[d].design = deployment'[d].design
  <2>1. ~Deploying(d)
    BY <1>3, <1>8 DEF Sweeping
  <2>2. deployment'[d].design = deployment[d].design
    BY <1>7, <2>1
  <2>3. CASE Begins(j)
    BY <1>8, <2>2, <2>3, BeginsReads
  <2>4. CASE ~Begins(j)
    BY <1>2, <1>8, <2>2, <2>4, Moves
  <2> QED
    BY <2>3, <2>4
<1>9. ASSUME NEW r \in Held(d)' PROVE sheet'[d][r].design = deployment'[d].design
  <2>1. r \in Rows /\ sheet'[d][r].number # 0
    BY DEF Held
  <2>2. ~Deploying(d)
    BY <1>4, <1>9
  <2>3. deployment'[d].design = deployment[d].design
    BY <1>7, <2>2
  <2>4. CASE \E j \in Sweeps : /\ Commits(j) /\ d = run[j].at
                               /\ sheet'[d][r].design = run[j].was[d].design
    BY <1>2, <2>3, <2>4, CommitWrites
  <2>5. CASE sheet'[d][r].number = sheet[d][r].number /\ sheet'[d][r].design = sheet[d][r].design
    BY <1>2, <2>1, <2>3, <2>5 DEF Held
  <2> QED
    BY <2>1, <2>4, <2>5, SheetKept
<1> QED
  BY <1>6, <1>8, <1>9

\* Sheets and deployment say the same, whatever sweeps overlap, where no deploy was on its
\* way beside a sweep and none was let through by a wrong tally: the tally refuses it once a
\* sheet is out, and every run carries the wording that the row had when it began.
THEOREM Wording == Spec => []OneWording
<1>1. IInv /\ WInv /\ [Next]_vars => (IInv /\ WInv)'
  BY NextIInv, NextWorded DEF WInv
<1>2. Init => IInv /\ WInv
  <2> SUFFICES ASSUME Init, NEW d \in Deployments PROVE Worded(d)
    BY InitIInv DEF WInv
  <2>1. Held(d) = {} /\ ~Deploying(d) /\ \A j \in Sweeps : run[j].due = {}
    BY DEF Init, Held, NoSheet, Deploying, IdleCall, IdleRun
  <2> QED
    BY <2>1 DEF Worded
<1>3. WInv => OneWording
  BY DEF WInv, Worded, OneWording, Steady
<1> QED
  BY <1>1, <1>2, <1>3, PTL DEF Spec

------------------------------------------------------------------------------
(* The tally of claims *)

Unopened(d) == <<d, "open">> \notin crossed

\* An opening that nothing got in the way of is the only one of its sheet, which is still closed, and
\* no run has the deployment in hand; a run counts the claims there are, and so does the row.
Tallied(d) ==
    Unopened(d) =>
        /\ \A v \in Viewers : open[v] # Closed /\ open[v].at = d =>
             /\ ~Sweeping(d) /\ ~sheet[d][open[v].row].claimed
             /\ \A w \in Viewers : open[w] = open[v] => w = v
        /\ \A j \in Sweeps : run[j].stage = "counted" /\ run[j].at = d =>
             run[j].claimed = Cardinality(Claimed(d))
        /\ deployment[d].claimed = Cardinality(Claimed(d))

CInv == \A d \in Deployments : Tallied(d)

\* A request to open is made by reading a sheet, and ends with the claim.
LEMMA Opener ==
  ASSUME IInv, [Next]_vars, NEW v \in Viewers, open'[v] # Closed
  PROVE  open'[v] = open[v] \/ \E d \in Deployments, r \in Rows : Opens(v, d, r)
<1>0. open \in [Viewers -> [at : Deployments \cup {NoDeployment}, row : Rows \cup {NoRow}]]
  BY DEF IInv, TypeOK
<1>1. ASSUME NEW w \in Viewers, Claims(w) PROVE open'[v] = open[v]
  BY <1>0, <1>1 DEF Claims
<1>2. ASSUME NEW w \in Viewers, NEW d \in Deployments, NEW r \in Rows, Opens(w, d, r), w # v
      PROVE  open'[v] = open[v]
  BY <1>0, <1>2 DEF Opens
<1>3. CASE \E j \in Sweeps : SweepStep(j) \/ Fails(j) \/ Dies(j)
  <2>1. open' = open
    BY <1>3, SweepLeaves
  <2> QED
    BY <2>1
<1>4. CASE \/ \E e \in Events : Ends(e)
           \/ \E r \in Rows : Ruled(r) \/ Answers(r)
           \/ \E c \in Directors :
                \/ Deployed(c) \/ Steered(c)
                \/ \E d \in Deployments , g \in Designs : Deploys(c, d, g)
                \/ \E d \in Deployments, s \in {"DISTRIBUTING", "PAUSED", "COMPLETED"} : Steers(c, d, s)
           \/ UNCHANGED vars
  <2>1. open' = open
    BY <1>4 DEF vars, Ends, Ruled, Answers, Deployed, Steered, Deploys, Steers
  <2> QED
    BY <2>1
<1>5. CASE \E w \in Viewers : Claims(w) \/ \E d \in Deployments, r \in Rows : Opens(w, d, r)
  BY <1>1, <1>2, <1>5
<1> QED
  BY <1>3, <1>4, <1>5 DEF Next

\* Only a commit and a claim write the tally of claims on the row.
LEMMA TallyKept ==
  ASSUME IInv, [Next]_vars, NEW d \in Deployments
  PROVE  \/ deployment'[d].claimed = deployment[d].claimed
         \/ \E j \in Sweeps : Commits(j) /\ d = run[j].at
         \/ \E v \in Viewers : Claims(v) /\ d = open[v].at
<1>1. ASSUME NEW j \in Sweeps, Commits(j), d # run[j].at
      PROVE  deployment'[d] = deployment[d]
  BY <1>1, CommitWrites
<1>2. ASSUME NEW v \in Viewers, Claims(v), d # open[v].at
      PROVE  deployment'[d] = deployment[d]
  <2>1. PICK e \in Deployments, r \in Rows : e = open[v].at /\ MarksClaimed(e, r)
    BY <1>2, ClaimWrites
  <2> QED
    BY <1>2, <2>1 DEF MarksClaimed
<1>3. ASSUME NEW c \in Directors, Deployed(c) \/ Steered(c)
      PROVE  deployment'[d].claimed = deployment[d].claimed
  BY <1>3, Written
<1>4. CASE \E j \in Sweeps : (SweepStep(j) \/ Fails(j) \/ Dies(j)) /\ ~Commits(j)
  <2>1. deployment' = deployment
    BY <1>4 DEF SweepStep, Begins, Gathers, Plans, Counts, Announces, Fails, Dies
  <2> QED
    BY <2>1
<1>5. CASE \/ \E e \in Events : Ends(e)
           \/ \E r \in Rows : Ruled(r) \/ Answers(r)
           \/ \E c \in Directors :
                \/ \E e \in Deployments , g \in Designs : Deploys(c, e, g)
                \/ \E e \in Deployments, s \in {"DISTRIBUTING", "PAUSED", "COMPLETED"} : Steers(c, e, s)
           \/ \E v \in Viewers, e \in Deployments, r \in Rows : Opens(v, e, r)
           \/ UNCHANGED vars
  <2>1. deployment' = deployment
    BY <1>5 DEF vars, Ends, Ruled, Answers, Deploys, Steers, Opens
  <2> QED
    BY <2>1
<1> QED
  BY <1>1, <1>2, <1>3, <1>4, <1>5 DEF Next
\* A sweep that begins on a deployment gets in the way of whatever opening it finds.
LEMMA OpeningsAlone ==
  ASSUME IInv, [Next]_vars, NEW d \in Deployments, Unopened(d)', ~Sweeping(d), Sweeping(d)'
  PROVE  ~\E v \in Viewers : open[v].at = d
<1>1. PICK j \in Sweeps : d \in run'[j].due
  BY DEF Sweeping
<1>2. Begins(j)
  BY <1>1, Moves DEF Sweeping
<1>3. d \in Due
  BY <1>1, <1>2, BeginsReads
<1>4. ASSUME NEW v \in Viewers, open[v].at = d PROVE FALSE
  <2>1. <<d, "open">> \in Crossings
    BY <1>3, <1>4 DEF Crossings
  <2> QED
    BY <1>2, <2>1 DEF Begins, Unopened
<1> QED
  BY <1>4

LEMMA NextTallied ==
  ASSUME IInv, [Next]_vars, NEW d \in Deployments, Tallied(d)
  PROVE  Tallied(d)'
<1> DEFINE OpensOnly ==
             \A v \in Viewers : open'[v] # Closed /\ open'[v].at = d =>
               /\ ~Sweeping(d)' /\ ~sheet'[d][open'[v].row].claimed
               /\ \A w \in Viewers : open'[w] = open'[v] => w = v
           ReadsRight ==
             \A j \in Sweeps : run'[j].stage = "counted" /\ run'[j].at = d =>
               run'[j].claimed = Cardinality(Claimed(d))'
           RowRight == deployment'[d].claimed = Cardinality(Claimed(d))'
<1> SUFFICES ASSUME Unopened(d)' PROVE OpensOnly /\ ReadsRight /\ RowRight
  BY DEF Tallied
<1>1. Unopened(d)
  BY Lasting DEF Unopened
<1>2. /\ \A v \in Viewers : open[v] # Closed /\ open[v].at = d =>
           /\ ~Sweeping(d) /\ ~sheet[d][open[v].row].claimed
           /\ \A w \in Viewers : open[w] = open[v] => w = v
      /\ \A j \in Sweeps : run[j].stage = "counted" /\ run[j].at = d =>
           run[j].claimed = Cardinality(Claimed(d))
      /\ deployment[d].claimed = Cardinality(Claimed(d))
  BY <1>1 DEF Tallied
<1>3. open \in [Viewers -> [at : Deployments \cup {NoDeployment}, row : Rows \cup {NoRow}]]
  BY DEF IInv, TypeOK
<1>4. \A j \in Sweeps : run[j].stage = "counted" /\ run[j].at = d => d \in run[j].due
  BY DEF IInv, RunsAtWork, Working
<1>5. ASSUME NEW v \in Viewers, Claims(v), open[v].at = d PROVE OpensOnly /\ ReadsRight /\ RowRight
  <2>1. PICK r \in Rows : r = open[v].row /\ MarksClaimed(d, r)
    BY <1>5, ClaimWrites
  <2>2. /\ open[v] # Closed /\ open' = [open EXCEPT ![v] = Closed] /\ run' = run
        /\ open'[v] = Closed /\ \A w \in Viewers : w # v => open'[w] = open[w]
    BY <1>3, <1>5 DEF Claims
  <2>3. /\ ~Sweeping(d) /\ ~sheet[d][r].claimed
        /\ \A w \in Viewers : open[w] = open[v] => w = v
    BY <1>2, <1>5, <2>1, <2>2
  <2>4. OpensOnly
    <3> SUFFICES ASSUME NEW w \in Viewers, open'[w] # Closed, open'[w].at = d
                 PROVE  /\ ~Sweeping(d)' /\ ~sheet'[d][open'[w].row].claimed
                        /\ \A u \in Viewers : open'[u] = open'[w] => u = w
      OBVIOUS
    <3>1. w # v /\ open'[w] = open[w]
      BY <2>2
    <3>2. open[w].row # r
      BY <1>3, <1>5, <2>1, <2>3, <3>1
    <3>3. open[w].row \in Rows
      BY <3>1 DEF IInv, Opened, Held
    <3>4. sheet'[d][open[w].row] = sheet[d][open[w].row]
      BY <2>1, <3>2, <3>3 DEF MarksClaimed
    <3>5. \A u \in Viewers : open'[u] = open'[w] => u = w
      BY <1>2, <2>2, <3>1
    <3> QED
      BY <1>2, <2>2, <2>3, <3>1, <3>4, <3>5 DEF Sweeping
  <2>5. ReadsRight
    BY <1>4, <2>2, <2>3 DEF Sweeping
  <2>6. r \in Held(d) /\ Held(d)' = Held(d)
    <3>1. r \in Held(d)
      BY <1>5, <2>1, <2>2 DEF IInv, Opened
    <3>2. \A e \in Deployments, q \in Rows : sheet'[e][q].number = sheet[e][q].number
      BY <2>1 DEF MarksClaimed
    <3> QED
      BY <3>1, <3>2, SameNumbers
  <2>7. Claimed(d)' = Claimed(d) \cup {r} /\ r \notin Claimed(d)
    <3>1. Held(d) \subseteq Rows
      BY DEF Held
    <3>2. sheet'[d][r].claimed /\ \A q \in Rows : q # r => sheet'[d][q] = sheet[d][q]
      BY <2>1 DEF MarksClaimed
    <3> QED
      BY <2>3, <2>6, <3>1, <3>2 DEF Claimed
  <2>8. RowRight
    <3>1. Claimed(d) \in SUBSET Rows
      BY DEF Claimed, Held
    <3>2. /\ Cardinality(Claimed(d)) \in Nat
          /\ Cardinality(Claimed(d) \cup {r}) = Cardinality(Claimed(d)) + 1
      BY <2>7, <3>1, FiniteRows, FS_AddElement
    <3>3. deployment[d] \in DeploymentType
      BY DEF IInv, TypeOK
    <3>4. deployment'[d].claimed = deployment[d].claimed + 1
      BY <2>1, <3>3 DEF MarksClaimed, DeploymentType
    <3>5. Cardinality(Claimed(d))' = Cardinality(Claimed(d)) + 1
      BY <2>7, <3>2
    <3> QED
      BY <1>2, <3>4, <3>5
  <2> QED
    BY <2>4, <2>5, <2>8
<1>6. ASSUME NEW j \in Sweeps, Commits(j), run[j].at = d PROVE OpensOnly /\ ReadsRight /\ RowRight
  <2>1. d \in run[j].due /\ run[j].stage = "counted" /\ open' = open
    BY <1>6, CommitWrites DEF Commits
  <2>2. OpensOnly
    BY <1>2, <2>1 DEF Sweeping
  <2>4. Claimed(d)' = Claimed(d)
    <3>1. Held(d)' = Held(d) \cup Added(j)
      BY <1>6, CommitNumbers
    <3>2. /\ \A r \in Added(j) : r \in Rows /\ r \notin Held(d) /\ ~sheet'[d][r].claimed
          /\ \A r \in Rows : r \notin Added(j) => sheet'[d][r] = sheet[d][r]
      <4>1. \A r \in Added(j) :
              sheet'[d][r] = [number |-> NumberFor(j, r), design |-> run[j].was[d].design,
                              hours |-> run[j].batch[r], claimed |-> FALSE]
        BY <1>6, CommitWrites
      <4>2. \A r \in Rows : r \notin Added(j) => sheet'[d][r] = sheet[d][r]
        BY <1>6, CommitWrites
      <4>3. \A r \in Added(j) : r \in Rows /\ r \notin Held(d)
        BY <1>6 DEF Added, InBatch
      <4>4. ASSUME NEW r \in Added(j) PROVE ~sheet'[d][r].claimed
        <5>1. sheet'[d][r] = [number |-> NumberFor(j, r), design |-> run[j].was[d].design,
                              hours |-> run[j].batch[r], claimed |-> FALSE]
          BY <4>1
        <5> QED
          BY <5>1
      <4> QED
        BY <4>2, <4>3, <4>4
    <3>3. Held(d) \subseteq Rows
      BY DEF Held
    <3> QED
      BY <3>1, <3>2, <3>3 DEF Claimed
  <2>3. ReadsRight
    <3> SUFFICES ASSUME NEW k \in Sweeps, run'[k].stage = "counted", run'[k].at = d
                 PROVE  run'[k].claimed = Cardinality(Claimed(d))
      BY <2>4
    <3>1. k # j /\ run'[k] = run[k]
      BY <1>6, CommitRuns
    <3> QED
      BY <1>2, <3>1
  <2>5. RowRight
    <3>1. deployment'[d].claimed = run[j].claimed
      BY <1>6, CommitRow
    <3> QED
      BY <1>2, <1>6, <2>1, <2>4, <3>1
  <2> QED
    BY <2>2, <2>3, <2>5
<1>7. CASE /\ ~\E v \in Viewers : Claims(v) /\ open[v].at = d
           /\ ~\E j \in Sweeps : Commits(j) /\ run[j].at = d
  <2>1. \A r \in Rows : sheet'[d][r] = sheet[d][r]
    BY <1>7, SheetKept
  <2>2. Claimed(d)' = Claimed(d)
    BY <2>1 DEF Claimed, Held
  <2>3. RowRight
    BY <1>2, <1>7, <2>2, TallyKept
  <2>4. ReadsRight
    <3> SUFFICES ASSUME NEW j \in Sweeps, run'[j].stage = "counted", run'[j].at = d
                 PROVE  run'[j].claimed = Cardinality(Claimed(d))
      BY <2>2
    <3>1. CASE run'[j] = run[j]
      BY <1>2, <3>1
    <3>2. CASE Counts(j)
      <4>1. run'[j].at = run[j].at /\ run'[j].claimed = Cardinality(Claimed(run[j].at))
        BY <3>2 DEF Counts, IInv, TypeOK, RunType
      <4> QED
        BY <4>1
    <3>3. ~Begins(j)
      BY DEF Begins, IInv, TypeOK, IdleRun
    <3> QED
      BY <3>1, <3>2, <3>3, Moves
  <2>5. ASSUME NEW v \in Viewers, NEW e \in Deployments, NEW r \in Rows, Opens(v, e, r)
        PROVE  /\ open'[v] = [at |-> e, row |-> r]
               /\ \A w \in Viewers : w # v => open'[w] = open[w]
               /\ run' = run /\ ~sheet[e][r].claimed
               /\ e = d => ~Sweeping(d) /\ \A w \in Viewers : open[w] # [at |-> e, row |-> r]
    <3>1. /\ open'[v] = [at |-> e, row |-> r]
          /\ \A w \in Viewers : w # v => open'[w] = open[w]
          /\ run' = run /\ ~sheet[e][r].claimed
      BY <1>3, <2>5 DEF Opens
    <3>2. e = d => ~Sweeping(d) /\ \A w \in Viewers : open[w] # [at |-> e, row |-> r]
      BY <2>5 DEF Opens, Unopened
    <3> QED
      BY <3>1, <3>2
  <2>6. OpensOnly
    <3> SUFFICES ASSUME NEW v \in Viewers, open'[v] # Closed, open'[v].at = d
                 PROVE  /\ ~Sweeping(d)' /\ ~sheet'[d][open'[v].row].claimed
                        /\ \A w \in Viewers : open'[w] = open'[v] => w = v
      OBVIOUS
    <3>1. CASE open'[v] = open[v]
      <4>1. /\ ~Sweeping(d) /\ ~sheet[d][open[v].row].claimed
            /\ \A w \in Viewers : open[w] = open[v] => w = v
        BY <1>2, <3>1
      <4>2. ~Sweeping(d)'
        BY <3>1, <4>1, OpeningsAlone
      <4>3. open[v].row \in Rows
        BY <3>1 DEF IInv, Opened, Held
      <4>4. ASSUME NEW w \in Viewers, open'[w] = open'[v], w # v PROVE FALSE
        <5>1. open'[w] # open[w]
          BY <3>1, <4>1, <4>4
        <5>2. PICK e \in Deployments, r \in Rows : Opens(w, e, r)
          BY <4>4, <5>1, Opener
        <5>3. open[v] = [at |-> e, row |-> r] /\ e = d
          BY <2>5, <3>1, <4>4, <5>2
        <5> QED
          BY <2>5, <5>2, <5>3
      <4> QED
        BY <2>1, <3>1, <4>1, <4>2, <4>3, <4>4
    <3>2. ASSUME NEW e \in Deployments, NEW r \in Rows, Opens(v, e, r)
          PROVE  /\ ~Sweeping(d)' /\ ~sheet'[d][open'[v].row].claimed
                 /\ \A w \in Viewers : open'[w] = open'[v] => w = v
      <4>o. /\ open'[v] = [at |-> e, row |-> r]
            /\ \A w \in Viewers : w # v => open'[w] = open[w]
            /\ run' = run /\ ~sheet[e][r].claimed
            /\ e = d => ~Sweeping(d) /\ \A w \in Viewers : open[w] # [at |-> e, row |-> r]
        BY <2>5, <3>2
      <4>1. e = d /\ open'[v].row = r
        BY <4>o
      <4>2. ~Sweeping(d)' /\ ~sheet'[d][r].claimed
        BY <2>1, <4>o, <4>1 DEF Sweeping
      <4>3. \A w \in Viewers : open'[w] = open'[v] => w = v
        BY <4>o, <4>1
      <4> QED
        BY <4>1, <4>2, <4>3
    <3> QED
      BY <3>1, <3>2, Opener
  <2> QED
    BY <2>3, <2>4, <2>6
<1> HIDE DEF OpensOnly, ReadsRight, RowRight
<1> QED
  BY <1>5, <1>6, <1>7

\* The tally of claims is the number of sheets opened, whatever sweeps overlap, where no
\* opening was on its way beside a sweep or beside another of the same sheet: a sweep then
\* writes the claims it read, and there are no others.
THEOREM Claiming == Spec => []ClaimsCounted
<1>1. IInv /\ CInv /\ [Next]_vars => (IInv /\ CInv)'
  BY NextIInv, NextTallied DEF CInv
<1>2. Init => IInv /\ CInv
  <2> SUFFICES ASSUME Init, NEW d \in Deployments PROVE Tallied(d)
    BY InitIInv DEF CInv
  <2>1. /\ Claimed(d) = {} /\ \A v \in Viewers : open[v] = Closed
        /\ \A j \in Sweeps : run[j].stage = "idle"
        /\ deployment[d].claimed = 0
    BY DEF Init, Claimed, Held, NoSheet, IdleRun, Undeployed
  <2> QED
    BY <2>1, FS_EmptySet DEF Tallied
<1>3. CInv => ClaimsCounted
  BY DEF CInv, Tallied, ClaimsCounted, Unopened
<1> QED
  BY <1>1, <1>2, <1>3, PTL DEF Spec

------------------------------------------------------------------------------
(* The pause *)

\* A deployment that a director paused, with no sweep at work on it and no request of a
\* director on its way to it.
Rests(d) ==
    /\ deployment[d].status = "PAUSED" /\ ~Sweeping(d)
    /\ \A c \in Directors : call[c].at # d

\* Only a commit and a director's request write the status.
LEMMA StatusKept ==
  ASSUME IInv, [Next]_vars, NEW d \in Deployments
  PROVE  \/ deployment'[d].status = deployment[d].status
         \/ \E j \in Sweeps : Commits(j) /\ d = run[j].at
         \/ \E c \in Directors : call[c].at = d
<1>1. ASSUME NEW c \in Directors, Deployed(c) \/ Steered(c), d # call[c].at
      PROVE  deployment'[d] = deployment[d]
  <2>1. deployment \in [Deployments -> DeploymentType]
    BY DEF IInv, TypeOK
  <2> QED
    BY <1>1, <2>1 DEF Deployed, Steered
<1>2. ASSUME NEW v \in Viewers, Claims(v)
      PROVE  deployment'[d].status = deployment[d].status
  <2>1. PICK e \in Deployments, r \in Rows : MarksClaimed(e, r)
    BY <1>2, ClaimWrites
  <2>2. deployment[d] \in DeploymentType
    BY DEF IInv, TypeOK
  <2> QED
    BY <2>1, <2>2 DEF DeploymentType, MarksClaimed
<1>3. ASSUME NEW j \in Sweeps, Commits(j), d # run[j].at
      PROVE  deployment'[d] = deployment[d]
  BY <1>3, CommitWrites
<1>4. CASE /\ ~\E c \in Directors : Deployed(c) \/ Steered(c)
           /\ ~\E v \in Viewers : Claims(v)
           /\ ~\E j \in Sweeps : Commits(j)
  <2>1. CASE \E j \in Sweeps : SweepStep(j) \/ Fails(j) \/ Dies(j)
    BY <1>4, <2>1 DEF SweepStep, Begins, Gathers, Plans, Counts, Announces, Fails, Dies
  <2>2. CASE ~\E j \in Sweeps : SweepStep(j) \/ Fails(j) \/ Dies(j)
    <3>1. deployment' = deployment
      BY <1>4, <2>2 DEF Next, vars, Ends, Ruled, Answers, Deploys, Steers, Opens
    <3> QED
      BY <3>1
  <2> QED
    BY <2>1, <2>2
<1> QED
  BY <1>1, <1>2, <1>3, <1>4

\* A pause outlasts the sweeps: until a director asks otherwise no sweep takes up what is
\* paused.
PauseHolds ==
    [][\A d \in Deployments :
          Rests(d) => deployment'[d].status = "PAUSED" /\ ~Sweeping(d)']_vars

\* findDueDeployments passes over what is paused, and no other step of a sweep takes a
\* deployment up; a sweep that has read the deployment before the pause is another matter.
THEOREM Pause == Spec => PauseHolds
<1>1. IInv /\ [Next]_vars =>
        [\A d \in Deployments :
            Rests(d) => deployment'[d].status = "PAUSED" /\ ~Sweeping(d)']_vars
  <2> SUFFICES ASSUME IInv, [Next]_vars, NEW d \in Deployments, Rests(d)
               PROVE  deployment'[d].status = "PAUSED" /\ ~Sweeping(d)'
    OBVIOUS
  <2>1. ASSUME NEW j \in Sweeps, Commits(j), d = run[j].at PROVE FALSE
    <3>1. d \in run[j].due
      BY <2>1, CommitWrites
    <3> QED
      BY <3>1 DEF Rests, Sweeping
  <2>2. deployment'[d].status = "PAUSED"
    BY <2>1, StatusKept DEF Rests
  <2>3. ASSUME NEW j \in Sweeps, d \in run'[j].due PROVE FALSE
    <3>1. d \notin run[j].due
      BY DEF Rests, Sweeping
    <3>2. Begins(j)
      BY <2>3, <3>1, Moves
    <3>3. d \in Due
      BY <2>3, <3>2, BeginsReads
    <3> QED
      BY <3>3 DEF Due, Rests
  <2> QED
    BY <2>2, <2>3 DEF Sweeping
<1> QED
  BY <1>1, Invariance, PTL DEF Spec, PauseHolds
==============================================================================
