-------------------------- MODULE CertificatesProofs --------------------------
(***************************************************************************)
(* What the certificates keep for any registrations, deployments, sweeps,  *)
(* directors and viewers, however many sweeps overlap and stop half way.   *)
(***************************************************************************)
EXTENDS Certificates, FiniteSetTheorems, WellFoundedInduction, TLAPS

Working == {"gathered", "planned", "counted", "telling"}

\* A run that is at work is at a deployment it found due; the others have no batch.
RunsAtWork ==
    \A j \in Sweeps :
        /\ run[j].stage \in Working => run[j].at \in run[j].due
        /\ InBatch(j) # {} => run[j].stage \in Working

\* Whoever is in a batch earned the sheet, and the roster credits the hours in it.
BatchesEarned ==
    \A j \in Sweeps : \A r \in InBatch(j) :
        /\ r \in Covered(run[j].at) \cap answered
        /\ status[r] = "COMPLETED" /\ hours[r] = run[j].batch[r]

NumbersBounded ==
    \E n \in Nat : \A d \in Deployments, r \in Rows : sheet[d][r].number <= n

\* A tally about to be written counts sheets that are there or come with it.
CountsTrue ==
    \A j \in Sweeps : run[j].stage = "counted" =>
        run[j].distributed <= Cardinality(Held(run[j].at) \cup Added(j))

\* Two batches that are both in before either is committed do not meet.
CountsApart ==
    \A j, k \in Sweeps :
        /\ j # k /\ run[j].stage = "counted" /\ run[k].stage = "counted"
        /\ InBatch(j) # {} /\ InBatch(k) # {}
        => /\ TemplateOf[run[j].at] # TemplateOf[run[k].at]
           /\ \A r \in Added(j), q \in Added(k) : NumberFor(j, r) # NumberFor(k, q)

Opened ==
    \A v \in Viewers : open[v] # Closed => open[v].at \in Deployments /\ open[v].row \in Held(open[v].at)

Called ==
    \A c \in Directors : call[c].stage # "idle" => call[c].at \in Deployments

IInv ==
    /\ TypeOK
    /\ RunsAtWork
    /\ BatchesEarned
    /\ NumbersBounded
    /\ SheetsEarned
    /\ CountsTrue
    /\ CountsApart
    /\ DistributedHaveSheets
    /\ HoldersTold
    /\ Opened
    /\ Called

------------------------------------------------------------------------------
(* Numbers *)

\* A set of naturals has a least member: the initial segments below its members are
\* finite sets, and strict inclusion is well founded on those.
LEMMA Least ==
  ASSUME NEW T \in SUBSET Nat, T # {}
  PROVE  \E n \in T : \A m \in T : n <= m
<1> DEFINE Segments == {0..k : k \in T}
<1>1. Segments \subseteq FiniteSubsetsOf(Nat)
  <2>1. ASSUME NEW k \in T PROVE (0..k) \in SUBSET Nat /\ IsFiniteSet(0..k)
    BY FS_Interval
  <2> QED
    BY <2>1 DEF FiniteSubsetsOf
<1>2. Segments # {}
  OBVIOUS
<1>3. PICK S \in Segments : \A R \in Segments : <<R, S>> \notin StrictSubsetOrdering(Nat)
  <2> HIDE DEF Segments
  <2> QED
    BY <1>1, <1>2, FS_StrictSubsetOrderingWellFounded, WFMin
<1>4. PICK n \in T : S = 0..n
  BY <1>3
<1>5. ASSUME NEW m \in T, m < n PROVE FALSE
  <2>1. 0..m \in Segments
    OBVIOUS
  <2>2. (0..m) \subseteq (0..n) /\ (0..m) # (0..n) /\ n \in 0..n /\ n \notin 0..m
    BY <1>5
  <2>3. <<0..m, 0..n>> \in StrictSubsetOrdering(Nat)
    BY <2>2 DEF StrictSubsetOrdering
  <2> QED
    BY <1>3, <1>4, <2>1, <2>3
<1> QED
  BY <1>5

\* So a bounded set of naturals has a greatest.
LEMMA Greatest ==
  ASSUME NEW T \in SUBSET Nat, T # {}, NEW b \in Nat, \A m \in T : m <= b
  PROVE  \E n \in T : \A m \in T : m <= n
<1> DEFINE Bounds == {n \in Nat : \A m \in T : m <= n}
<1>1. PICK n \in Bounds : \A m \in Bounds : n <= m
  <2>1. Bounds \in SUBSET Nat /\ b \in Bounds
    OBVIOUS
  <2> HIDE DEF Bounds
  <2> QED
    BY <2>1, Least
<1>2. CASE n \in T
  BY <1>2
<1>3. CASE n \notin T
  <2>1. \A m \in T : m < n
    BY <1>3
  <2>2. PICK m \in T : m < n
    BY <2>1
  <2>3. n - 1 \in Nat
    BY <2>2
  <2>4. \A x \in T : x <= n - 1
    BY <2>1
  <2>5. n - 1 \in Bounds
    BY <2>3, <2>4
  <2> QED
    BY <1>1, <2>3, <2>5
<1> QED
  BY <1>2, <1>3

LEMMA HighestNat ==
  ASSUME TypeOK, NumbersBounded
  PROVE  Highest \in Nat /\ \A d \in Deployments, r \in Rows : sheet[d][r].number <= Highest
<1> DEFINE numbers == {0} \cup {sheet[d][r].number : d \in Deployments, r \in Rows}
<1>1. \A d \in Deployments, r \in Rows : sheet[d][r].number \in Nat
  BY DEF TypeOK, SheetType
<1>2. numbers \in SUBSET Nat /\ numbers # {}
  BY <1>1
<1>3. PICK b \in Nat : \A m \in numbers : m <= b
  <2>1. PICK b \in Nat : \A d \in Deployments, r \in Rows : sheet[d][r].number <= b
    BY DEF NumbersBounded
  <2>2. \A m \in numbers : m <= b
    BY <2>1
  <2> HIDE DEF numbers
  <2> QED
    BY <2>1, <2>2
<1>4. /\ Highest = CHOOSE n \in numbers : \A m \in numbers : m <= n
      /\ \A d \in Deployments, r \in Rows : sheet[d][r].number \in numbers
  BY DEF Highest
<1> HIDE DEF numbers
<1>5. \E n \in numbers : \A m \in numbers : m <= n
  BY <1>2, <1>3, Greatest
<1> QED
  BY <1>2, <1>4, <1>5

LEMMA FiniteRows ==
  ASSUME NEW S \in SUBSET Rows
  PROVE  IsFiniteSet(S) /\ Cardinality(S) \in Nat
<1>1. IsFiniteSet(Rows)
  BY ConstantsOK
<1>2. IsFiniteSet(S)
  BY <1>1, FS_Subset
<1> QED
  BY <1>2, FS_CardinalityType

\* The numbers a run gives out lie above the highest it read and are all different.
LEMMA NumbersApart ==
  ASSUME NEW j \in Sweeps, run[j].top \in Nat
  PROVE  /\ \A r \in InBatch(j) : NumberFor(j, r) \in Nat \ {0}
         /\ \A r \in InBatch(j) : /\ run[j].top < NumberFor(j, r)
                                 /\ NumberFor(j, r) <= run[j].top + Cardinality(InBatch(j))
         /\ \A r, q \in InBatch(j) : NumberFor(j, r) = NumberFor(j, q) => r = q
<1> DEFINE Upto(r) == {q \in InBatch(j) : q <= r}
<1>0. InBatch(j) \in SUBSET Rows /\ Rows \subseteq Nat
  BY ConstantsOK DEF InBatch
<1>i. \A r \in InBatch(j) : r \in Nat
  BY <1>0
<1>1. /\ IsFiniteSet(InBatch(j)) /\ Cardinality(InBatch(j)) \in Nat
      /\ \A r \in InBatch(j) :
           /\ IsFiniteSet(Upto(r)) /\ Cardinality(Upto(r)) \in Nat
           /\ Cardinality(Upto(r)) <= Cardinality(InBatch(j))
  BY <1>0, FiniteRows, FS_Subset
<1>2. \A r \in InBatch(j) : Cardinality(Upto(r)) # 0
  <2> TAKE r \in InBatch(j)
  <2>1. r \in Upto(r)
    BY <1>i
  <2> QED
    BY <1>1, <2>1, FS_EmptySet
<1>3. ASSUME NEW r \in InBatch(j), NEW q \in InBatch(j), r < q
      PROVE  Cardinality(Upto(r)) < Cardinality(Upto(q))
  <2>0. r \in Nat /\ q \in Nat
    BY <1>i
  <2>a. \A x \in Nat : x <= r => x <= q
    BY <1>3, <2>0
  <2>1. Upto(r) \in SUBSET Upto(q)
    BY <1>i, <2>a
  <2>2. q \in Upto(q) /\ q \notin Upto(r)
    BY <1>3, <2>0
  <2>3. Upto(r) # Upto(q)
    BY <2>2
  <2> HIDE DEF Upto
  <2>4. /\ Cardinality(Upto(r)) <= Cardinality(Upto(q))
        /\ Cardinality(Upto(q)) = Cardinality(Upto(r)) => Upto(q) = Upto(r)
    BY <1>1, <2>1, FS_Subset
  <2> QED
    BY <1>1, <2>3, <2>4
<1>4. \A r \in InBatch(j) : NumberFor(j, r) = run[j].top + Cardinality(Upto(r))
  BY DEF NumberFor
<1> HIDE DEF Upto
<1>5. \A r, q \in InBatch(j) : NumberFor(j, r) = NumberFor(j, q) => ~(r < q)
  BY <1>1, <1>3, <1>4
<1>6. \A r \in InBatch(j) : NumberFor(j, r) \in Nat \ {0}
  BY <1>1, <1>2, <1>4
<1>7. \A r \in InBatch(j) : /\ run[j].top < NumberFor(j, r)
                            /\ NumberFor(j, r) <= run[j].top + Cardinality(InBatch(j))
  BY <1>1, <1>2, <1>4
<1>8. \A r, q \in InBatch(j) : NumberFor(j, r) = NumberFor(j, q) => r = q
  BY <1>i, <1>5
<1> QED
  BY <1>6, <1>7, <1>8

------------------------------------------------------------------------------
LEMMA InitIInv == Init => IInv
<1> SUFFICES ASSUME Init PROVE IInv
  OBVIOUS
<1>1. \A j \in Sweeps : run[j] = IdleRun /\ InBatch(j) = {}
  BY DEF Init, IdleRun, InBatch
<1>2. \A d \in Deployments : Held(d) = {}
  BY DEF Init, Held, NoSheet
<1>3. IdleRun \in RunType /\ IdleRun.stage = "idle"
  BY DEF IdleRun, RunType, Unread, ReadType, HoursRead
<1>4. Undeployed \in DeploymentType /\ NoSheet \in SheetType
  BY DEF Undeployed, DeploymentType, NoSheet, SheetType, HoursRead
<1>5. TypeOK
  BY <1>3, <1>4, ConstantsOK
     DEF Init, TypeOK, Attendance!TypeOK, Attendance!Init, IdleCall, CallType, Closed
<1>6. RunsAtWork /\ BatchesEarned /\ CountsTrue /\ CountsApart
  BY <1>1, <1>3 DEF RunsAtWork, BatchesEarned, CountsTrue, CountsApart, Working
<1>7. SheetsEarned /\ HoldersTold
  BY <1>2 DEF SheetsEarned, HoldersTold
<1>8. NumbersBounded
  BY DEF Init, NumbersBounded, NoSheet
<1>9. DistributedHaveSheets
  <2>1. \A d \in Deployments : deployment[d].distributed = 0 /\ Cardinality(Held(d)) = 0
    BY <1>2, FS_EmptySet DEF Init, Undeployed
  <2> QED
    BY <2>1 DEF DistributedHaveSheets
<1>10. Opened /\ Called
  BY DEF Init, Opened, Called, IdleCall
<1> QED
  BY <1>5, <1>6, <1>7, <1>8, <1>9, <1>10 DEF IInv

\* One entry of a function is written; the rest is as it was.
LEMMA OneRun ==
  ASSUME TypeOK, NEW j \in Sweeps, NEW x \in RunType, run' = [run EXCEPT ![j] = x]
  PROVE  /\ run' \in [Sweeps -> RunType] /\ run'[j] = x
         /\ \A k \in Sweeps : k # j => run'[k] = run[k]
  BY DEF TypeOK

\* What is said of numbers stands as long as the numbers do.
LEMMA SameNumbers ==
  ASSUME \A d \in Deployments, r \in Rows : sheet'[d][r].number = sheet[d][r].number
  PROVE  /\ \A d \in Deployments : Held(d)' = Held(d)
         /\ \A n : InUse(n)' <=> InUse(n)
<1>1. \A d \in Deployments : Held(d)' = Held(d)
  BY DEF Held
<1>2. \A n : InUse(n)' <=> InUse(n)
  BY DEF InUse
<1> QED
  BY <1>1, <1>2

LEMMA SameBatch ==
  ASSUME NEW k \in Sweeps, run'[k] = run[k]
  PROVE  /\ InBatch(k)' = InBatch(k)
         /\ \A r : NumberFor(k, r)' = NumberFor(k, r)
<1>1. InBatch(k)' = InBatch(k)
  BY DEF InBatch
<1> QED
  BY <1>1 DEF NumberFor

LEMMA SameAdded ==
  ASSUME NEW k \in Sweeps, run'[k] = run[k], run[k].at \in Deployments,
         \A d \in Deployments, r \in Rows : sheet'[d][r].number = sheet[d][r].number
  PROVE  Added(k)' = Added(k)
<1>1. InBatch(k)' = InBatch(k) /\ Held(run[k].at)' = Held(run[k].at)
  BY SameBatch, SameNumbers DEF Held
<1>2. \A r : InUse(NumberFor(k, r))' <=> InUse(NumberFor(k, r))
  BY SameBatch, SameNumbers DEF InUse
<1> QED
  BY <1>1, <1>2 DEF Added, Held

\* A run at work is at a deployment.
LEMMA AtDeployment ==
  ASSUME TypeOK, RunsAtWork, NEW j \in Sweeps, run[j].stage \in Working
  PROVE  run[j].at \in Deployments
<1>1. run[j].due \subseteq Deployments
  BY DEF TypeOK, RunType
<1> QED
  BY <1>1 DEF RunsAtWork

------------------------------------------------------------------------------
(* One lemma per kind of step *)

\* Steps that leave the runs alone, cut no sheet and unmake no ruling of COMPLETED.
LEMMA Surroundings ==
  ASSUME IInv, TypeOK', UNCHANGED <<run, told, muted>>, answered \subseteq answered',
         \A r \in Rows : status[r] = "COMPLETED" => status'[r] = "COMPLETED" /\ hours'[r] = hours[r],
         \A d \in Deployments, r \in Rows :
             /\ sheet'[d][r].number = sheet[d][r].number
             /\ sheet'[d][r].hours = sheet[d][r].hours,
         \A d \in Deployments : deployment'[d].distributed = deployment[d].distributed,
         Opened', Called'
  PROVE  IInv'
<1>1. /\ \A d \in Deployments : Held(d)' = Held(d)
      /\ \A j \in Sweeps : InBatch(j)' = InBatch(j) /\ \A r : NumberFor(j, r)' = NumberFor(j, r)
      /\ \A j \in Sweeps : Notices(j)' = Notices(j)
      /\ \A j \in Sweeps : run[j].stage \in Working => run[j].at \in Deployments /\ Added(j)' = Added(j)
  BY SameNumbers, SameBatch, SameAdded, AtDeployment DEF IInv, Notices
<1>2. RunsAtWork' /\ NumbersBounded' /\ DistributedHaveSheets'
  BY <1>1 DEF IInv, RunsAtWork, NumbersBounded, DistributedHaveSheets
<1>3. BatchesEarned'
  <2>1. \A j \in Sweeps : InBatch(j) \subseteq Rows
    BY DEF InBatch
  <2> QED
    BY <1>1, <2>1 DEF IInv, BatchesEarned, Covered
<1>4. SheetsEarned'
  <2>1. \A d \in Deployments : Held(d) \subseteq Rows
    BY DEF Held
  <2> QED
    BY <1>1, <2>1 DEF IInv, SheetsEarned, Covered
<1>5. CountsTrue'
  <2> SUFFICES ASSUME NEW j \in Sweeps, run[j].stage = "counted"
               PROVE  run'[j].distributed <= Cardinality((Held(run[j].at) \cup Added(j))')
    BY DEF CountsTrue
  <2>1. (Held(run[j].at) \cup Added(j))' = Held(run[j].at) \cup Added(j)
    BY <1>1 DEF Working, Held
  <2> QED
    BY <2>1 DEF IInv, CountsTrue
<1>6. CountsApart'
  BY <1>1 DEF IInv, CountsApart, Working
<1>7. HoldersTold'
  <2> SUFFICES ASSUME NEW d \in Deployments, NEW r \in Held(d)
               PROVE  \/ <<d, r>> \in told \cup muted
                      \/ \E k \in Sweeps : run[k].stage = "telling" /\ <<d, r>> \in Notices(k)'
    BY <1>1 DEF HoldersTold
  <2>1. \A k \in Sweeps : Notices(k)' = Notices(k)
    BY <1>1
  <2> QED
    BY <2>1 DEF IInv, HoldersTold
<1> QED
  BY <1>2, <1>3, <1>4, <1>5, <1>6, <1>7 DEF IInv

\* Steps that move one run, write no row and lose no notice.
LEMMA RunStep ==
  ASSUME IInv, TypeOK', NEW j \in Sweeps, NEW x \in RunType, run' = [run EXCEPT ![j] = x],
         UNCHANGED <<status, hours, answered, deployment, sheet, call, open>>,
         told \subseteq told', muted \subseteq muted',
         run[j].stage = "telling" => Notices(j) \subseteq told' \cup muted',
         x.stage \in Working => x.at \in x.due,
         InBatch(j)' # {} => x.stage \in Working,
         \A r \in InBatch(j)' : /\ r \in Covered(x.at) \cap answered
                               /\ status[r] = "COMPLETED" /\ hours[r] = x.batch[r],
         x.stage = "counted" =>
             /\ x.distributed <= Cardinality(Held(x.at) \cup Added(j)')
             /\ \A k \in Sweeps \ {j} :
                  run[k].stage = "counted" /\ InBatch(j)' # {} /\ InBatch(k) # {}
                  => /\ TemplateOf[x.at] # TemplateOf[run[k].at]
                     /\ \A r \in Added(j)', q \in Added(k) : NumberFor(j, r)' # NumberFor(k, q)
  PROVE  IInv'
<1>r. /\ run'[j] = x
      /\ \A k \in Sweeps : k # j => run'[k] = run[k]
  BY OneRun DEF IInv
<1>1. \A k \in Sweeps : k # j =>
        /\ InBatch(k)' = InBatch(k)
        /\ \A r : NumberFor(k, r)' = NumberFor(k, r)
        /\ Notices(k)' = Notices(k)
  BY <1>r, SameBatch DEF Notices
<1>2. \A k \in Sweeps : k # j /\ run[k].stage \in Working => Added(k)' = Added(k)
  BY <1>r, SameAdded, AtDeployment DEF IInv
<1>3. \A d \in Deployments : Held(d)' = Held(d)
  BY SameNumbers
<1>4. RunsAtWork' /\ NumbersBounded' /\ DistributedHaveSheets' /\ SheetsEarned'
  BY <1>r, <1>1, <1>3
     DEF IInv, RunsAtWork, NumbersBounded, DistributedHaveSheets, SheetsEarned, Covered
<1>5. BatchesEarned'
  BY <1>r, <1>1 DEF IInv, BatchesEarned, Covered
<1>6. CountsTrue'
  <2> SUFFICES ASSUME NEW k \in Sweeps, run'[k].stage = "counted"
               PROVE  run'[k].distributed <= Cardinality((Held(run[k].at) \cup Added(k))')
    BY DEF CountsTrue
  <2>1. CASE k = j
    <3>1. (Held(run[j].at) \cup Added(j))' = Held(x.at) \cup Added(j)'
      BY <1>r DEF Held
    <3> QED
      BY <2>1, <3>1, <1>r
  <2>2. CASE k # j
    <3>1. (Held(run[k].at) \cup Added(k))' = Held(run[k].at) \cup Added(k)
      BY <2>2, <1>r, <1>2 DEF Working, Held
    <3> QED
      BY <2>2, <3>1, <1>r DEF IInv, CountsTrue
  <2> QED
    BY <2>1, <2>2
<1>7. CountsApart'
  <2> SUFFICES ASSUME NEW i \in Sweeps, NEW k \in Sweeps, i # k,
                      run'[i].stage = "counted", run'[k].stage = "counted",
                      InBatch(i)' # {}, InBatch(k)' # {}
               PROVE  /\ TemplateOf[run'[i].at] # TemplateOf[run'[k].at]
                      /\ \A r \in Added(i)', q \in Added(k)' : NumberFor(i, r)' # NumberFor(k, q)'
    BY DEF CountsApart
  <2>1. CASE i = j
    BY <2>1, <1>r, <1>1, <1>2 DEF Working
  <2>2. CASE k = j
    BY <2>2, <1>r, <1>1, <1>2 DEF Working
  <2>3. CASE i # j /\ k # j
    BY <2>3, <1>r, <1>1, <1>2 DEF IInv, CountsApart, Working
  <2> QED
    BY <2>1, <2>2, <2>3
<1>8. HoldersTold'
  <2> SUFFICES ASSUME NEW d \in Deployments, NEW r \in Held(d)
               PROVE  \/ <<d, r>> \in told' \cup muted'
                      \/ \E k \in Sweeps : run'[k].stage = "telling" /\ <<d, r>> \in Notices(k)'
    BY <1>3 DEF HoldersTold
  <2>1. CASE <<d, r>> \in told \cup muted
    BY <2>1
  <2>2. ASSUME NEW k \in Sweeps, run[k].stage = "telling", <<d, r>> \in Notices(k)
        PROVE  \/ <<d, r>> \in told' \cup muted'
               \/ run'[k].stage = "telling" /\ <<d, r>> \in Notices(k)'
    BY <2>2, <1>r, <1>1
  <2> QED
    BY <2>1, <2>2 DEF IInv, HoldersTold
<1>9. Opened' /\ Called'
  BY <1>3 DEF IInv, Opened, Called
<1> QED
  BY <1>4, <1>5, <1>6, <1>7, <1>8, <1>9 DEF IInv

------------------------------------------------------------------------------
(* The sweep, but for its commits *)

LEMMA NoticesTyped ==
  ASSUME TypeOK, RunsAtWork, NEW j \in Sweeps, run[j].stage \in Working
  PROVE  Notices(j) \subseteq Deployments \X Rows
  BY AtDeployment DEF Notices, InBatch

LEMMA RunTyped ==
  ASSUME TypeOK, NEW j \in Sweeps, NEW x \in RunType, run' = [run EXCEPT ![j] = x],
         UNCHANGED <<over, status, hours, answered, deployment, sheet, call, open, requests>>,
         told' \subseteq Deployments \X Rows, muted' \subseteq Deployments \X Rows,
         crossed' \subseteq Deployments \X {"deploy", "count", "open"}, faults' \in 0..MaxFaults
  PROVE  TypeOK'
  BY OneRun DEF TypeOK, Attendance!TypeOK

LEMMA CrossingsTyped ==
  ASSUME TypeOK
  PROVE  Crossings \subseteq Deployments \X {"deploy", "count", "open"}
<1>1. Due \subseteq Deployments
  BY DEF Due
<1> QED
  BY <1>1 DEF Crossings

LEMMA BeginsIInv == ASSUME IInv, NEW j \in Sweeps, Begins(j) PROVE IInv'
<1> DEFINE was == [d \in Deployments |->
                     IF d \in Due THEN [design |-> deployment[d].design,
                                       distributed |-> deployment[d].distributed]
                     ELSE Unread]
           x == [IdleRun EXCEPT !.stage = "begun", !.due = Due, !.was = was]
<1>1. was \in [Deployments -> ReadType]
  BY DEF IInv, TypeOK, DeploymentType, ReadType, Unread
<1>2. Due \in SUBSET Deployments
  BY DEF Due
<1> HIDE DEF was
<1>3. /\ x \in RunType /\ x.stage = "begun"
      /\ \A r \in Rows : x.batch[r] = "none"
  BY <1>1, <1>2 DEF IdleRun, RunType, HoursRead
<1>4. run' = [run EXCEPT ![j] = x]
  BY DEF Begins, was
<1> HIDE DEF x
<1>5. InBatch(j)' = {}
  BY <1>3, <1>4, OneRun DEF IInv, InBatch
<1>6. TypeOK'
  <2>1. faults' \in 0..MaxFaults
    BY ConstantsOK DEF IInv, TypeOK, Begins
  <2>2. crossed' \subseteq Deployments \X {"deploy", "count", "open"}
    BY CrossingsTyped DEF IInv, TypeOK, Begins
  <2>3. told' \subseteq Deployments \X Rows /\ muted' \subseteq Deployments \X Rows
    BY DEF IInv, TypeOK, Begins
  <2>4. UNCHANGED <<over, status, hours, answered, deployment, sheet, call, open, requests>>
    BY DEF Begins, attendance
  <2> QED
    BY <1>3, <1>4, <2>1, <2>2, <2>3, <2>4, RunTyped DEF IInv
<1>7. run[j].stage # "telling"
  BY DEF Begins
<1> QED
  BY <1>3, <1>4, <1>5, <1>6, <1>7, RunStep DEF Begins, Working, attendance

LEMMA GathersIInv == ASSUME IInv, NEW j \in Sweeps, NEW d \in Deployments, Gathers(j, d) PROVE IInv'
<1> DEFINE batch == [r \in Rows |-> IF r \in Earned(d) \ Held(d) THEN hours[r] ELSE "none"]
           x == [run[j] EXCEPT !.stage = "gathered", !.at = d, !.batch = batch]
<1>1. batch \in [Rows -> HoursRead]
  BY DEF IInv, TypeOK, Attendance!TypeOK, HoursRead
<1>2. \A r \in Rows : batch[r] # "none" => /\ r \in Covered(d) \cap answered
                                          /\ status[r] = "COMPLETED" /\ hours[r] = batch[r]
  BY DEF Earned
<1> HIDE DEF batch
<1>3. run[j] \in RunType
  BY DEF IInv, TypeOK
<1>4. x \in RunType /\ x.stage = "gathered" /\ x.at = d /\ x.due = run[j].due /\ x.batch = batch
  BY <1>1, <1>3 DEF RunType
<1>5. run' = [run EXCEPT ![j] = x]
  BY DEF Gathers, batch
<1> HIDE DEF x
<1>6. InBatch(j)' = {r \in Rows : batch[r] # "none"}
  BY <1>4, <1>5, OneRun DEF IInv, InBatch
<1>7. TypeOK'
  BY <1>4, <1>5, RunTyped DEF IInv, TypeOK, Gathers, attendance
<1>8. run[j].stage # "telling" /\ d \in run[j].due
  BY DEF Gathers
<1>9. UNCHANGED <<status, hours, answered, deployment, sheet, call, open, told, muted>>
  BY DEF Gathers, attendance
<1>10. /\ x.stage \in Working /\ x.stage # "counted" /\ x.at \in x.due
       /\ \A r \in InBatch(j)' : /\ r \in Covered(x.at) \cap answered
                                 /\ status[r] = "COMPLETED" /\ hours[r] = x.batch[r]
  BY <1>2, <1>4, <1>6, <1>8 DEF Working
<1> QED
  BY <1>4, <1>5, <1>7, <1>8, <1>9, <1>10, RunStep

LEMMA BelievedNat == ASSUME TypeOK, RunsAtWork, NEW j \in Sweeps, run[j].stage \in Working
                     PROVE  Believed(j) \in Nat
<1>1. run[j].was[run[j].at].distributed \in Nat
  BY AtDeployment DEF TypeOK, RunType, ReadType
<1>2. InBatch(j) \in SUBSET Rows
  BY DEF InBatch
<1> QED
  BY <1>1, <1>2, FiniteRows DEF Believed

LEMMA PlansIInv == ASSUME IInv, NEW j \in Sweeps, Plans(j) PROVE IInv'
<1> DEFINE n == Cardinality(Roster(run[j].at))
           m == IF n >= Believed(j) THEN n ELSE Believed(j)
           away == {r \in Covered(run[j].at) : status[r] = "ABSENT"}
           x == [run[j] EXCEPT !.stage = "planned", !.top = Highest, !.participants = m,
                               !.absent = away]
<1>0. run[j].stage = "gathered" /\ run[j].stage \in Working
  BY DEF Plans, Working
<1>1. Roster(run[j].at) \in SUBSET Rows
  BY DEF Roster, Covered
<1>2. m \in Nat /\ Highest \in Nat
  BY <1>0, <1>1, FiniteRows, BelievedNat, HighestNat DEF IInv
<1>3. run' = [run EXCEPT ![j] = x]
  BY DEF Plans
<1>a. away \in SUBSET Rows
  BY DEF Covered
<1> HIDE DEF n, m, away
<1>4. run[j] \in RunType
  BY DEF IInv, TypeOK
<1>5. /\ x \in RunType /\ x.stage = "planned" /\ x.at = run[j].at /\ x.due = run[j].due
      /\ x.batch = run[j].batch
  BY <1>2, <1>a, <1>4 DEF RunType
<1> HIDE DEF x
<1>6. InBatch(j)' = InBatch(j)
  BY <1>3, <1>5, OneRun DEF IInv, InBatch
<1>7. TypeOK'
  BY <1>3, <1>5, RunTyped DEF IInv, TypeOK, Plans, attendance
<1>8. /\ run[j].at \in run[j].due
      /\ \A r \in InBatch(j) : /\ r \in Covered(x.at) \cap answered
                              /\ status[r] = "COMPLETED" /\ hours[r] = x.batch[r]
  BY <1>0, <1>5 DEF IInv, RunsAtWork, BatchesEarned
<1>9. UNCHANGED <<status, hours, answered, deployment, sheet, call, open, told, muted>>
  BY DEF Plans, attendance
<1>10. /\ x.stage \in Working /\ x.stage # "counted" /\ x.at \in x.due
       /\ \A r \in InBatch(j)' : /\ r \in Covered(x.at) \cap answered
                                 /\ status[r] = "COMPLETED" /\ hours[r] = x.batch[r]
  BY <1>5, <1>6, <1>8 DEF Working
<1> QED
  BY <1>0, <1>3, <1>5, <1>7, <1>9, <1>10, RunStep

LEMMA CountsIInv == ASSUME IInv, NEW j \in Sweeps, Counts(j) PROVE IInv'
<1> DEFINE m == Cardinality(Held(run[j].at) \cup Added(j))
           c == Cardinality(Claimed(run[j].at))
           x == [run[j] EXCEPT !.stage = "counted", !.distributed = m, !.claimed = c]
<1>0. run[j].stage = "planned" /\ run[j].stage \in Working
  BY DEF Counts, Working
<1>1. m \in Nat /\ c \in Nat
  <2>1. Held(run[j].at) \cup Added(j) \in SUBSET Rows /\ Claimed(run[j].at) \in SUBSET Rows
    BY DEF Held, Added, InBatch, Claimed
  <2> QED
    BY <2>1, FiniteRows
<1>2. run' = [run EXCEPT ![j] = x]
  BY DEF Counts
<1>3. run[j] \in RunType
  BY DEF IInv, TypeOK
<1>m. m = Cardinality(Held(run[j].at) \cup Added(j))
  OBVIOUS
<1> HIDE DEF m, c
<1>4. /\ x \in RunType /\ x.stage = "counted" /\ x.at = run[j].at /\ x.due = run[j].due
      /\ x.batch = run[j].batch /\ x.top = run[j].top /\ x.distributed = m
  BY <1>1, <1>3 DEF RunType
<1> HIDE DEF x
<1>r. run'[j] = x
  BY <1>2, <1>4, OneRun DEF IInv
<1>5. InBatch(j)' = InBatch(j)
  BY <1>r, <1>4 DEF InBatch
<1>6. \A r : NumberFor(j, r)' = NumberFor(j, r)
  BY <1>r, <1>4, <1>5 DEF NumberFor
<1>9. UNCHANGED <<status, hours, answered, deployment, sheet, call, open, told, muted>>
  BY DEF Counts, attendance
<1>7. Added(j)' = Added(j)
  <2>1. /\ Held(run[j].at)' = Held(run[j].at)
        /\ \A r : InUse(NumberFor(j, r))' <=> InUse(NumberFor(j, r))
    BY <1>r, <1>4, <1>6, <1>9 DEF Held, InUse
  <2> QED
    BY <1>5, <2>1 DEF Added
<1>8. TypeOK'
  BY <1>2, <1>4, RunTyped DEF IInv, TypeOK, Counts, attendance
<1>10. /\ x.stage \in Working /\ x.at \in x.due
       /\ \A r \in InBatch(j)' : /\ r \in Covered(x.at) \cap answered
                                 /\ status[r] = "COMPLETED" /\ hours[r] = x.batch[r]
  BY <1>0, <1>4, <1>5 DEF IInv, RunsAtWork, BatchesEarned, Working
<1>11. x.distributed <= Cardinality(Held(x.at) \cup Added(j)')
  <2>1. Held(x.at) \cup Added(j)' = Held(run[j].at) \cup Added(j)
    BY <1>4, <1>7
  <2> QED
    BY <1>1, <1>4, <1>m, <2>1
<1>12. \A k \in Sweeps \ {j} :
         run[k].stage = "counted" /\ InBatch(j)' # {} /\ InBatch(k) # {}
         => /\ TemplateOf[x.at] # TemplateOf[run[k].at]
            /\ \A r \in Added(j)', q \in Added(k) : NumberFor(j, r)' # NumberFor(k, q)
  <2> SUFFICES ASSUME NEW k \in Sweeps \ {j}, run[k].stage = "counted",
                      InBatch(j) # {}, InBatch(k) # {}
               PROVE  /\ TemplateOf[x.at] # TemplateOf[run[k].at]
                      /\ \A r \in Added(j), q \in Added(k) : NumberFor(j, r) # NumberFor(k, q)
    BY <1>5, <1>6, <1>7
  <2>1. ~Waits(j, k)
    BY DEF Counts
  <2>2. Added(j) \subseteq InBatch(j)
    BY DEF Added
  <2> QED
    BY <1>4, <2>1, <2>2 DEF Waits
<1> QED
  BY <1>0, <1>2, <1>4, <1>8, <1>9, <1>10, <1>11, <1>12, RunStep

\* What a run is once it is done with a deployment: no batch, and typed.
LEMMA OnwardFits ==
  ASSUME IInv, NEW j \in Sweeps, run[j].stage \in Working
  PROVE  /\ Onward(j) \in RunType /\ Onward(j).stage \notin Working
         /\ \A r \in Rows : Onward(j).batch[r] = "none"
<1> DEFINE rest == run[j].due \ {run[j].at}
           was == [run[j].was EXCEPT ![run[j].at] = Unread]
           x == [IdleRun EXCEPT !.stage = "begun", !.due = rest, !.was = was]
<1>1. run[j] \in RunType
  BY DEF IInv, TypeOK
<1>2. rest \in SUBSET Deployments /\ was \in [Deployments -> ReadType]
  BY <1>1 DEF RunType, Unread, ReadType
<1>3. Onward(j) = IdleRun \/ Onward(j) = x
  BY DEF Onward
<1> HIDE DEF rest, was
<1>4. /\ x \in RunType /\ x.stage = "begun" /\ x.batch = IdleRun.batch
      /\ IdleRun \in RunType /\ IdleRun.stage = "idle"
      /\ \A r \in Rows : IdleRun.batch[r] = "none"
  BY <1>2 DEF IdleRun, RunType, HoursRead, Unread, ReadType
<1> HIDE DEF x
<1> QED
  BY <1>3, <1>4 DEF Working

\* A run that has told its batch, or whose notices are counted as kept back, lets go.
LEMMA LetsGo ==
  ASSUME IInv, NEW j \in Sweeps, NEW x \in RunType, run' = [run EXCEPT ![j] = x],
         x.stage \notin Working, \A r \in Rows : x.batch[r] = "none",
         UNCHANGED <<over, status, hours, answered, deployment, sheet, call, open, crossed, requests>>,
         faults' \in 0..MaxFaults,
         \/ run[j].stage # "telling" /\ UNCHANGED <<told, muted>>
         \/ run[j].stage = "telling" /\ told' = told \cup Notices(j) /\ muted' = muted
         \/ run[j].stage = "telling" /\ told' = told /\ muted' = muted \cup Notices(j)
  PROVE  IInv'
<1>1. /\ told \subseteq told' /\ muted \subseteq muted'
      /\ run[j].stage = "telling" => Notices(j) \subseteq told' \cup muted'
  OBVIOUS
<1>2. told' \subseteq Deployments \X Rows /\ muted' \subseteq Deployments \X Rows
  <2>1. told \subseteq Deployments \X Rows /\ muted \subseteq Deployments \X Rows
    BY DEF IInv, TypeOK
  <2>2. run[j].stage = "telling" => Notices(j) \subseteq Deployments \X Rows
    BY NoticesTyped DEF IInv, Working
  <2> QED
    BY <2>1, <2>2
<1>3. crossed' \subseteq Deployments \X {"deploy", "count", "open"}
  BY DEF IInv, TypeOK
<1>4. TypeOK'
  BY <1>2, <1>3, RunTyped DEF IInv
<1>5. InBatch(j)' = {}
  BY OneRun DEF IInv, InBatch
<1>6. x.stage # "counted"
  BY DEF Working
<1> QED
  BY <1>1, <1>4, <1>5, <1>6, RunStep

LEMMA AnnouncesIInv == ASSUME IInv, NEW j \in Sweeps, Announces(j) PROVE IInv'
<1>1. /\ run[j].stage = "telling" /\ told' = told \cup Notices(j) /\ muted' = muted
      /\ run' = [run EXCEPT ![j] = Onward(j)] /\ faults' = faults
      /\ UNCHANGED <<over, status, hours, answered, deployment, sheet, call, open, crossed, requests>>
  BY DEF Announces, attendance
<1>2. faults' \in 0..MaxFaults
  BY <1>1 DEF IInv, TypeOK
<1> QED
  BY <1>1, <1>2, OnwardFits, LetsGo DEF Working

LEMMA FailsIInv == ASSUME IInv, NEW j \in Sweeps, Fails(j) \/ Dies(j) PROVE IInv'
<1>1. /\ told' = told
      /\ muted' = IF run[j].stage = "telling" THEN muted \cup Notices(j) ELSE muted
      /\ UNCHANGED <<over, status, hours, answered, deployment, sheet, call, open, crossed, requests>>
  BY DEF Fails, Dies, Withheld, attendance
<1>2. faults' \in 0..MaxFaults
  BY ConstantsOK DEF IInv, TypeOK, Fails, Dies, Withheld
<1>3. \/ run[j].stage # "telling" /\ UNCHANGED <<told, muted>>
      \/ run[j].stage = "telling" /\ told' = told /\ muted' = muted \cup Notices(j)
  BY <1>1
<1>4. CASE Fails(j)
  <2>1. run' = [run EXCEPT ![j] = Onward(j)] /\ run[j].stage \in Working
    BY <1>4 DEF Fails, Working
  <2> QED
    BY <1>1, <1>2, <1>3, <2>1, OnwardFits, LetsGo
<1>5. CASE Dies(j)
  <2>1. run' = [run EXCEPT ![j] = IdleRun]
    BY <1>5 DEF Dies
  <2>2. /\ IdleRun \in RunType /\ IdleRun.stage \notin Working
        /\ \A r \in Rows : IdleRun.batch[r] = "none"
    BY DEF IdleRun, RunType, HoursRead, Unread, ReadType, Working
  <2> QED
    BY <1>1, <1>2, <1>3, <2>1, <2>2, LetsGo
<1> QED
  BY <1>4, <1>5

------------------------------------------------------------------------------
(* The commit of a batch *)

\* The row of the deployment after a commit; the other rows are as they were.
LEMMA CommitRow ==
  ASSUME IInv, NEW j \in Sweeps, Commits(j), NEW d \in Deployments, d = run[j].at
  PROVE  /\ deployment'[d].status = IF Complete(j) THEN "COMPLETED" ELSE "DISTRIBUTING"
         /\ deployment'[d].design = deployment[d].design
         /\ deployment'[d].distributed = run[j].distributed
         /\ deployment'[d].claimed = run[j].claimed
         /\ deployment'[d].byHand = FALSE
         /\ deployment'[d].absent = run[j].absent
         /\ deployment'[d].dropped = InBatch(j) \ (Held(d) \cup Added(j))
         /\ \A e \in Deployments \ {d} : deployment'[e] = deployment[e]
<1> DEFINE s == IF Complete(j) THEN "COMPLETED" ELSE "DISTRIBUTING"
           skipped == InBatch(j) \ (Held(d) \cup Added(j))
           x == run[j]
           old == deployment[d]
           row == [old EXCEPT !.status = s, !.participants = x.participants,
                       !.distributed = x.distributed, !.claimed = x.claimed,
                       !.byHand = FALSE, !.absent = x.absent, !.dropped = skipped]
<1>1. deployment \in [Deployments -> DeploymentType] /\ old \in DeploymentType
  BY DEF IInv, TypeOK
<1>2. deployment' = [deployment EXCEPT ![d] = row]
  BY <1>1 DEF Commits, DeploymentType
<1> HIDE DEF s, skipped, x, old
<1>3. /\ row.status = s /\ row.design = old.design /\ row.distributed = x.distributed
      /\ row.claimed = x.claimed /\ row.byHand = FALSE
      /\ row.absent = x.absent /\ row.dropped = skipped
  BY <1>1 DEF DeploymentType
<1> HIDE DEF row
<1>4. deployment'[d] = row /\ \A e \in Deployments \ {d} : deployment'[e] = deployment[e]
  BY <1>1, <1>2
<1> QED
  BY <1>3, <1>4 DEF s, skipped, x, old

\* What a commit writes: the sheets it adds, and the row of the deployment.
LEMMA CommitWrites ==
  ASSUME IInv, NEW j \in Sweeps, Commits(j)
  PROVE  /\ run[j].at \in Deployments /\ run[j].at \in run[j].due
         /\ Added(j) \subseteq InBatch(j) /\ InBatch(j) \subseteq Rows
         /\ \A r \in InBatch(j) : NumberFor(j, r) \in Nat \ {0}
         /\ \A r \in Added(j) :
              sheet'[run[j].at][r] = [number |-> NumberFor(j, r),
                                      design |-> run[j].was[run[j].at].design,
                                      hours |-> run[j].batch[r], claimed |-> FALSE]
         /\ \A e \in Deployments, r \in Rows :
              e # run[j].at \/ r \notin Added(j) => sheet'[e][r] = sheet[e][r]
         /\ deployment'[run[j].at].distributed = run[j].distributed
         /\ \A e \in Deployments \ {run[j].at} : deployment'[e] = deployment[e]
<1>1. run[j].stage = "counted" /\ run[j].stage \in Working
  BY DEF Commits, Working
<1>2. run[j].at \in Deployments /\ run[j].at \in run[j].due
  BY <1>1, AtDeployment DEF IInv, RunsAtWork
<1>3. Added(j) \subseteq InBatch(j) /\ InBatch(j) \subseteq Rows
  BY DEF Added, InBatch
<1>4. \A r \in InBatch(j) : NumberFor(j, r) \in Nat \ {0}
  BY NumbersApart DEF IInv, TypeOK, RunType
<1>5. /\ sheet \in [Deployments -> [Rows -> SheetType]]
      /\ deployment \in [Deployments -> DeploymentType]
  BY DEF IInv, TypeOK
<1>6. \A e \in Deployments : e # run[j].at => sheet'[e] = sheet[e]
  BY <1>2, <1>5 DEF Commits
<1>7. \A r \in Rows : sheet'[run[j].at][r] =
         IF r \in Added(j)
         THEN [number |-> NumberFor(j, r), design |-> run[j].was[run[j].at].design,
               hours |-> run[j].batch[r], claimed |-> FALSE]
         ELSE sheet[run[j].at][r]
  BY <1>2, <1>5 DEF Commits
<1>8. /\ deployment'[run[j].at].distributed = run[j].distributed
      /\ \A e \in Deployments \ {run[j].at} : deployment'[e] = deployment[e]
  BY <1>2, CommitRow
<1> QED
  BY <1>2, <1>3, <1>4, <1>6, <1>7, <1>8

\* The runs after a commit: the one that committed tells its batch or goes on.
LEMMA CommitRuns ==
  ASSUME IInv, NEW j \in Sweeps, Commits(j)
  PROVE  /\ run' \in [Sweeps -> RunType] /\ run'[j].stage # "counted"
         /\ \A k \in Sweeps : k # j => run'[k] = run[k]
         /\ InBatch(j) = {} => run'[j].stage \notin Working /\ InBatch(j)' = {}
         /\ InBatch(j) # {} => /\ run'[j].stage = "telling" /\ run'[j].at = run[j].at
                               /\ run'[j].due = run[j].due /\ run'[j].batch = run[j].batch
                               /\ InBatch(j)' = InBatch(j)
<1> DEFINE tells == [run[j] EXCEPT !.stage = "telling", !.top = 0, !.participants = 0,
                                   !.absent = {}, !.distributed = 0, !.claimed = 0]
<1>1. run[j] \in RunType /\ run[j].stage \in Working
  BY DEF IInv, TypeOK, Commits, Working
<1>2. /\ tells \in RunType /\ tells.stage = "telling" /\ tells.at = run[j].at
      /\ tells.due = run[j].due /\ tells.batch = run[j].batch
  BY <1>1 DEF RunType
<1>3. run' = [run EXCEPT ![j] = IF InBatch(j) = {} THEN Onward(j) ELSE tells]
  BY DEF Commits
<1> HIDE DEF tells
<1>4. CASE InBatch(j) = {}
  <2>1. run' = [run EXCEPT ![j] = Onward(j)]
    BY <1>3, <1>4
  <2>2. /\ Onward(j) \in RunType /\ Onward(j).stage \notin Working
        /\ \A r \in Rows : Onward(j).batch[r] = "none"
    BY <1>1, OnwardFits
  <2>3. /\ run' \in [Sweeps -> RunType] /\ run'[j] = Onward(j)
        /\ \A k \in Sweeps : k # j => run'[k] = run[k]
    BY <2>1, <2>2, OneRun DEF IInv
  <2>4. InBatch(j)' = {}
    BY <2>2, <2>3 DEF InBatch
  <2> QED
    BY <1>4, <2>2, <2>3, <2>4 DEF Working
<1>5. CASE InBatch(j) # {}
  <2>1. run' = [run EXCEPT ![j] = tells]
    BY <1>3, <1>5
  <2>2. /\ run' \in [Sweeps -> RunType] /\ run'[j] = tells
        /\ \A k \in Sweeps : k # j => run'[k] = run[k]
    BY <1>2, <2>1, OneRun DEF IInv
  <2>3. InBatch(j)' = InBatch(j)
    BY <1>2, <2>2 DEF InBatch
  <2> QED
    BY <1>2, <1>5, <2>2, <2>3
<1> QED
  BY <1>4, <1>5

LEMMA CommitTyped == ASSUME IInv, NEW j \in Sweeps, Commits(j) PROVE TypeOK'
<1> DEFINE d == run[j].at
           new(r) == [number |-> NumberFor(j, r), design |-> run[j].was[d].design,
                      hours |-> run[j].batch[r], claimed |-> FALSE]
           page == [r \in Rows |-> IF r \in Added(j) THEN new(r) ELSE sheet[d][r]]
           s == IF Complete(j) THEN "COMPLETED" ELSE "DISTRIBUTING"
           skipped == InBatch(j) \ (Held(d) \cup Added(j))
           row == [deployment[d] EXCEPT !.status = s, !.participants = run[j].participants,
                       !.distributed = run[j].distributed, !.claimed = run[j].claimed,
                       !.byHand = FALSE, !.absent = run[j].absent, !.dropped = skipped]
<1>1. d \in Deployments
  BY CommitWrites
<1>2. run[j] \in RunType /\ run[j].was[d] \in ReadType
  BY <1>1 DEF IInv, TypeOK, RunType
<1>3. \A r \in Added(j) : new(r) \in SheetType
  <2>1. \A r \in Added(j) : r \in Rows /\ NumberFor(j, r) \in Nat
    BY CommitWrites
  <2> QED
    BY <1>2, <2>1 DEF RunType, ReadType, SheetType
<1>4. sheet \in [Deployments -> [Rows -> SheetType]] /\ deployment \in [Deployments -> DeploymentType]
  BY DEF IInv, TypeOK
<1> HIDE DEF new
<1>5. page \in [Rows -> SheetType]
  BY <1>1, <1>3, <1>4
<1>6. sheet' = [sheet EXCEPT ![d] = page]
  BY DEF Commits, new
<1> HIDE DEF page
<1>7. sheet' \in [Deployments -> [Rows -> SheetType]]
  BY <1>1, <1>4, <1>5, <1>6
<1>8. s \in Statuses \cup {"NONE"}
  BY DEF Statuses
<1>9. deployment' = [deployment EXCEPT ![d] = row]
  BY <1>1, <1>4 DEF Commits, DeploymentType
<1>s. skipped \in SUBSET Rows
  BY DEF InBatch
<1> HIDE DEF s, skipped
<1>10. row \in DeploymentType
  <2>1. deployment[d] \in DeploymentType
    BY <1>1, <1>4
  <2>2. /\ run[j].participants \in Nat /\ run[j].distributed \in Nat
        /\ run[j].claimed \in Nat /\ run[j].absent \in SUBSET Rows
    BY <1>2 DEF RunType
  <2> HIDE DEF d
  <2> QED
    BY <1>8, <1>s, <2>1, <2>2 DEF DeploymentType
<1> HIDE DEF row
<1>11. deployment' \in [Deployments -> DeploymentType]
  BY <1>1, <1>4, <1>9, <1>10
<1>12. run' \in [Sweeps -> RunType]
  BY CommitRuns
<1>13. UNCHANGED <<over, status, hours, answered, call, open, told, muted, crossed, requests, faults>>
  BY DEF Commits, attendance
<1> QED
  BY <1>7, <1>11, <1>12, <1>13 DEF IInv, TypeOK, Attendance!TypeOK

\* Who holds a sheet after a commit, and which numbers are taken.
LEMMA CommitNumbers ==
  ASSUME IInv, NEW j \in Sweeps, Commits(j), NEW d \in Deployments, d = run[j].at
  PROVE  /\ Held(d)' = Held(d) \cup Added(j)
         /\ \A e \in Deployments : e # d => Held(e)' = Held(e)
         /\ \A e \in Deployments, r \in Rows :
              \/ e = d /\ r \in Added(j) /\ sheet'[e][r].number = NumberFor(j, r)
              \/ (e # d \/ r \notin Added(j)) /\ sheet'[e][r] = sheet[e][r]
         /\ \A n \in Nat \ {0} : InUse(n) => InUse(n)'
         /\ \A n : InUse(n)' => InUse(n) \/ \E q \in Added(j) : n = NumberFor(j, q)
<1>1. \A e \in Deployments, r \in Rows :
        \/ e = d /\ r \in Added(j) /\ sheet'[e][r].number = NumberFor(j, r)
        \/ (e # d \/ r \notin Added(j)) /\ sheet'[e][r] = sheet[e][r]
  <2>1. \A r \in Added(j) : sheet'[d][r].number = NumberFor(j, r)
    <3> TAKE r \in Added(j)
    <3>1. sheet'[run[j].at][r] = [number |-> NumberFor(j, r),
                                 design |-> run[j].was[run[j].at].design,
                                 hours |-> run[j].batch[r], claimed |-> FALSE]
      BY CommitWrites
    <3> QED
      BY <3>1
  <2>2. \A e \in Deployments, r \in Rows :
          e # d \/ r \notin Added(j) => sheet'[e][r] = sheet[e][r]
    BY CommitWrites
  <2> QED
    BY <2>1, <2>2
<1>2. /\ Added(j) \subseteq InBatch(j) /\ InBatch(j) \subseteq Rows
      /\ \A r \in Added(j) : NumberFor(j, r) # 0 /\ sheet[d][r].number = 0
  <2>1. \A r \in Added(j) : r \in Rows /\ r \notin Held(d)
    BY DEF Added, InBatch
  <2> QED
    BY <2>1, CommitWrites DEF Held
<1>3. Held(d)' = Held(d) \cup Added(j)
  <2>1. \A r \in Rows : sheet'[d][r].number # 0 <=> r \in Held(d) \cup Added(j)
    BY <1>1, <1>2 DEF Held
  <2>2. Added(j) \subseteq Rows
    BY <1>2
  <2> QED
    BY <2>1, <2>2 DEF Held
<1>4. \A e \in Deployments : e # d => Held(e)' = Held(e)
  BY <1>1 DEF Held
<1>5. \A n \in Nat \ {0} : InUse(n) => InUse(n)'
  <2> SUFFICES ASSUME NEW n \in Nat \ {0}, NEW e \in Deployments, NEW r \in Rows,
                      sheet[e][r].number = n
               PROVE  sheet'[e][r].number = n
    BY DEF InUse
  <2> QED
    BY <1>1, <1>2
<1>6. \A n : InUse(n)' => InUse(n) \/ \E q \in Added(j) : n = NumberFor(j, q)
  BY <1>1 DEF InUse
<1> QED
  BY <1>1, <1>3, <1>4, <1>5, <1>6

\* The batches of the other runs after a commit: they add nobody they did not add, and
\* a run that has counted still adds everybody it counted.
LEMMA CommitOthers ==
  ASSUME IInv, NEW j \in Sweeps, Commits(j), NEW k \in Sweeps, k # j,
         run[k].stage = "counted"
  PROVE  /\ run'[k] = run[k] /\ InBatch(k)' = InBatch(k)
         /\ \A r : NumberFor(k, r)' = NumberFor(k, r)
         /\ Added(k)' \subseteq Added(k)
         /\ (Held(run[k].at) \cup Added(k)) \subseteq (Held(run[k].at) \cup Added(k))'
<1> DEFINE d == run[j].at
           e == run[k].at
<1>1. d \in Deployments /\ e \in Deployments
  BY AtDeployment, CommitWrites DEF IInv, Working
<1>2. /\ run'[k] = run[k] /\ InBatch(k)' = InBatch(k)
      /\ \A r : NumberFor(k, r)' = NumberFor(k, r)
  BY CommitRuns, SameBatch
<1>3. \A r \in InBatch(k) : NumberFor(k, r) \in Nat \ {0}
  BY NumbersApart DEF IInv, TypeOK, RunType
<1> HIDE DEF d
<1>5. /\ \A n \in Nat \ {0} : InUse(n) => InUse(n)'
      /\ \A n : InUse(n)' => InUse(n) \/ \E q \in Added(j) : n = NumberFor(j, q)
      /\ \A r \in Rows : sheet[e][r].number # 0 => sheet'[e][r].number # 0
      /\ e # d \/ Added(j) = {} => \A r \in Rows : sheet'[e][r] = sheet[e][r]
  <2>1. /\ \A n \in Nat \ {0} : InUse(n) => InUse(n)'
        /\ \A n : InUse(n)' => InUse(n) \/ \E q \in Added(j) : n = NumberFor(j, q)
    BY <1>1, CommitNumbers DEF d
  <2>2. \A r \in Rows :
          \/ e = d /\ r \in Added(j) /\ sheet'[e][r].number = NumberFor(j, r)
          \/ (e # d \/ r \notin Added(j)) /\ sheet'[e][r] = sheet[e][r]
    BY <1>1, CommitNumbers DEF d
  <2>3. \A r \in Added(j) : NumberFor(j, r) # 0
    BY CommitWrites
  <2> QED
    BY <2>1, <2>2, <2>3
<1>6. e = run'[k].at
  BY <1>2
<1>7. \A r : r \in Added(k)' <=>
        r \in InBatch(k) /\ ~(r \in Rows /\ sheet'[e][r].number # 0) /\ ~InUse(NumberFor(k, r))'
  BY <1>2, <1>6 DEF Added, Held
<1>8. \A r : r \in Added(k) <=>
        r \in InBatch(k) /\ ~(r \in Rows /\ sheet[e][r].number # 0) /\ ~InUse(NumberFor(k, r))
  BY DEF Added, Held
<1>9. \A r \in InBatch(k) : InUse(NumberFor(k, r)) => InUse(NumberFor(k, r))'
  BY <1>2, <1>3, <1>5
<1>10. Added(k)' \subseteq Added(k)
  BY <1>5, <1>7, <1>8, <1>9
<1>11. \A r \in Rows : r \in Held(e) => r \in Held(run[k].at)'
  BY <1>5, <1>6 DEF Held
<1>12. ASSUME NEW r \in Added(k) PROVE r \in Added(k)'
  <2>1. r \in InBatch(k) /\ r \in Rows
    BY <1>8 DEF InBatch
  <2>2. \/ Added(j) = {}
        \/ e # d /\ \A q \in Added(j) : NumberFor(k, r) # NumberFor(j, q)
    <3>1. Added(j) \subseteq InBatch(j)
      BY CommitWrites
    <3>2. InBatch(j) # {} => /\ TemplateOf[run[k].at] # TemplateOf[run[j].at]
                             /\ \A q \in Added(j) : NumberFor(k, r) # NumberFor(j, q)
      BY <2>1 DEF IInv, CountsApart, Commits
    <3> QED
      BY <3>1, <3>2 DEF d
  <2>3. ~(r \in Rows /\ sheet'[e][r].number # 0)
    BY <1>5, <1>8, <2>1, <2>2
  <2>4. ~InUse(NumberFor(k, r))'
    <3>1. \A n : InUse(n)' /\ Added(j) = {} => InUse(n)
      BY <1>5
    <3> QED
      BY <1>2, <1>5, <1>8, <2>2, <3>1 DEF InUse
  <2> QED
    BY <1>7, <2>1, <2>3, <2>4
<1>13. Held(run[k].at) \subseteq Rows
  BY DEF Held
<1>14. Held(run[k].at) \subseteq Held(run[k].at)'
  BY <1>11, <1>13
<1> QED
  BY <1>2, <1>10, <1>12, <1>14
\* What a commit leaves true of the sheets.
LEMMA CommitSheets == ASSUME IInv, NEW j \in Sweeps, Commits(j) PROVE SheetsEarned'
<1> DEFINE d == run[j].at
<1>d. d \in Deployments
  BY CommitWrites
<1>0. UNCHANGED <<status, hours, answered>>
  BY DEF Commits, attendance
<1> HIDE DEF d
<1>1. \A e \in Deployments, r \in Rows :
        \/ e = d /\ r \in Added(j) /\ sheet'[e][r].number = NumberFor(j, r)
        \/ (e # d \/ r \notin Added(j)) /\ sheet'[e][r] = sheet[e][r]
  BY <1>d, CommitNumbers DEF d
<1>2. /\ Added(j) \subseteq InBatch(j) /\ InBatch(j) \subseteq Rows
      /\ \A r \in Added(j) : /\ ~InUse(NumberFor(j, r)) /\ NumberFor(j, r) # 0
                             /\ sheet'[d][r].hours = run[j].batch[r]
  <2>1. \A r \in Added(j) : sheet'[d][r].hours = run[j].batch[r]
    <3> TAKE r \in Added(j)
    <3>1. sheet'[run[j].at][r] = [number |-> NumberFor(j, r),
                                 design |-> run[j].was[run[j].at].design,
                                 hours |-> run[j].batch[r], claimed |-> FALSE]
      BY CommitWrites
    <3> QED
      BY <3>1 DEF d
  <2>2. Added(j) \subseteq InBatch(j) /\ InBatch(j) \subseteq Rows
    BY CommitWrites
  <2>3. \A r \in Added(j) : ~InUse(NumberFor(j, r)) /\ NumberFor(j, r) # 0
    BY <2>2, CommitWrites DEF Added
  <2> QED
    BY <2>1, <2>2, <2>3
<1>3. \A r \in Added(j) : /\ status[r] = "COMPLETED" /\ r \in answered \cap Covered(d)
                          /\ hours[r] = run[j].batch[r]
  BY <1>2 DEF IInv, BatchesEarned, d
<1>4. \A r, q \in Added(j) : NumberFor(j, r) = NumberFor(j, q) => r = q
  BY <1>2, NumbersApart DEF IInv, TypeOK, RunType
<1> SUFFICES ASSUME NEW e \in Deployments, NEW r \in Rows, sheet'[e][r].number # 0
             PROVE  /\ status[r] = "COMPLETED" /\ r \in answered \cap Covered(e)
                    /\ sheet'[e][r].hours = hours[r]
                    /\ \A x \in Deployments, q \in Rows :
                         sheet'[x][q].number = sheet'[e][r].number => x = e /\ q = r
  <2>1. UNCHANGED <<status, hours, answered>>
    BY <1>0
  <2> QED
    BY <2>1 DEF SheetsEarned, Held, Covered
<1>5. CASE e = d /\ r \in Added(j)
  <2>1. sheet'[e][r].number = NumberFor(j, r)
    BY <1>1, <1>5
  <2>2. ASSUME NEW x \in Deployments, NEW q \in Rows, sheet'[x][q].number = sheet'[e][r].number
        PROVE  x = e /\ q = r
    <3>1. ~(sheet[x][q].number = NumberFor(j, r))
      BY <1>2, <1>5 DEF InUse
    <3>2. x = d /\ q \in Added(j) /\ sheet'[x][q].number = NumberFor(j, q)
      BY <1>1, <2>1, <2>2, <3>1
    <3> QED
      BY <1>4, <1>5, <2>1, <2>2, <3>2
  <2> QED
    BY <1>2, <1>3, <1>5, <2>2
<1>6. CASE e # d \/ r \notin Added(j)
  <2>1. sheet'[e][r] = sheet[e][r] /\ r \in Held(e)
    BY <1>1, <1>6 DEF Held
  <2>2. /\ status[r] = "COMPLETED" /\ r \in answered \cap Covered(e)
        /\ sheet[e][r].hours = hours[r]
        /\ \A x \in Deployments, q \in Rows :
             sheet[x][q].number = sheet[e][r].number => x = e /\ q = r
    BY <2>1 DEF IInv, SheetsEarned
  <2>3. ASSUME NEW x \in Deployments, NEW q \in Rows, sheet'[x][q].number = sheet'[e][r].number
        PROVE  x = e /\ q = r
    <3>1. ASSUME x = d, q \in Added(j), sheet'[x][q].number = NumberFor(j, q) PROVE FALSE
      BY <1>2, <2>1, <2>3, <3>1 DEF InUse
    <3> QED
      BY <1>1, <2>1, <2>2, <2>3, <3>1
  <2> QED
    BY <2>1, <2>2, <2>3
<1> QED
  BY <1>5, <1>6

LEMMA CommitsIInv == ASSUME IInv, NEW j \in Sweeps, Commits(j) PROVE IInv'
<1> DEFINE d == run[j].at
<1>d. d \in Deployments
  BY CommitWrites
<1>0. UNCHANGED <<status, hours, answered, call, open, told, muted>> /\ run[j].stage = "counted"
  BY DEF Commits, attendance
<1>r. /\ run' \in [Sweeps -> RunType] /\ run'[j].stage # "counted"
      /\ \A k \in Sweeps : k # j => run'[k] = run[k] /\ InBatch(k)' = InBatch(k)
      /\ \A k \in Sweeps : k # j => Notices(k)' = Notices(k)
      /\ InBatch(j) = {} => run'[j].stage \notin Working /\ InBatch(j)' = {}
      /\ InBatch(j) # {} => /\ run'[j].stage = "telling" /\ run'[j].at = d
                            /\ run'[j].due = run[j].due /\ run'[j].batch = run[j].batch
                            /\ InBatch(j)' = InBatch(j)
  BY CommitRuns, SameBatch DEF Notices
<1>w. d \in run[j].due /\ Added(j) \subseteq InBatch(j) /\ InBatch(j) \subseteq Rows
  BY CommitWrites
<1>n. /\ Held(run[j].at) \subseteq Rows /\ Held(d) = Held(run[j].at)
      /\ \A e \in Deployments : e = d => Held(e)' = Held(e) \cup Added(j)
      /\ \A e \in Deployments : e # d => Held(e)' = Held(e)
      /\ \A e \in Deployments, r \in Rows :
           \/ e = d /\ r \in Added(j) /\ sheet'[e][r].number = NumberFor(j, r)
           \/ (e # d \/ r \notin Added(j)) /\ sheet'[e][r] = sheet[e][r]
  <2>1. Held(run[j].at) \subseteq Rows
    BY DEF Held
  <2> QED
    BY <1>d, <2>1, CommitNumbers
<1>1. TypeOK'
  BY CommitTyped
<1>2. RunsAtWork' /\ BatchesEarned'
  BY <1>0, <1>r, <1>w DEF IInv, RunsAtWork, BatchesEarned, Working, Covered
<1>3. NumbersBounded'
  <2>1. PICK n \in Nat : \A e \in Deployments, r \in Rows : sheet[e][r].number <= n
    BY DEF IInv, NumbersBounded
  <2>2. run[j].top \in Nat
    BY DEF IInv, TypeOK, RunType
  <2>3. \A r \in InBatch(j) : /\ NumberFor(j, r) \in Nat
                              /\ NumberFor(j, r) <= run[j].top + Cardinality(InBatch(j))
    BY <2>2, NumbersApart
  <2>4. Cardinality(InBatch(j)) \in Nat
    BY <1>w, FiniteRows
  <2> DEFINE b == run[j].top + Cardinality(InBatch(j))
  <2>5. b \in Nat /\ \A r \in InBatch(j) : NumberFor(j, r) <= b
    BY <2>2, <2>3, <2>4
  <2>6. \A e \in Deployments, r \in Rows : sheet[e][r].number \in Nat
    BY DEF IInv, TypeOK, SheetType
  <2> HIDE DEF b, d
  <2>7. \A e \in Deployments, r \in Rows : sheet'[e][r].number <= n + b
    BY <1>n, <1>w, <2>1, <2>3, <2>5, <2>6
  <2>8. n + b \in Nat
    BY <2>5
  <2> QED
    BY <2>7, <2>8 DEF NumbersBounded
<1>4. SheetsEarned'
  BY CommitSheets
<1>5. CountsTrue'
  <2> SUFFICES ASSUME NEW k \in Sweeps, run'[k].stage = "counted"
               PROVE  run'[k].distributed <= Cardinality((Held(run[k].at) \cup Added(k))')
    BY DEF CountsTrue
  <2>1. k # j /\ run'[k] = run[k] /\ run[k].stage = "counted"
    BY <1>r
  <2> DEFINE S == Held(run[k].at) \cup Added(k)
             T == (Held(run[k].at) \cup Added(k))'
  <2>2. S \subseteq T
    BY <2>1, CommitOthers
  <2>3. S \in SUBSET Rows /\ T \in SUBSET Rows
    BY DEF Held, Added, InBatch
  <2>4. run[k].distributed <= Cardinality(S)
    BY <2>1 DEF IInv, CountsTrue
  <2>5. run[k].distributed \in Nat
    BY DEF IInv, TypeOK, RunType
  <2> HIDE DEF S, T
  <2>6. Cardinality(S) <= Cardinality(T) /\ Cardinality(S) \in Nat /\ Cardinality(T) \in Nat
    BY <2>2, <2>3, FiniteRows, FS_Subset
  <2>7. run'[k].distributed <= Cardinality(T)
    BY <2>1, <2>4, <2>5, <2>6
  <2> QED
    BY <2>7 DEF T
<1>6. CountsApart'
  <2> SUFFICES ASSUME NEW i \in Sweeps, NEW k \in Sweeps, i # k,
                      run'[i].stage = "counted", run'[k].stage = "counted",
                      InBatch(i)' # {}, InBatch(k)' # {}
               PROVE  /\ TemplateOf[run'[i].at] # TemplateOf[run'[k].at]
                      /\ \A r \in Added(i)', q \in Added(k)' : NumberFor(i, r)' # NumberFor(k, q)'
    BY DEF CountsApart
  <2>1. i # j /\ k # j /\ run[i].stage = "counted" /\ run[k].stage = "counted"
    BY <1>r
  <2>2. /\ run'[i] = run[i] /\ InBatch(i)' = InBatch(i) /\ Added(i)' \subseteq Added(i)
        /\ \A r : NumberFor(i, r)' = NumberFor(i, r)
    BY <2>1, CommitOthers
  <2>3. /\ run'[k] = run[k] /\ InBatch(k)' = InBatch(k) /\ Added(k)' \subseteq Added(k)
        /\ \A r : NumberFor(k, r)' = NumberFor(k, r)
    BY <2>1, CommitOthers
  <2> QED
    BY <2>1, <2>2, <2>3 DEF IInv, CountsApart
<1>7. DistributedHaveSheets'
  <2> SUFFICES ASSUME NEW e \in Deployments
               PROVE  deployment'[e].distributed <= Cardinality(Held(e)')
    BY DEF DistributedHaveSheets
  <2>1. CASE e = d
    <3>1. deployment'[e].distributed = run[j].distributed
      BY <2>1, CommitWrites
    <3>2. Held(e)' = Held(run[j].at) \cup Added(j)
      BY <2>1, <1>n
    <3>3. run[j].distributed <= Cardinality(Held(run[j].at) \cup Added(j))
      BY <1>0 DEF IInv, CountsTrue
    <3> QED
      BY <3>1, <3>2, <3>3
  <2>2. CASE e # d
    <3>1. deployment'[e] = deployment[e] /\ Held(e)' = Held(e)
      BY <2>2, <1>n, CommitWrites
    <3> QED
      BY <3>1 DEF IInv, DistributedHaveSheets
  <2> QED
    BY <2>1, <2>2
<1>8. HoldersTold'
  <2> SUFFICES ASSUME NEW e \in Deployments, NEW r \in Held(e)'
               PROVE  \/ <<e, r>> \in told \cup muted
                      \/ \E k \in Sweeps : run'[k].stage = "telling" /\ <<e, r>> \in Notices(k)'
    BY <1>0 DEF HoldersTold
  <2>1. CASE e = d /\ r \in Added(j)
    <3>1. run'[j].stage = "telling" /\ run'[j].at = d /\ r \in InBatch(j)'
      BY <2>1, <1>r, <1>w
    <3>2. <<e, r>> \in Notices(j)'
      BY <2>1, <3>1 DEF Notices
    <3> QED
      BY <3>1, <3>2
  <2>2. CASE ~(e = d /\ r \in Added(j))
    <3>1. r \in Held(e)
      BY <2>2, <1>n
    <3>2. CASE <<e, r>> \in told \cup muted
      BY <3>2
    <3>3. ASSUME NEW k \in Sweeps, run[k].stage = "telling", <<e, r>> \in Notices(k)
          PROVE  run'[k].stage = "telling" /\ <<e, r>> \in Notices(k)'
      BY <3>3, <1>0, <1>r
    <3> QED
      BY <3>1, <3>2, <3>3 DEF IInv, HoldersTold
  <2> QED
    BY <2>1, <2>2
<1>9. Opened' /\ Called'
  <2>1. \A e \in Deployments : Held(e) \subseteq Held(e)'
    BY <1>n
  <2>2. ASSUME NEW v \in Viewers, open'[v] # Closed
        PROVE  open'[v].at \in Deployments /\ open'[v].row \in Held(open[v].at)'
    <3>1. open'[v] = open[v] /\ open[v].at \in Deployments /\ open[v].row \in Held(open[v].at)
      BY <2>2, <1>0 DEF IInv, Opened
    <3> DEFINE e == open[v].at
    <3>2. open[v].row \in Held(e)'
      BY <3>1, <1>n
    <3>3. open' = open
      BY <1>0
    <3> QED
      BY <3>1, <3>2, <3>3
  <2> QED
    BY <1>0, <2>2 DEF IInv, Opened, Called
<1> QED
  BY <1>1, <1>2, <1>3, <1>4, <1>5, <1>6, <1>7, <1>8, <1>9 DEF IInv

------------------------------------------------------------------------------
(* What goes on around the sweep *)

LEMMA EndsIInv == ASSUME IInv, NEW e \in Events, Ends(e) PROVE IInv'
<1>1. over' = over \cup {e} /\ UNCHANGED <<status, hours, answered, deployment, sheet, run, call,
                                         open, told, muted, crossed, requests, faults>>
  BY DEF Ends, attendance
<1>2. TypeOK'
  BY <1>1 DEF IInv, TypeOK, Attendance!TypeOK
<1>3. Opened' /\ Called'
  BY <1>1 DEF IInv, Opened, Called, Held
<1> QED
  BY <1>1, <1>2, <1>3, Surroundings

LEMMA RuledIInv == ASSUME IInv, NEW r \in Rows, Ruled(r) PROVE IInv'
<1>1. /\ \/ \E s \in {"COMPLETED", "ABSENT"} : Attendance!Rule(r, s)
         \/ Attendance!Correct(r)
      /\ UNCHANGED <<over, answered, deployment, sheet, run, call, open, told, muted,
                     crossed, requests, faults>>
  BY DEF Ruled
<1>2. Attendance!TypeOK
  BY DEF IInv, TypeOK
<1>3. Attendance!TypeOK'
  BY <1>1, <1>2 DEF Attendance!TypeOK, Attendance!Rule, Attendance!Correct
<1>4. \A q \in Rows : status[q] = "COMPLETED" => status'[q] = "COMPLETED" /\ hours'[q] = hours[q]
  BY <1>1, <1>2 DEF Attendance!TypeOK, Attendance!Rule, Attendance!Correct
<1>5. TypeOK'
  BY <1>1, <1>3 DEF IInv, TypeOK
<1>6. Opened' /\ Called'
  BY <1>1 DEF IInv, Opened, Called, Held
<1> QED
  BY <1>1, <1>4, <1>5, <1>6, Surroundings

LEMMA AnswersIInv == ASSUME IInv, NEW r \in Rows, Answers(r) PROVE IInv'
<1>1. answered' = answered \cup {r} /\ UNCHANGED <<over, status, hours, deployment, sheet, run, call,
                                                 open, told, muted, crossed, requests, faults>>
  BY DEF Answers, attendance
<1>2. TypeOK'
  BY <1>1 DEF IInv, TypeOK, Attendance!TypeOK
<1>3. Opened' /\ Called'
  BY <1>1 DEF IInv, Opened, Called, Held
<1> QED
  BY <1>1, <1>2, <1>3, Surroundings

\* A director's request is read.
LEMMA AsksIInv ==
  ASSUME IInv, NEW c \in Directors, NEW d \in Deployments,
         \/ \E g \in Designs : Deploys(c, d, g)
         \/ \E s \in {"DISTRIBUTING", "PAUSED", "COMPLETED"} : Steers(c, d, s)
  PROVE  IInv'
<1>1. /\ UNCHANGED <<over, status, hours, answered, deployment, sheet, run, open, told, muted, faults>>
      /\ requests < MaxRequests /\ requests' = requests + 1
  BY DEF Deploys, Steers, Asked, attendance
<1>2. crossed' \subseteq crossed \cup {<<d, "deploy">>, <<d, "count">>}
  BY DEF Deploys, Steers, Meets
<1>3. PICK x \in CallType : x.at = d /\ call' = [call EXCEPT ![c] = x]
  <2>1. ASSUME NEW g \in Designs, Deploys(c, d, g)
        PROVE  \E x \in CallType : x.at = d /\ call' = [call EXCEPT ![c] = x]
    <3> DEFINE x == [stage |-> "deploy", at |-> d, design |-> g, status |-> deployment[d].status]
    <3>1. deployment[d].status \in Statuses \cup {"NONE"}
      BY DEF IInv, TypeOK, DeploymentType
    <3>2. x \in CallType
      BY <3>1 DEF CallType
    <3> QED
      BY <2>1, <3>2 DEF Deploys, Request
  <2>2. ASSUME NEW s \in {"DISTRIBUTING", "PAUSED", "COMPLETED"}, Steers(c, d, s)
        PROVE  \E x \in CallType : x.at = d /\ call' = [call EXCEPT ![c] = x]
    <3> DEFINE x == [stage |-> "status", at |-> d, design |-> Blank, status |-> s]
    <3>1. x \in CallType
      BY DEF CallType, Statuses
    <3> QED
      BY <2>2, <3>1 DEF Steers, Request
  <2> QED
    BY <2>1, <2>2
<1>4. /\ call' \in [Directors -> CallType] /\ call'[c] = x
      /\ \A k \in Directors : k # c => call'[k] = call[k]
  BY <1>3 DEF IInv, TypeOK
<1>5. TypeOK'
  <2>1. requests' \in 0..MaxRequests
    BY <1>1, ConstantsOK DEF IInv, TypeOK
  <2>2. crossed' \subseteq Deployments \X {"deploy", "count", "open"}
    BY <1>2 DEF IInv, TypeOK
  <2> QED
    BY <1>1, <1>4, <2>1, <2>2 DEF IInv, TypeOK, Attendance!TypeOK
<1>6. Opened' /\ Called'
  BY <1>1, <1>3, <1>4 DEF IInv, Opened, Called, Held
<1> QED
  BY <1>1, <1>5, <1>6, Surroundings

\* A director's request is written: the row's status and wording change, not its counts.
LEMMA WritesIInv == ASSUME IInv, NEW c \in Directors, Deployed(c) \/ Steered(c) PROVE IInv'
<1> DEFINE d == call[c].at
<1>1. UNCHANGED <<over, status, hours, answered, sheet, run, open, told, muted, crossed, requests, faults>>
  BY DEF Deployed, Steered, attendance
<1>2. call' = [call EXCEPT ![c] = IdleCall] /\ call[c].stage \in {"deploy", "status"}
  BY DEF Deployed, Steered
<1>3. d \in Deployments /\ call[c] \in CallType
  BY <1>2 DEF IInv, TypeOK, Called
<1>4. deployment[d] \in DeploymentType /\ deployment \in [Deployments -> DeploymentType]
  BY <1>3 DEF IInv, TypeOK
<1> DEFINE row(s, g, n, b) == [deployment[d] EXCEPT !.status = s, !.design = g,
                                                   !.participants = n, !.byHand = b]
<1>5. ASSUME NEW s \in Statuses \cup {"NONE"}, NEW g \in Designs \cup {Blank}, NEW n \in Nat,
             NEW b \in BOOLEAN, deployment' = [deployment EXCEPT ![d] = row(s, g, n, b)]
      PROVE  /\ deployment' \in [Deployments -> DeploymentType]
             /\ \A e \in Deployments : deployment'[e].distributed = deployment[e].distributed
  <2>1. row(s, g, n, b) \in DeploymentType
    <3> HIDE DEF d
    <3> QED
      BY <1>4 DEF DeploymentType
  <2>2. row(s, g, n, b).distributed = deployment[d].distributed
    BY <1>4 DEF DeploymentType
  <2> QED
    BY <1>3, <1>4, <1>5, <2>1, <2>2
<1>6. /\ deployment' \in [Deployments -> DeploymentType]
      /\ \A e \in Deployments : deployment'[e].distributed = deployment[e].distributed
  <2>0. /\ Cardinality(Covered(d)) \in Nat
        /\ call[c].status \in Statuses \cup {"NONE"} /\ call[c].design \in Designs \cup {Blank}
        /\ Derived(d) \in Statuses \cup {"NONE"}
        /\ (call[c].status = "COMPLETED") \in BOOLEAN
    <3>1. Covered(d) \in SUBSET Rows
      BY DEF Covered
    <3> QED
      BY <1>3, <3>1, FiniteRows DEF CallType, Derived, Statuses
  <2>1. CASE Deployed(c) /\ call[c].status # "NONE"
    <3>1. deployment' = [deployment EXCEPT ![d] = row(call[c].status, call[c].design,
                                         Cardinality(Covered(d)), call[c].status = "COMPLETED")]
      BY <2>1, <1>3, <1>4 DEF Deployed, DeploymentType
    <3> QED
      BY <2>0, <3>1, <1>5
  <2>2. CASE Deployed(c) /\ call[c].status = "NONE" /\ deployment[d].status = "NONE"
    <3>1. deployment[d].byHand \in BOOLEAN
      BY <1>4 DEF DeploymentType
    <3>2. deployment' = [deployment EXCEPT ![d] = row(Derived(d), call[c].design,
                                         Cardinality(Covered(d)), deployment[d].byHand)]
      BY <2>2, <1>3, <1>4 DEF Deployed, DeploymentType
    <3> QED
      BY <2>0, <3>1, <3>2, <1>5
  <2>3. CASE Deployed(c) /\ call[c].status = "NONE" /\ deployment[d].status # "NONE"
    <3>1. deployment' = deployment
      BY <2>3 DEF Deployed
    <3> QED
      BY <1>4, <3>1
  <2>4. CASE Steered(c)
    <3>1. deployment[d].participants \in Nat /\ deployment[d].design \in Designs \cup {Blank}
      BY <1>4 DEF DeploymentType
    <3>2. deployment' = [deployment EXCEPT ![d] = row(call[c].status, deployment[d].design,
                                         deployment[d].participants, call[c].status = "COMPLETED")]
      BY <2>4, <1>3, <1>4 DEF Steered, DeploymentType
    <3> QED
      BY <2>0, <3>1, <3>2, <1>5
  <2> QED
    BY <2>1, <2>2, <2>3, <2>4
<1>7. /\ call' \in [Directors -> CallType] /\ call'[c].stage = "idle"
      /\ \A k \in Directors : k # c => call'[k] = call[k]
  BY <1>2 DEF IInv, TypeOK, IdleCall, CallType
<1>8. TypeOK'
  BY <1>1, <1>6, <1>7 DEF IInv, TypeOK, Attendance!TypeOK
<1>9. Opened' /\ Called'
  BY <1>1, <1>7 DEF IInv, Opened, Called, Held
<1> QED
  BY <1>1, <1>6, <1>8, <1>9, Surroundings

LEMMA OpensIInv ==
  ASSUME IInv, NEW v \in Viewers, NEW d \in Deployments, NEW r \in Rows, Opens(v, d, r)
  PROVE  IInv'
<1>1. /\ UNCHANGED <<over, status, hours, answered, deployment, sheet, run, call, told, muted, faults>>
      /\ requests < MaxRequests /\ requests' = requests + 1
      /\ r \in Held(d) /\ open' = [open EXCEPT ![v] = [at |-> d, row |-> r]]
  BY DEF Opens, Asked, attendance
<1>2. crossed' \subseteq crossed \cup {<<d, "open">>}
  BY DEF Opens
<1>3. TypeOK'
  <2>1. requests' \in 0..MaxRequests
    BY <1>1, ConstantsOK DEF IInv, TypeOK
  <2>2. crossed' \subseteq Deployments \X {"deploy", "count", "open"}
    BY <1>2 DEF IInv, TypeOK
  <2>3. open' \in [Viewers -> [at : Deployments \cup {NoDeployment}, row : Rows \cup {NoRow}]]
    BY <1>1 DEF IInv, TypeOK
  <2> QED
    BY <1>1, <2>1, <2>2, <2>3 DEF IInv, TypeOK, Attendance!TypeOK
<1>4. Called'
  BY <1>1 DEF IInv, Called
<1>5. Opened'
  <2>1. \A e \in Deployments : Held(e)' = Held(e)
    BY <1>1 DEF Held
  <2>2. open'[v] = [at |-> d, row |-> r] /\ \A w \in Viewers : w # v => open'[w] = open[w]
    BY <1>1 DEF IInv, TypeOK
  <2>3. ASSUME NEW w \in Viewers, open'[w] # Closed
        PROVE  open'[w].at \in Deployments /\ open'[w].row \in Held(open[w].at)'
    <3> DEFINE e == open'[w].at
    <3>1. e \in Deployments /\ open'[w].row \in Held(e)
      BY <1>1, <2>2, <2>3 DEF IInv, Opened
    <3> QED
      BY <1>1, <3>1 DEF Held
  <2> QED
    BY <2>3 DEF Opened
<1> QED
  BY <1>1, <1>3, <1>4, <1>5, Surroundings

LEMMA ClaimsIInv == ASSUME IInv, NEW v \in Viewers, Claims(v) PROVE IInv'
<1> DEFINE d == open[v].at
           r == open[v].row
<1>1. /\ UNCHANGED <<over, status, hours, answered, run, call, told, muted, crossed, requests, faults>>
      /\ open[v] # Closed /\ open' = [open EXCEPT ![v] = Closed]
      /\ sheet' = [sheet EXCEPT ![d][r].claimed = TRUE]
      /\ deployment' = [deployment EXCEPT ![d].claimed = @ + 1]
  BY DEF Claims, attendance
<1>2. d \in Deployments /\ r \in Rows
  BY <1>1 DEF IInv, Opened, Held
<1>3. /\ sheet \in [Deployments -> [Rows -> SheetType]] /\ deployment \in [Deployments -> DeploymentType]
      /\ open \in [Viewers -> [at : Deployments \cup {NoDeployment}, row : Rows \cup {NoRow}]]
  BY DEF IInv, TypeOK
<1> DEFINE opened == [sheet[d][r] EXCEPT !.claimed = TRUE]
           page == [sheet[d] EXCEPT ![r] = opened]
           row == [deployment[d] EXCEPT !.claimed = @ + 1]
<1>4. /\ opened \in SheetType /\ opened.number = sheet[d][r].number /\ opened.hours = sheet[d][r].hours
      /\ row \in DeploymentType /\ row.distributed = deployment[d].distributed
  <2>1. sheet[d][r] \in SheetType /\ deployment[d] \in DeploymentType
    BY <1>2, <1>3
  <2> DEFINE old == sheet[d][r]
             was == deployment[d]
  <2>2. was.claimed \in Nat /\ was.claimed + 1 \in Nat
    BY <2>1 DEF DeploymentType
  <2> HIDE DEF old, was
  <2>3. /\ [old EXCEPT !.claimed = TRUE] \in SheetType
        /\ [old EXCEPT !.claimed = TRUE].number = old.number
        /\ [old EXCEPT !.claimed = TRUE].hours = old.hours
    BY <2>1 DEF SheetType, old
  <2>4. /\ [was EXCEPT !.claimed = @ + 1] \in DeploymentType
        /\ [was EXCEPT !.claimed = @ + 1].distributed = was.distributed
    BY <2>1, <2>2 DEF DeploymentType, was
  <2> QED
    BY <2>3, <2>4 DEF old, was
<1>5. sheet' = [sheet EXCEPT ![d] = page] /\ deployment' = [deployment EXCEPT ![d] = row]
  BY <1>1
<1> HIDE DEF opened, row
<1>6. page \in [Rows -> SheetType] /\ page[r] = opened /\ \A q \in Rows : q # r => page[q] = sheet[d][q]
  BY <1>2, <1>3, <1>4
<1> HIDE DEF page
<1>7. /\ sheet' \in [Deployments -> [Rows -> SheetType]] /\ sheet'[d] = page
      /\ \A e \in Deployments : e # d => sheet'[e] = sheet[e]
      /\ deployment' \in [Deployments -> DeploymentType] /\ deployment'[d] = row
      /\ \A e \in Deployments : e # d => deployment'[e] = deployment[e]
  BY <1>2, <1>3, <1>4, <1>5, <1>6
<1> HIDE DEF d, r
<1>8. /\ \A e \in Deployments, q \in Rows : /\ sheet'[e][q].number = sheet[e][q].number
                                           /\ sheet'[e][q].hours = sheet[e][q].hours
      /\ \A e \in Deployments : deployment'[e].distributed = deployment[e].distributed
  BY <1>4, <1>6, <1>7
<1>9. TypeOK'
  <2>1. Closed \in [at : Deployments \cup {NoDeployment}, row : Rows \cup {NoRow}]
    BY DEF Closed
  <2>2. open' \in [Viewers -> [at : Deployments \cup {NoDeployment}, row : Rows \cup {NoRow}]]
    BY <1>1, <1>3, <2>1
  <2> QED
    BY <1>1, <1>7, <2>2 DEF IInv, TypeOK, Attendance!TypeOK
<1>10. Called'
  BY <1>1 DEF IInv, Called
<1>11. Opened'
  <2>1. ASSUME NEW w \in Viewers, open'[w] # Closed
        PROVE  open'[w].at \in Deployments /\ open'[w].row \in Held(open[w].at)'
    <3>1. open'[w] = open[w]
      BY <1>1, <1>3, <2>1
    <3>2. open[w].at \in Deployments /\ open[w].row \in Held(open[w].at)
      BY <2>1, <3>1 DEF IInv, Opened
    <3> QED
      BY <1>8, <3>1, <3>2 DEF Held
  <2> QED
    BY <2>1 DEF Opened
<1> QED
  BY <1>1, <1>8, <1>9, <1>10, <1>11, Surroundings

------------------------------------------------------------------------------
(* The invariant, and what it gives *)

LEMMA StutterIInv == ASSUME IInv, UNCHANGED vars PROVE IInv'
<1>1. UNCHANGED <<over, status, hours, answered, deployment, sheet, run, call, open, told, muted,
                  crossed, requests, faults>>
  BY DEF vars, attendance
<1>2. TypeOK' /\ Opened' /\ Called'
  BY <1>1 DEF IInv, TypeOK, Attendance!TypeOK, Opened, Called, Held
<1> QED
  BY <1>1, <1>2, Surroundings

LEMMA NextIInv == IInv /\ [Next]_vars => IInv'
<1> SUFFICES ASSUME IInv, [Next]_vars PROVE IInv'
  OBVIOUS
<1>1. CASE \E e \in Events : Ends(e)
  BY <1>1, EndsIInv
<1>2. CASE \E r \in Rows : Ruled(r) \/ Answers(r)
  BY <1>2, RuledIInv, AnswersIInv
<1>3. CASE \E j \in Sweeps : SweepStep(j)
  BY <1>3, BeginsIInv, GathersIInv, PlansIInv, CountsIInv, CommitsIInv, AnnouncesIInv DEF SweepStep
<1>4. CASE \E j \in Sweeps : Fails(j) \/ Dies(j)
  BY <1>4, FailsIInv
<1>5. CASE \E c \in Directors, d \in Deployments :
             \/ \E g \in Designs : Deploys(c, d, g)
             \/ \E s \in {"DISTRIBUTING", "PAUSED", "COMPLETED"} : Steers(c, d, s)
  BY <1>5, AsksIInv
<1>6. CASE \E c \in Directors : Deployed(c) \/ Steered(c)
  BY <1>6, WritesIInv
<1>7. CASE \E v \in Viewers : Claims(v) \/ \E d \in Deployments, r \in Rows : Opens(v, d, r)
  BY <1>7, OpensIInv, ClaimsIInv
<1>8. CASE UNCHANGED vars
  BY <1>8, StutterIInv
<1> QED
  BY <1>1, <1>2, <1>3, <1>4, <1>5, <1>6, <1>7, <1>8 DEF Next

\* The strengthened invariant holds in every state, whatever the sweeps that overlap do
\* to one another.
THEOREM Invariance == Spec => []IInv
<1> QED
  BY InitIInv, NextIInv, PTL DEF Spec

\* The state is always what its types say: counts and sheet numbers stay naturals, and a
\* notice names a deployment and a registration.
THEOREM TypeCorrect == Spec => []TypeOK
<1>1. IInv => TypeOK
  BY DEF IInv
<1> QED
  BY <1>1, Invariance, PTL

\* A sheet goes to somebody present who answered, for the hours the roster credits, under
\* a number no other sheet has: findEligibleParticipants and createMany hold it between
\* them, though attendance is corrected and sweeps overlap between the two.
THEOREM Earn == Spec => []SheetsEarned
<1>1. IInv => SheetsEarned
  BY DEF IInv
<1> QED
  BY <1>1, Invariance, PTL

\* The tally on a deployment's row never exceeds the sheets there are: issueBatch counts
\* inside the transaction that writes it, and batches that meet wait for one another.
THEOREM Backed == Spec => []DistributedHaveSheets
<1>1. IInv => DistributedHaveSheets
  BY DEF IInv
<1> QED
  BY <1>1, Invariance, PTL

\* Nobody's sheet goes unannounced but for a failure after the commit: announce goes to the
\* whole batch, so to whoever another sweep's batch handed the sheet to as well.
THEOREM Tell == Spec => []HoldersTold
<1>1. IInv => HoldersTold
  BY DEF IInv
<1> QED
  BY <1>1, Invariance, PTL

\* A sheet that was handed out stays its holder's, under its number, with its wording and
\* its hours, and once claimed stays claimed.
SheetsStay ==
    [][\A d \in Deployments : \A r \in Held(d) :
          \/ sheet'[d][r] = sheet[d][r]
          \/ sheet'[d][r] = [sheet[d][r] EXCEPT !.claimed = TRUE]]_vars

\* No sweep, however late it commits, writes over a sheet that another one, or an earlier
\* run, has handed out.
THEOREM Keep == Spec => SheetsStay
<1>1. IInv /\ [Next]_vars =>
        [\A d \in Deployments : \A r \in Held(d) :
            \/ sheet'[d][r] = sheet[d][r]
            \/ sheet'[d][r] = [sheet[d][r] EXCEPT !.claimed = TRUE]]_vars
  <2> SUFFICES ASSUME IInv, [Next]_vars, NEW d \in Deployments, NEW r \in Held(d)
               PROVE  \/ sheet'[d][r] = sheet[d][r]
                      \/ sheet'[d][r] = [sheet[d][r] EXCEPT !.claimed = TRUE]
    OBVIOUS
  <2>1. r \in Rows /\ sheet \in [Deployments -> [Rows -> SheetType]]
    BY DEF Held, IInv, TypeOK
  <2>2. ASSUME NEW j \in Sweeps, Commits(j)
        PROVE  sheet'[d][r] = sheet[d][r]
    <3>1. d = run[j].at => r \notin Added(j)
      BY DEF Added
    <3> QED
      BY <2>1, <2>2, <3>1 DEF Commits
  <2>3. ASSUME NEW v \in Viewers, Claims(v)
        PROVE  \/ sheet'[d][r] = sheet[d][r]
               \/ sheet'[d][r] = [sheet[d][r] EXCEPT !.claimed = TRUE]
    BY <2>1, <2>3 DEF Claims
  <2> QED
    BY <2>2, <2>3 DEF Next, SweepStep, vars, attendance, Ends, Ruled, Answers, Deploys, Steers,
       Deployed, Steered, Begins, Gathers, Plans, Counts, Announces, Fails, Dies, Opens
<1> QED
  BY <1>1, Invariance, PTL DEF Spec, SheetsStay
==============================================================================
