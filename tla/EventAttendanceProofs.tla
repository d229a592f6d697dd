------------------------ MODULE EventAttendanceProofs ------------------------
(***************************************************************************)
(* What EventAttendance keeps for any registrations, posts, sweeps and     *)
(* directors, however many calls stop half way.                            *)
(***************************************************************************)
EXTENDS EventAttendance, TLAPS

\* A reading inside the fence of a named event leaves its mark on the row.
ReadingsLeaveMark ==
    \A r \in Rows : landed \cap Of(r) \cap Inside \cap Tagged # {} =>
        row[r].method \notin {"none", "AWAITING_SYNC"}

HoursFollowStatus ==
    \A r \in Rows :
        /\ row[r].status = "PENDING" <=> row[r].hours = "none"
        /\ row[r].hours = "scheduled" => row[r].status = "COMPLETED"

\* A judge has read only what landed, and rules on nobody without a reading.
JudgesHeard ==
    \A j \in Judges :
        /\ judge[j].read \subseteq landed
        /\ judge[j].stage \in {"ruling", "telling"} =>
             \A r \in judge[j].rows : Of(r) \cap judge[j].read # {}

\* A judge about to tell a ruling is the one that made it, and told nobody yet.
JudgesTell ==
    \A j \in Judges : judge[j].stage = "telling" =>
        /\ judge[j].row \in Rows
        /\ row[judge[j].row].status # "PENDING"
        /\ row[judge[j].row].hours = "measured" =>
             row[judge[j].row].basis = Of(judge[j].row) \cap judge[j].read
        /\ \A k \in Judges : judge[k].stage = "telling" /\ judge[k].row = judge[j].row => k = j
        /\ \A n \in feed : n.row = judge[j].row => n.key # "ruled"

\* So is a director about to tell a correction.
DirectorsTell ==
    \A d \in Directors : director[d].stage = "telling" =>
        /\ director[d].row \in Rows
        /\ row[director[d].row].hours = "scheduled"
        /\ \A c \in Directors :
             director[c].stage = "telling" /\ director[c].row = director[d].row => c = d
        /\ \A n \in feed : n.row = director[d].row => n.key # "manual"

FeedFollowsRows ==
    \A n \in feed :
        /\ row[n.row].status # "PENDING"
        /\ n.key = "manual" => row[n.row].hours = "scheduled"

IInv ==
    /\ TypeOK
    /\ ReadingsLeaveMark
    /\ HoursFollowStatus
    /\ ManualStands
    /\ RuledOnReadings
    /\ JudgesHeard
    /\ JudgesTell
    /\ DirectorsTell
    /\ FeedFollowsRows
    /\ EveryRulingHeard

------------------------------------------------------------------------------
LEMMA InitIInv == Init => IInv
  BY ConstantsOK DEF Init, IInv, TypeOK, ReadingsLeaveMark, HoursFollowStatus, ManualStands,
     RuledOnReadings, JudgesHeard, JudgesTell, DirectorsTell, FeedFollowsRows, EveryRulingHeard,
     IdleJudge, IdleDirector, Judges, Notices, RowType, JudgeType, DirectorType

\* One entry of a function is written; the rest is as it was.
LEMMA OneJudge ==
  ASSUME TypeOK, NEW j \in Judges, NEW x \in JudgeType, judge' = [judge EXCEPT ![j] = x]
  PROVE  /\ judge' \in [Judges -> JudgeType] /\ judge'[j] = x
         /\ \A k \in Judges : k # j => judge'[k] = judge[k]
  BY DEF TypeOK

LEMMA OneRow ==
  ASSUME TypeOK, NEW r \in Rows, NEW x \in RowType, row' = [row EXCEPT ![r] = x]
  PROVE  /\ row' \in [Rows -> RowType] /\ row'[r] = x
         /\ \A q \in Rows : q # r => row'[q] = row[q]
  BY DEF TypeOK

LEMMA OneDirector ==
  ASSUME TypeOK, NEW d \in Directors, NEW x \in DirectorType,
         director' = [director EXCEPT ![d] = x]
  PROVE  /\ director' \in [Directors -> DirectorType] /\ director'[d] = x
         /\ \A c \in Directors : c # d => director'[c] = director[c]
  BY DEF TypeOK

LEMMA EndsIInv == ASSUME IInv, NEW e \in Events, Ends(e) PROVE IInv'
  BY DEF Ends, IInv, TypeOK, ReadingsLeaveMark, HoursFollowStatus, ManualStands,
     RuledOnReadings, JudgesHeard, JudgesTell, DirectorsTell, FeedFollowsRows, EveryRulingHeard, Of

\* A post changes the method of its owner's row, never to MANUAL nor from it.
LEMMA LandsIInv == ASSUME IInv, NEW b \in Batches, Lands(b) PROVE IInv'
<1> USE ConstantsOK
<1>0. /\ b \in Judges /\ Owner[b] \in Rows /\ EventOf[Owner[b]] \in Events
      /\ Source(b) \in {"GEOFENCE", "OFFLINE_SYNC"}
  BY DEF Judges, Source
<1> DEFINE x == [IdleJudge EXCEPT !.stage = "picked", !.queue = {EventOf[Owner[b]]}]
<1>x. x \in JudgeType /\ x.stage = "picked" /\ x.read = {}
  <2>1. {EventOf[Owner[b]]} \in SUBSET Events
    BY <1>0
  <2> QED
    BY <2>1 DEF IdleJudge, JudgeType
<1>y. row' \in [Rows -> RowType]
  <2> DEFINE y == [row[Owner[b]] EXCEPT !.method = Source(b)]
  <2>1. row[Owner[b]] \in RowType
    BY <1>0 DEF IInv, TypeOK
  <2>2. y \in RowType
    BY <1>0, <2>1 DEF RowType
  <2>3. row' = row \/ row' = [row EXCEPT ![Owner[b]] = y]
    BY <1>0 DEF Lands, Stored
  <2> HIDE DEF y
  <2> QED
    BY <1>0, <2>2, <2>3, OneRow DEF IInv, TypeOK
<1>z. judge' \in [Judges -> JudgeType]
  BY <1>0, <1>x, OneJudge DEF IInv, TypeOK, Lands
<1>1. TypeOK'
  BY <1>y, <1>z DEF IInv, TypeOK, Lands
<1>2. \A r \in Rows :
        /\ row'[r].status = row[r].status /\ row'[r].hours = row[r].hours
        /\ row'[r].basis = row[r].basis
        /\ row'[r].method # row[r].method =>
             /\ row[r].method \in {"none", "AWAITING_SYNC"}
             /\ row'[r].method \in {"GEOFENCE", "OFFLINE_SYNC"}
        /\ r = Owner[b] /\ b \in Inside \cap Tagged =>
             row'[r].method \notin {"none", "AWAITING_SYNC"}
  BY <1>0 DEF IInv, TypeOK, Lands, Stored
<1>3. ReadingsLeaveMark'
  BY <1>2, <1>0 DEF IInv, ReadingsLeaveMark, Lands, Of, TypeOK
<1>4. HoursFollowStatus' /\ ManualStands' /\ FeedFollowsRows'
  BY <1>2 DEF IInv, HoursFollowStatus, ManualStands, FeedFollowsRows, Lands, TypeOK, Notices
<1>5. RuledOnReadings'
  BY <1>2 DEF IInv, RuledOnReadings, Lands, Of
<1>6. \A j \in Judges : judge'[j] # judge[j] =>
        j = b /\ judge[j].stage = "idle" /\ judge'[j].stage = "picked" /\ judge'[j].read = {}
  <2>1. judge' = [judge EXCEPT ![b] = x] \/ judge' = judge
    BY DEF Lands
  <2>2. judge[b].stage = "idle"
    BY DEF Lands, IdleJudge
  <2> HIDE DEF x
  <2> QED
    BY <1>0, <1>x, <2>1, <2>2, OneJudge DEF IInv
<1>7. JudgesHeard'
  BY <1>6 DEF IInv, JudgesHeard, Lands, Of
<1>8. JudgesTell'
  BY <1>6, <1>2 DEF IInv, JudgesTell, Lands, Of
<1>9. DirectorsTell'
  BY <1>2 DEF IInv, DirectorsTell, Lands
<1>10. EveryRulingHeard'
  BY <1>6, <1>2 DEF IInv, EveryRulingHeard, Lands, Of
<1> QED
  BY <1>1, <1>3, <1>4, <1>5, <1>7, <1>8, <1>9, <1>10 DEF IInv

\* What becomes of a judge that has nothing more to do about a registration.
LEMMA PastShape ==
  ASSUME TypeOK, NEW j \in Judges, NEW r
  PROVE  /\ Past(j, r) \in [stage : {"idle", "picked", "ruling"}, queue : SUBSET Events,
                            rows : SUBSET Rows, read : SUBSET Batches, row : {NoRow}]
         /\ Past(j, r).read \subseteq judge[j].read
         /\ Past(j, r).stage = "ruling" =>
              Past(j, r).read = judge[j].read /\ Past(j, r).rows \subseteq judge[j].rows
<1>1. Onward(j) \in [stage : {"idle", "picked"}, queue : SUBSET Events,
                     rows : {{}}, read : {{}}, row : {NoRow}]
  BY DEF Onward, IdleJudge, TypeOK, JudgeType
<1> QED
  BY <1>1 DEF Past, TypeOK, JudgeType

LEMMA PastTyped ==
  ASSUME TypeOK, NEW j \in Judges, NEW r, judge' = [judge EXCEPT ![j] = Past(j, r)]
  PROVE  /\ judge' \in [Judges -> JudgeType] /\ judge'[j] = Past(j, r)
         /\ \A k \in Judges : k # j => judge'[k] = judge[k]
<1>1. Past(j, r) \in JudgeType
  BY PastShape DEF JudgeType
<1> QED
  BY <1>1, OneJudge

\* The steps of a judge that write nothing down.
LEMMA LookingIInv ==
  ASSUME IInv, NEW j \in Judges, Picks(j) \/ Lists(j) \/ Reads(j)
  PROVE  IInv'
<1>1. UNCHANGED <<ended, landed, row, director, feed, muted, faults>>
  BY DEF Picks, Lists, Reads
<1>2. /\ Onward(j) \in [stage : {"idle", "picked"}, queue : SUBSET Events,
                     rows : {{}}, read : {{}}, row : {NoRow}]
      /\ Waiting \subseteq Events
  BY DEF Onward, IdleJudge, IInv, TypeOK, JudgeType, Waiting
<1>3. /\ judge' \in [Judges -> JudgeType]
      /\ \A k \in Judges : k # j => judge'[k] = judge[k]
      /\ judge[j].stage # "telling"
      /\ judge'[j].stage \notin {"ruling", "telling"} /\ judge'[j].read \subseteq landed
  <2>1. CASE Picks(j)
    <3> DEFINE x == [IdleJudge EXCEPT !.stage = "picked",
              !.queue = {e \in Waiting : Cardinality({f \in Waiting : f < e}) < Window}]
    <3>1. x \in JudgeType /\ x.stage = "picked" /\ x.read = {}
      BY <1>2 DEF IdleJudge, JudgeType
    <3>2. judge' = [judge EXCEPT ![j] = x] /\ judge[j].stage = "idle"
      BY <2>1 DEF Picks, IdleJudge
    <3> HIDE DEF x
    <3> QED
      BY <3>1, <3>2, OneJudge DEF IInv
  <2>2. CASE Lists(j)
    <3> DEFINE rs == {r \in Pending(Current(j)) : j \in Batches => r = Owner[j]}
               x == IF rs = {} \/ Current(j) \notin ended \cap Fenced THEN Onward(j)
                    ELSE [judge[j] EXCEPT !.stage = "listed", !.rows = rs]
    <3>1. judge[j] \in JudgeType /\ rs \subseteq Rows
      BY DEF IInv, TypeOK, Pending
    <3>2. x \in JudgeType /\ x.stage \in {"idle", "picked", "listed"}
          /\ x.read \subseteq judge[j].read
      BY <1>2, <3>1 DEF JudgeType
    <3>3. judge' = [judge EXCEPT ![j] = x] /\ judge[j].stage = "picked"
      BY <2>2 DEF Lists
    <3> QED
      BY <3>2, <3>3, OneJudge DEF IInv, JudgesHeard
  <2>3. CASE Reads(j)
    <3> DEFINE x == [judge[j] EXCEPT !.stage = "read",
                                     !.read = {b \in landed : Owner[b] \in judge[j].rows}]
    <3>1. judge[j] \in JudgeType /\ landed \subseteq Batches
      BY DEF IInv, TypeOK
    <3>2. x \in JudgeType /\ x.stage = "read" /\ x.read \subseteq landed
      BY <3>1 DEF JudgeType
    <3>3. judge' = [judge EXCEPT ![j] = x] /\ judge[j].stage = "listed"
      BY <2>3, <3>1 DEF Reads, IInv, TypeOK, JudgeType
    <3> HIDE DEF x
    <3> QED
      BY <3>2, <3>3, OneJudge DEF IInv
  <2> QED
    BY <2>1, <2>2, <2>3
<1>x. TypeOK'
  BY <1>1, <1>3 DEF IInv, TypeOK
<1>4. JudgesHeard' /\ JudgesTell' /\ EveryRulingHeard'
  BY <1>1, <1>3 DEF IInv, TypeOK, JudgesHeard, JudgesTell, EveryRulingHeard, Of
<1>5. /\ ReadingsLeaveMark' /\ HoursFollowStatus' /\ ManualStands' /\ RuledOnReadings'
      /\ DirectorsTell' /\ FeedFollowsRows'
  BY <1>1 DEF IInv, ReadingsLeaveMark, HoursFollowStatus, ManualStands, RuledOnReadings,
     DirectorsTell, FeedFollowsRows, Of
<1> QED
  BY <1>x, <1>4, <1>5 DEF IInv

\* The mark of silence falls on rows without one only, so on none with a reading.
LEMMA MarksSilentIInv ==
  ASSUME IInv, NEW j \in Judges, MarksSilent(j)
  PROVE  IInv'
<1>1. UNCHANGED <<ended, landed, director, feed, muted, faults>>
  BY DEF MarksSilent
<1>2. Onward(j) \in [stage : {"idle", "picked"}, queue : SUBSET Events,
                     rows : {{}}, read : {{}}, row : {NoRow}]
  BY DEF Onward, IdleJudge, IInv, TypeOK, JudgeType
<1>3. \A r \in Rows :
        /\ row'[r].status = row[r].status /\ row'[r].hours = row[r].hours
        /\ row'[r].basis = row[r].basis
        /\ row'[r].method # row[r].method =>
             row[r].method = "none" /\ row'[r].method = "AWAITING_SYNC"
  BY DEF MarksSilent, Marked, IInv, TypeOK
<1> DEFINE x == IF Heard(j) = {} THEN Onward(j)
                ELSE [judge[j] EXCEPT !.stage = "ruling", !.rows = Heard(j)]
<1>a. judge[j] \in JudgeType /\ judge[j].stage = "read" /\ judge' = [judge EXCEPT ![j] = x]
      /\ Heard(j) \subseteq judge[j].rows
  BY DEF MarksSilent, Heard, IInv, TypeOK
<1>b. /\ x \in JudgeType /\ x.stage # "telling" /\ x.read \subseteq judge[j].read
      /\ x.stage = "ruling" => x.read = judge[j].read /\ x.rows = Heard(j)
  BY <1>2, <1>a DEF JudgeType
<1>5. /\ judge' \in [Judges -> JudgeType] /\ judge'[j] = x
      /\ \A k \in Judges : k # j => judge'[k] = judge[k]
  BY <1>a, <1>b, OneJudge DEF IInv
<1>c. row' \in [Rows -> RowType]
  BY DEF MarksSilent, Marked, IInv, TypeOK, RowType
<1>4. TypeOK'
  BY <1>1, <1>5, <1>c DEF IInv, TypeOK
<1>6. JudgesHeard'
  BY <1>1, <1>5, <1>a, <1>b DEF IInv, JudgesHeard, Of, Heard
<1>7. JudgesTell'
  BY <1>1, <1>3, <1>5, <1>a, <1>b DEF IInv, JudgesTell, Of
<1>10. EveryRulingHeard'
  BY <1>1, <1>3, <1>5, <1>a, <1>b DEF IInv, EveryRulingHeard
<1>8. ReadingsLeaveMark' /\ HoursFollowStatus' /\ ManualStands' /\ RuledOnReadings'
  BY <1>1, <1>3 DEF IInv, ReadingsLeaveMark, HoursFollowStatus, ManualStands, RuledOnReadings, Of
<1>9. DirectorsTell' /\ FeedFollowsRows'
  BY <1>1, <1>3 DEF IInv, TypeOK, Notices, DirectorsTell, FeedFollowsRows
<1> QED
  BY <1>4, <1>6, <1>7, <1>8, <1>9, <1>10 DEF IInv

LEMMA RulesIInv ==
  ASSUME IInv, NEW j \in Judges, NEW r \in Rows, Rules(j, r)
  PROVE  IInv'
<1>1. UNCHANGED <<ended, landed, director, feed, muted, faults>> /\ r \in judge[j].rows
      /\ judge[j].stage = "ruling" /\ Of(r) \subseteq Batches
  BY DEF Rules, Of
<1>2. CASE row[r].status = "PENDING"
  <2> DEFINE x == [row[r] EXCEPT
                     !.status = IF Present(j, r) THEN "COMPLETED" ELSE "ABSENT",
                     !.hours = "measured", !.basis = Of(r) \cap judge[j].read]
             y == [judge[j] EXCEPT !.stage = "telling", !.row = r]
  <2>e. row[r] \in RowType /\ judge[j] \in JudgeType
    BY DEF IInv, TypeOK
  <2>f. Of(r) \cap judge[j].read \in SUBSET Batches
    BY <1>1
  <2>a. row[r] \in RowType /\ judge[j] \in JudgeType /\ x \in RowType /\ y \in JudgeType
    BY <2>e, <2>f DEF RowType, JudgeType
  <2>b. row' = [row EXCEPT ![r] = x] /\ judge' = [judge EXCEPT ![j] = y]
    BY <1>2, <2>a DEF Rules, IInv, TypeOK
  <2>c. /\ x.status = (IF Of(r) \cap judge[j].read \in Proofs THEN "COMPLETED" ELSE "ABSENT")
        /\ x.hours = "measured" /\ x.basis = Of(r) \cap judge[j].read /\ x.method = row[r].method
        /\ y.stage = "telling" /\ y.row = r /\ y.read = judge[j].read /\ y.rows = judge[j].rows
    BY <2>a DEF Present, RowType, JudgeType
  <2>1. /\ row' \in [Rows -> RowType] /\ row'[r] = x
        /\ \A q \in Rows : q # r => row'[q] = row[q]
        /\ judge' \in [Judges -> JudgeType] /\ judge'[j] = y
        /\ \A k \in Judges : k # j => judge'[k] = judge[k]
    BY <2>a, <2>b, OneRow, OneJudge DEF IInv
  <2> HIDE DEF x, y
  <2>2. TypeOK'
    BY <2>1, <1>1 DEF IInv, TypeOK
  <2>3. ReadingsLeaveMark' /\ HoursFollowStatus' /\ ManualStands'
    BY <2>1, <2>c, <1>1, <1>2 DEF IInv, ReadingsLeaveMark, HoursFollowStatus, ManualStands, Of
  <2>d. Of(r) \cap judge[j].read # {} /\ judge[j].read \subseteq landed
    BY <1>1 DEF IInv, JudgesHeard
  <2>4. RuledOnReadings'
    <3>1. \A q \in Rows : q # r /\ row'[q].hours = "measured" =>
            /\ row'[q].basis # {} /\ row'[q].basis \subseteq landed \cap Of(q)
            /\ row'[q].status = IF row'[q].basis \in Proofs THEN "COMPLETED" ELSE "ABSENT"
      BY <2>1 DEF IInv, RuledOnReadings
    <3>2. /\ row'[r].basis # {} /\ row'[r].basis \subseteq landed \cap Of(r)
          /\ row'[r].status = IF row'[r].basis \in Proofs THEN "COMPLETED" ELSE "ABSENT"
      BY <2>1, <2>c, <2>d
    <3> QED
      BY <3>1, <3>2, <1>1 DEF RuledOnReadings, Of
  <2>5. JudgesHeard'
    BY <2>1, <2>c, <1>1 DEF IInv, JudgesHeard, Of
  <2>6. \A k \in Judges : judge[k].stage = "telling" => judge[k].row # r
    BY <1>2 DEF IInv, JudgesTell
  <2>7. \A n \in feed : n.row # r
    BY <1>2 DEF IInv, FeedFollowsRows
  <2>8. JudgesTell'
    BY <2>1, <2>c, <2>6, <2>7, <1>1 DEF IInv, JudgesTell, Of
  <2>9. DirectorsTell' /\ FeedFollowsRows'
    BY <2>1, <2>c, <2>7, <1>1, <1>2 DEF IInv, TypeOK, Notices, DirectorsTell, FeedFollowsRows,
       HoursFollowStatus
  <2>10. EveryRulingHeard'
    BY <2>1, <2>c, <1>1 DEF IInv, EveryRulingHeard
  <2> QED
    BY <2>2, <2>3, <2>4, <2>5, <2>8, <2>9, <2>10 DEF IInv
<1>3. CASE row[r].status # "PENDING"
  <2>1. row' = row /\ judge' = [judge EXCEPT ![j] = Past(j, r)]
    BY <1>3 DEF Rules
  <2>2. TypeOK'
    BY <2>1, <1>1, PastTyped DEF IInv, TypeOK
  <2>3. JudgesHeard' /\ JudgesTell' /\ EveryRulingHeard'
    BY <2>1, <1>1, PastShape, PastTyped DEF IInv, JudgesHeard, JudgesTell, EveryRulingHeard, Of
  <2>4. /\ ReadingsLeaveMark' /\ HoursFollowStatus' /\ ManualStands' /\ RuledOnReadings'
        /\ DirectorsTell' /\ FeedFollowsRows'
    BY <2>1, <1>1 DEF IInv, ReadingsLeaveMark, HoursFollowStatus, ManualStands, RuledOnReadings,
       DirectorsTell, FeedFollowsRows, Of
  <2> QED
    BY <2>2, <2>3, <2>4 DEF IInv
<1> QED
  BY <1>2, <1>3

\* After its notice, or instead of it, a judge goes on.
LEMMA TellingEndsIInv ==
  ASSUME IInv, NEW j \in Judges, Tells(j) \/ TellsNot(j)
  PROVE  IInv'
<1> DEFINE r == judge[j].row
<1>1. /\ UNCHANGED <<ended, landed, row, director>> /\ judge[j].stage = "telling"
      /\ judge' = [judge EXCEPT ![j] = Past(j, r)] /\ r \in Rows
      /\ Of(r) \subseteq Batches
  BY DEF Tells, TellsNot, IInv, JudgesTell, Of
<1>a. /\ judge' \in [Judges -> JudgeType] /\ judge'[j] = Past(j, r)
      /\ \A k \in Judges : k # j => judge'[k] = judge[k]
  BY <1>1, PastTyped DEF IInv
<1>b. feed' \subseteq Notices /\ muted' \subseteq Rows /\ faults' \in 0..MaxFaults
  <2>1. \/ /\ muted' = muted /\ faults' = faults
           /\ feed' \subseteq feed \cup {[row |-> r, key |-> "ruled", present |-> Present(j, r)]}
        \/ /\ faults < MaxFaults /\ faults' = faults + 1
           /\ muted' = muted \cup ({r} \cap Rows) /\ feed' = feed
    BY <1>1 DEF Tells, TellsNot, Fault, Notify
  <2>2. [row |-> r, key |-> "ruled", present |-> Present(j, r)] \in Notices
    BY <1>1 DEF Notices, Present
  <2>3. faults' \in 0..MaxFaults
    BY <2>1, ConstantsOK DEF IInv, TypeOK
  <2> QED
    BY <2>1, <2>2, <2>3 DEF IInv, TypeOK
<1>2. TypeOK'
  BY <1>1, <1>a, <1>b DEF IInv, TypeOK
<1>3. /\ \A n \in feed' : n \in feed \/ n = [row |-> r, key |-> "ruled", present |-> Present(j, r)]
      /\ feed \subseteq feed' /\ muted \subseteq muted'
      /\ [row |-> r, key |-> "ruled", present |-> Present(j, r)] \in feed' \/ r \in muted'
  BY <1>1 DEF Tells, TellsNot, Fault, Notify, IInv, JudgesTell
<1>4. JudgesHeard' /\ JudgesTell'
  BY <1>1, <1>3, <1>a, PastShape DEF IInv, JudgesHeard, JudgesTell, Of
<1>5. row[r].hours = "measured" =>
        [row |-> r, key |-> "ruled", present |-> Present(j, r)] =
          [row |-> r, key |-> "ruled", present |-> row[r].status = "COMPLETED"]
  <2> SUFFICES ASSUME row[r].hours = "measured"
               PROVE  Present(j, r) = (row[r].status = "COMPLETED")
    OBVIOUS
  <2>1. row[r].basis = Of(r) \cap judge[j].read
    BY <1>1 DEF IInv, JudgesTell
  <2>2. row[r].status = IF row[r].basis \in Proofs THEN "COMPLETED" ELSE "ABSENT"
    BY <1>1 DEF IInv, RuledOnReadings
  <2>3. Present(j, r) <=> row[r].basis \in Proofs
    BY <2>1 DEF Present
  <2>4. CASE row[r].basis \in Proofs
    BY <2>2, <2>3, <2>4 DEF Present
  <2>5. CASE row[r].basis \notin Proofs
    BY <2>2, <2>3, <2>5 DEF Present
  <2> QED
    BY <2>4, <2>5
<1>6. EveryRulingHeard'
  <2> SUFFICES ASSUME NEW q \in Rows, row[q].status # "PENDING", q \notin muted'
               PROVE  \/ [row |-> q, key |-> IF row[q].hours = "scheduled" THEN "manual" ELSE "ruled",
                          present |-> row[q].status = "COMPLETED"] \in feed'
                      \/ row[q].hours = "measured" /\ \E k \in Judges :
                           judge'[k].stage = "telling" /\ judge'[k].row = q
                      \/ row[q].hours = "scheduled" /\ \E d \in Directors :
                           director[d].stage = "telling" /\ director[d].row = q
    BY <1>1 DEF EveryRulingHeard
  <2>1. CASE q = r /\ row[r].hours = "measured"
    BY <2>1, <1>3, <1>5
  <2>2. CASE ~(q = r /\ row[r].hours = "measured")
    BY <2>2, <1>1, <1>3, <1>a DEF IInv, EveryRulingHeard
  <2> QED
    BY <2>1, <2>2
<1>7. DirectorsTell' /\ FeedFollowsRows'
  BY <1>1, <1>3 DEF IInv, DirectorsTell, FeedFollowsRows, JudgesTell
<1>8. ReadingsLeaveMark' /\ HoursFollowStatus' /\ ManualStands' /\ RuledOnReadings'
  BY <1>1 DEF IInv, ReadingsLeaveMark, HoursFollowStatus, ManualStands, RuledOnReadings, Of
<1> QED
  BY <1>2, <1>4, <1>6, <1>7, <1>8 DEF IInv

LEMMA StopsIInv == ASSUME IInv, NEW j \in Judges, Stops(j) PROVE IInv'
<1>1. /\ UNCHANGED <<ended, landed, row, director, feed>>
      /\ judge' = [judge EXCEPT ![j] = IdleJudge]
      /\ muted' = muted \cup ({judge[j].row} \cap Rows)
  BY DEF Stops, Fault
<1>a. /\ judge' \in [Judges -> JudgeType] /\ judge'[j] = IdleJudge
      /\ \A k \in Judges : k # j => judge'[k] = judge[k]
  <2>1. IdleJudge \in JudgeType
    BY DEF IdleJudge, JudgeType
  <2> QED
    BY <1>1, <2>1, OneJudge DEF IInv
<1>2. TypeOK'
  BY <1>1, <1>a, ConstantsOK DEF Stops, Fault, IInv, TypeOK
<1>3. JudgesHeard' /\ JudgesTell' /\ EveryRulingHeard'
  BY <1>1, <1>a DEF IInv, JudgesHeard, JudgesTell, EveryRulingHeard, IdleJudge, Of
<1>4. /\ ReadingsLeaveMark' /\ HoursFollowStatus' /\ ManualStands' /\ RuledOnReadings'
      /\ DirectorsTell' /\ FeedFollowsRows'
  BY <1>1 DEF IInv, ReadingsLeaveMark, HoursFollowStatus, ManualStands, RuledOnReadings,
     DirectorsTell, FeedFollowsRows, Of
<1> QED
  BY <1>2, <1>3, <1>4 DEF IInv

LEMMA SelectsIInv ==
  ASSUME IInv, NEW d \in Directors, NEW rs \in Selections, Selects(d, rs)
  PROVE  IInv'
<1>1. /\ UNCHANGED <<ended, landed, row, judge, feed, muted, faults>>
      /\ director[d].stage = "idle"
      /\ director' = [director EXCEPT ![d] = [stage |-> "marking",
             rows |-> {r \in rs : row[r].status # "COMPLETED"}, row |-> NoRow]]
  BY DEF Selects, Direct
<1> DEFINE x == [stage |-> "marking", rows |-> {r \in rs : row[r].status # "COMPLETED"}, row |-> NoRow]
<1>a. x \in DirectorType /\ x.stage # "telling"
  BY ConstantsOK DEF DirectorType
<1>b. /\ director' \in [Directors -> DirectorType] /\ director'[d].stage # "telling"
      /\ \A c \in Directors : c # d => director'[c] = director[c]
  BY <1>1, <1>a, OneDirector DEF IInv
<1>2. TypeOK'
  BY <1>1, <1>b DEF IInv, TypeOK
<1>3. DirectorsTell' /\ EveryRulingHeard'
  BY <1>1, <1>b DEF IInv, DirectorsTell, EveryRulingHeard
<1>4. /\ ReadingsLeaveMark' /\ HoursFollowStatus' /\ ManualStands' /\ RuledOnReadings'
      /\ JudgesHeard' /\ JudgesTell' /\ FeedFollowsRows'
  BY <1>1 DEF IInv, ReadingsLeaveMark, HoursFollowStatus, ManualStands, RuledOnReadings,
     JudgesHeard, JudgesTell, FeedFollowsRows, Of
<1> QED
  BY <1>2, <1>3, <1>4 DEF IInv

LEMMA MarksIInv ==
  ASSUME IInv, NEW d \in Directors, NEW r \in Rows, Marks(d, r)
  PROVE  IInv'
<1>1. UNCHANGED <<ended, landed, judge, feed, muted, faults>> /\ director[d].stage = "marking"
  BY DEF Marks
<1>2. CASE row[r].status # "COMPLETED"
  <2>1. /\ row' = [row EXCEPT ![r] = [status |-> "COMPLETED", method |-> "MANUAL",
                                      hours |-> "scheduled", basis |-> {}]]
        /\ director' = [director EXCEPT ![d] =
             [stage |-> "telling", rows |-> director[d].rows, row |-> r]]
    BY <1>2 DEF Marks, Direct
  <2>a. /\ [status |-> "COMPLETED", method |-> "MANUAL", hours |-> "scheduled", basis |-> {}] \in RowType
        /\ [stage |-> "telling", rows |-> director[d].rows, row |-> r] \in DirectorType
    BY DEF RowType, DirectorType, IInv, TypeOK
  <2>2. TypeOK'
    BY <2>1, <2>a, <1>1, OneRow, OneDirector DEF IInv, TypeOK
  <2>3. row[r].hours # "scheduled"
    BY <1>2 DEF IInv, HoursFollowStatus
  <2>4. ReadingsLeaveMark' /\ HoursFollowStatus' /\ ManualStands' /\ RuledOnReadings'
    BY <2>1, <1>1 DEF IInv, TypeOK, ReadingsLeaveMark, HoursFollowStatus, ManualStands,
       RuledOnReadings, Of
  <2>5. JudgesHeard' /\ JudgesTell'
    BY <2>1, <1>1 DEF IInv, TypeOK, JudgesHeard, JudgesTell, Of
  <2>6. DirectorsTell' /\ FeedFollowsRows'
    BY <2>1, <2>3, <1>1 DEF IInv, TypeOK, Notices, DirectorsTell, FeedFollowsRows
  <2>7. EveryRulingHeard'
    BY <2>1, <1>1 DEF IInv, TypeOK, EveryRulingHeard
  <2> QED
    BY <2>2, <2>4, <2>5, <2>6, <2>7 DEF IInv
<1>3. CASE row[r].status = "COMPLETED"
  <2>1. row' = row /\ director' = [director EXCEPT ![d] = Left(d, r)]
    BY <1>3 DEF Marks
  <2>a. Left(d, r) \in DirectorType /\ Left(d, r).stage # "telling"
    BY DEF Left, IdleDirector, DirectorType, IInv, TypeOK
  <2>2. /\ director' \in [Directors -> DirectorType] /\ director'[d].stage # "telling"
        /\ \A c \in Directors : c # d => director'[c] = director[c]
    BY <2>1, <2>a, OneDirector DEF IInv
  <2>3. TypeOK' /\ DirectorsTell' /\ EveryRulingHeard'
    BY <2>1, <2>2, <1>1 DEF IInv, TypeOK, DirectorsTell, EveryRulingHeard
  <2>4. /\ ReadingsLeaveMark' /\ HoursFollowStatus' /\ ManualStands' /\ RuledOnReadings'
        /\ JudgesHeard' /\ JudgesTell' /\ FeedFollowsRows'
    BY <2>1, <1>1 DEF IInv, ReadingsLeaveMark, HoursFollowStatus, ManualStands, RuledOnReadings,
       JudgesHeard, JudgesTell, FeedFollowsRows, Of
  <2> QED
    BY <2>3, <2>4 DEF IInv
<1> QED
  BY <1>2, <1>3

LEMMA DirectingEndsIInv ==
  ASSUME IInv, NEW d \in Directors,
         DirectorTells(d) \/ DirectorTellsNot(d) \/ DirectorStops(d)
  PROVE  IInv'
<1> DEFINE r == director[d].row
<1>a. /\ Left(d, r) \in DirectorType /\ Left(d, r).stage # "telling"
      /\ IdleDirector \in DirectorType /\ IdleDirector.stage # "telling"
  BY DEF Left, IdleDirector, DirectorType, IInv, TypeOK
<1>b. /\ UNCHANGED <<ended, landed, row, judge>>
      /\ \/ director' = [director EXCEPT ![d] = Left(d, r)]
         \/ director' = [director EXCEPT ![d] = IdleDirector]
  BY DEF DirectorTells, DirectorTellsNot, DirectorStops
<1>1. /\ UNCHANGED <<ended, landed, row, judge>>
      /\ director' \in [Directors -> DirectorType] /\ director'[d].stage # "telling"
      /\ \A c \in Directors : c # d => director'[c] = director[c]
      /\ director[d].stage = "telling" => r \in Rows
  BY <1>a, <1>b, OneDirector DEF IInv, DirectorsTell
<1>2. /\ \A n \in feed' : n \in feed \/ n = [row |-> r, key |-> "manual", present |-> TRUE]
      /\ feed' # feed => director[d].stage = "telling"
      /\ feed \subseteq feed' /\ muted \subseteq muted'
      /\ director[d].stage = "telling" =>
           [row |-> r, key |-> "manual", present |-> TRUE] \in feed' \/ r \in muted'
  BY <1>1 DEF DirectorTells, DirectorTellsNot, DirectorStops, Fault, Notify, IInv, DirectorsTell
<1>3. TypeOK'
  <2>1. feed' \subseteq Notices /\ muted' \subseteq Rows /\ faults' \in 0..MaxFaults
    <3>1. \/ /\ muted' = muted /\ faults' = faults /\ director[d].stage = "telling"
             /\ feed' \subseteq feed \cup {[row |-> r, key |-> "manual", present |-> TRUE]}
          \/ /\ faults < MaxFaults /\ faults' = faults + 1
             /\ muted' = muted \cup ({r} \cap Rows) /\ feed' = feed
      BY DEF DirectorTells, DirectorTellsNot, DirectorStops, Fault, Notify
    <3>2. r \in Rows => [row |-> r, key |-> "manual", present |-> TRUE] \in Notices
      BY DEF Notices
    <3>3. faults' \in 0..MaxFaults
      BY <3>1, ConstantsOK DEF IInv, TypeOK
    <3> QED
      BY <1>1, <3>1, <3>2, <3>3 DEF IInv, TypeOK
  <2> QED
    BY <1>1, <2>1 DEF IInv, TypeOK
<1>4. DirectorsTell' /\ FeedFollowsRows'
  BY <1>1, <1>2 DEF IInv, TypeOK, DirectorsTell, FeedFollowsRows, HoursFollowStatus
<1>5. JudgesHeard' /\ JudgesTell'
  BY <1>1, <1>2 DEF IInv, JudgesHeard, JudgesTell, Of
<1>6. EveryRulingHeard'
  <2> SUFFICES ASSUME NEW q \in Rows, row[q].status # "PENDING", q \notin muted'
               PROVE  \/ [row |-> q, key |-> IF row[q].hours = "scheduled" THEN "manual" ELSE "ruled",
                          present |-> row[q].status = "COMPLETED"] \in feed'
                      \/ row[q].hours = "measured" /\ \E j \in Judges :
                           judge[j].stage = "telling" /\ judge[j].row = q
                      \/ row[q].hours = "scheduled" /\ \E c \in Directors :
                           director'[c].stage = "telling" /\ director'[c].row = q
    BY <1>1 DEF EveryRulingHeard
  <2>1. CASE q = r /\ row[r].hours = "scheduled" /\ director[d].stage = "telling"
    BY <2>1, <1>2 DEF IInv, HoursFollowStatus
  <2>2. CASE ~(q = r /\ row[r].hours = "scheduled" /\ director[d].stage = "telling")
    BY <2>2, <1>1, <1>2 DEF IInv, EveryRulingHeard
  <2> QED
    BY <2>1, <2>2
<1>7. ReadingsLeaveMark' /\ HoursFollowStatus' /\ ManualStands' /\ RuledOnReadings'
  BY <1>1 DEF IInv, ReadingsLeaveMark, HoursFollowStatus, ManualStands, RuledOnReadings, Of
<1> QED
  BY <1>3, <1>4, <1>5, <1>6, <1>7 DEF IInv

LEMMA NextIInv == IInv /\ [Next]_vars => IInv'
<1> SUFFICES ASSUME IInv, [Next]_vars PROVE IInv'
  OBVIOUS
<1>1. CASE Next
  BY <1>1, EndsIInv, LandsIInv, LookingIInv, MarksSilentIInv, RulesIInv, TellingEndsIInv,
     StopsIInv, SelectsIInv, MarksIInv, DirectingEndsIInv DEF Next, JudgeStep, Judges
<1>2. CASE UNCHANGED vars
  BY <1>2 DEF vars, IInv, TypeOK, ReadingsLeaveMark, HoursFollowStatus, ManualStands,
     RuledOnReadings, JudgesHeard, JudgesTell, DirectorsTell, FeedFollowsRows, EveryRulingHeard, Of
<1> QED
  BY <1>1, <1>2

THEOREM Invariance == Spec => []IInv
  BY InitIInv, NextIInv, PTL DEF Spec

------------------------------------------------------------------------------
(* The theorems *)

\* Every variable of the model keeps its type.
THEOREM TypeCorrect == Spec => []TypeOK
  BY Invariance, PTL DEF IInv

\* A row says that its device is awaited only while none of its readings has landed, and
\* what was marked by hand stands, whatever the validator and the devices do after it.
THEOREM MethodTrue == Spec => []MethodIsTrue
<1>1. IInv => MethodIsTrue
  BY DEF IInv, ReadingsLeaveMark, AwaitingMeansSilent, MethodIsTrue
<1> QED
  BY <1>1, Invariance, PTL

\* Nobody is ruled on silence.
THEOREM NobodyRuledOnSilence == Spec => []RuledOnReadings
  BY Invariance, PTL DEF IInv

\* Every ruling is told, and every correction on top of it.
THEOREM RulingsHeard == Spec => []EveryRulingHeard
  BY Invariance, PTL DEF IInv

LEMMA InitRefines == Init => Rulings!Init
  BY DEF Init, Rulings!Init

LEMMA StepRefines == IInv /\ [Next]_vars => [Rulings!Next]_Rulings!vars
<1> SUFFICES ASSUME IInv, [Next]_vars PROVE [Rulings!Next]_Rulings!vars
  OBVIOUS
<1> USE DEF Rulings!vars
<1>1. ASSUME \A r \in Rows : row'[r].status = row[r].status /\ row'[r].hours = row[r].hours
      PROVE  UNCHANGED Rulings!vars
  BY <1>1
<1>2. CASE row' = row
  BY <1>2
<1>3. ASSUME NEW b \in Batches, Lands(b) PROVE UNCHANGED Rulings!vars
  <2>1. \A r \in Rows : row'[r].status = row[r].status /\ row'[r].hours = row[r].hours
    BY <1>3 DEF Lands, Stored, IInv, TypeOK
  <2> QED
    BY <2>1, <1>1
<1>4. ASSUME NEW j \in Judges, MarksSilent(j) PROVE UNCHANGED Rulings!vars
  <2>1. \A r \in Rows : row'[r].status = row[r].status /\ row'[r].hours = row[r].hours
    BY <1>4 DEF MarksSilent, Marked, IInv, TypeOK
  <2> QED
    BY <2>1, <1>1
<1>5. ASSUME NEW j \in Judges, NEW r \in Rows, Rules(j, r), row' # row
      PROVE  Rulings!Next
  <2>1. row[r].status = "PENDING"
    BY <1>5 DEF Rules
  <2>2. PICK s \in {"COMPLETED", "ABSENT"} :
          row' = [row EXCEPT ![r].status = s, ![r].hours = "measured",
                             ![r].basis = Of(r) \cap judge[j].read]
    BY <1>5, <2>1 DEF Rules
  <2>3. \A q \in Rows :
          /\ row'[q].status = IF q = r THEN s ELSE row[q].status
          /\ row'[q].hours = IF q = r THEN "measured" ELSE row[q].hours
    BY <2>2 DEF IInv, TypeOK, RowType
  <2>4. Rulings!Rule(r, s)
    BY <2>1, <2>3 DEF Rulings!Rule
  <2> QED
    BY <2>4 DEF Rulings!Next
<1>6. ASSUME NEW d \in Directors, NEW r \in Rows, Marks(d, r), row' # row
      PROVE  Rulings!Next
  <2>1. row[r].status # "COMPLETED"
    BY <1>6 DEF Marks
  <2>a. \A q \in Rows :
        /\ row'[q].status = IF q = r THEN "COMPLETED" ELSE row[q].status
        /\ row'[q].hours = IF q = r THEN "scheduled" ELSE row[q].hours
    BY <1>6, <2>1 DEF Marks, IInv, TypeOK, RowType
  <2>2. Rulings!Correct(r)
    BY <2>1, <2>a DEF Rulings!Correct
  <2> QED
    BY <2>2 DEF Rulings!Next
<1> QED
  BY <1>2, <1>3, <1>4, <1>5, <1>6 DEF Next, JudgeStep, vars, Ends, Picks, Lists, Reads, Tells,
     TellsNot, Stops, Selects, DirectorTells, DirectorTellsNot, DirectorStops, Judges

\* Attendance keeps what AttendanceRulings promises.
THEOREM Refinement == Spec => KeepsRulings
  BY InitRefines, StepRefines, Invariance, PTL DEF Spec, KeepsRulings, Rulings!Spec
\* Whoever is present stays present, with the hours of the ruling that said so.
PresenceStays ==
    [][\A r \in Rows : row[r].status = "COMPLETED" =>
          row'[r].status = "COMPLETED" /\ row'[r].hours = row[r].hours]_vars

\* No overlap of sweeps, late posts and directors takes a volunteer's presence back: read
\* off the promise, of which every step of attendance is one.
THEOREM PresenceKept == Spec => PresenceStays
<1>1. IInv /\ [Next]_vars =>
        [\A r \in Rows : row[r].status = "COMPLETED" =>
            row'[r].status = "COMPLETED" /\ row'[r].hours = row[r].hours]_vars
  <2> SUFFICES ASSUME IInv, [Rulings!Next]_Rulings!vars,
                      NEW r \in Rows, row[r].status = "COMPLETED"
               PROVE  row'[r].status = "COMPLETED" /\ row'[r].hours = row[r].hours
    BY StepRefines
  <2> DEFINE st == [q \in Rows |-> row[q].status]
             hr == [q \in Rows |-> row[q].hours]
  <2>1. CASE UNCHANGED Rulings!vars
    <3>1. st' = st /\ hr' = hr
      BY <2>1 DEF Rulings!vars
    <3>2. st'[r] = row'[r].status /\ hr'[r] = row'[r].hours
          /\ st[r] = row[r].status /\ hr[r] = row[r].hours
      OBVIOUS
    <3> QED
      BY <3>1, <3>2
  <2>2. ASSUME NEW q \in Rows, NEW s, Rulings!Rule(q, s)
        PROVE  row'[r].status = "COMPLETED" /\ row'[r].hours = row[r].hours
    <3>1. q # r
      BY <2>2 DEF Rulings!Rule
    <3>2. st'[r] = st[r] /\ hr'[r] = hr[r]
      BY <2>2, <3>1 DEF Rulings!Rule
    <3> QED
      BY <3>2
  <2>3. ASSUME NEW q \in Rows, Rulings!Correct(q)
        PROVE  row'[r].status = "COMPLETED" /\ row'[r].hours = row[r].hours
    <3>1. q # r
      BY <2>3 DEF Rulings!Correct
    <3>2. st'[r] = st[r] /\ hr'[r] = hr[r]
      BY <2>3, <3>1 DEF Rulings!Correct
    <3> QED
      BY <3>2
  <2> QED
    BY <2>1, <2>2, <2>3 DEF Rulings!Next
<1> QED
  BY <1>1, Invariance, PTL DEF Spec, PresenceStays

------------------------------------------------------------------------------
(* What the notices say *)

\* A notice says what the row says, or the absence it told was corrected since.
TellsTrue(n) ==
    \/ n.present /\ row[n.row].status = "COMPLETED"
    \/ ~n.present /\ row[n.row].status = "ABSENT"
    \/ ~n.present /\ n.key = "ruled" /\ row[n.row].hours = "scheduled"

NoticesTrue == \A n \in feed : TellsTrue(n)

\* Rows that have notices only ever change by a correction.
LEMMA RowsKeepTrue ==
  ASSUME IInv, NoticesTrue, [Next]_vars, NEW n \in feed
  PROVE  TellsTrue(n)'
<1>0. /\ n \in Notices /\ n.row \in Rows /\ TellsTrue(n) /\ n.key \in {"ruled", "manual"}
      /\ row[n.row].status # "PENDING"
      /\ n.key = "manual" => row[n.row].status = "COMPLETED"
  BY DEF NoticesTrue, IInv, TypeOK, Notices, FeedFollowsRows, HoursFollowStatus
<1>1. ASSUME \A r \in Rows : row'[r].status = row[r].status /\ row'[r].hours = row[r].hours
      PROVE  TellsTrue(n)'
  BY <1>0, <1>1 DEF TellsTrue
<1>2. CASE row' = row
  BY <1>2, <1>1
<1>3. ASSUME NEW b \in Batches, Lands(b) PROVE TellsTrue(n)'
  <2>1. \A r \in Rows : row'[r].status = row[r].status /\ row'[r].hours = row[r].hours
    BY <1>3 DEF Lands, Stored, IInv, TypeOK
  <2> QED
    BY <2>1, <1>1
<1>4. ASSUME NEW j \in Judges, MarksSilent(j) PROVE TellsTrue(n)'
  <2>1. \A r \in Rows : row'[r].status = row[r].status /\ row'[r].hours = row[r].hours
    BY <1>4 DEF MarksSilent, Marked, IInv, TypeOK
  <2> QED
    BY <2>1, <1>1
<1>5. ASSUME NEW j \in Judges, NEW r \in Rows, Rules(j, r), row' # row
      PROVE  TellsTrue(n)'
  <2>1. row[r].status = "PENDING" /\ r # n.row
    BY <1>0, <1>5 DEF Rules
  <2>2. row'[n.row] = row[n.row]
    BY <1>0, <1>5, <2>1 DEF Rules, IInv, TypeOK
  <2> QED
    BY <1>0, <2>2 DEF TellsTrue
<1>6. ASSUME NEW d \in Directors, NEW r \in Rows, Marks(d, r), row' # row
      PROVE  TellsTrue(n)'
  <2>1. row[r].status # "COMPLETED"
    BY <1>6 DEF Marks
  <2>2. CASE r = n.row
    <3>1. row'[r].hours = "scheduled"
      BY <1>6, <2>1 DEF Marks, IInv, TypeOK
    <3>2. ~n.present /\ n.key = "ruled"
      BY <1>0, <2>1, <2>2 DEF TellsTrue, IInv, HoursFollowStatus
    <3> QED
      BY <2>2, <3>1, <3>2 DEF TellsTrue
  <2>3. CASE r # n.row
    <3>1. row'[n.row] = row[n.row]
      BY <1>0, <1>6, <2>1, <2>3 DEF Marks, IInv, TypeOK
    <3> QED
      BY <1>0, <3>1 DEF TellsTrue
  <2> QED
    BY <2>2, <2>3
<1> QED
  BY <1>2, <1>3, <1>4, <1>5, <1>6 DEF Next, JudgeStep, vars, Ends, Picks, Lists, Reads, Tells,
     TellsNot, Stops, Selects, DirectorTells, DirectorTellsNot, DirectorStops, Judges

\* What a judge tells is the ruling the row bears, unless that was corrected meanwhile.
LEMMA JudgeTellsTrue ==
  ASSUME IInv, NEW j \in Judges, Tells(j), NEW n \in feed' \ feed
  PROVE  TellsTrue(n)'
<1> DEFINE r == judge[j].row
<1>1. /\ r \in Rows /\ row[r].status # "PENDING" /\ row' = row
      /\ row[r].hours = "measured" => row[r].basis = Of(r) \cap judge[j].read
      /\ n = [row |-> r, key |-> "ruled", present |-> Present(j, r)]
  BY DEF Tells, Notify, IInv, JudgesTell
<1>2. n.row = r /\ n.key = "ruled" /\ n.present = Present(j, r)
  BY <1>1
<1>3. row[r].hours \in {"measured", "scheduled"}
  BY <1>1 DEF IInv, TypeOK, RowType, HoursFollowStatus
<1>4. CASE row[r].hours = "measured"
  <2>1. row[r].status = IF Of(r) \cap judge[j].read \in Proofs THEN "COMPLETED" ELSE "ABSENT"
    BY <1>1, <1>4 DEF IInv, RuledOnReadings
  <2>2. CASE Of(r) \cap judge[j].read \in Proofs
    BY <1>1, <1>2, <2>1, <2>2 DEF TellsTrue, Present
  <2>3. CASE Of(r) \cap judge[j].read \notin Proofs
    BY <1>1, <1>2, <2>1, <2>3 DEF TellsTrue, Present
  <2> QED
    BY <2>2, <2>3
<1>5. CASE row[r].hours = "scheduled"
  <2>1. row[r].status = "COMPLETED"
    BY <1>1, <1>5 DEF IInv, HoursFollowStatus
  <2>2. CASE Present(j, r)
    BY <1>1, <1>2, <2>1, <2>2 DEF TellsTrue
  <2>3. CASE ~ Present(j, r)
    BY <1>1, <1>2, <1>5, <2>3 DEF TellsTrue
  <2> QED
    BY <2>2, <2>3
<1> QED
  BY <1>3, <1>4, <1>5

LEMMA DirectorTellsTrue ==
  ASSUME IInv, NEW d \in Directors, DirectorTells(d), NEW n \in feed' \ feed
  PROVE  TellsTrue(n)'
<1> DEFINE r == director[d].row
<1>1. /\ r \in Rows /\ row[r].hours = "scheduled" /\ row' = row
      /\ n = [row |-> r, key |-> "manual", present |-> TRUE]
  BY DEF DirectorTells, Notify, IInv, DirectorsTell
<1> QED
  BY <1>1 DEF TellsTrue, IInv, HoursFollowStatus

\* Nobody is told of a presence the roster does not show, and nobody stays told of an
\* absence that was not ruled, or was not corrected by hand since.
THEOREM FeedTellsTrue == Spec => []NoticesTrue
<1>1. Init => NoticesTrue
  BY DEF Init, NoticesTrue
<1>2. IInv /\ NoticesTrue /\ [Next]_vars => NoticesTrue'
  <2> SUFFICES ASSUME IInv, NoticesTrue, [Next]_vars, NEW n \in feed'
               PROVE  TellsTrue(n)'
    BY DEF NoticesTrue
  <2>1. CASE n \in feed
    BY <2>1, RowsKeepTrue
  <2>2. CASE n \notin feed
    <3>1. \/ \E j \in Judges : Tells(j)
          \/ \E d \in Directors : DirectorTells(d)
      BY <2>2 DEF Next, JudgeStep, vars, Ends, Lands, Picks, Lists, Reads, MarksSilent, Rules,
         TellsNot, Stops, Selects, Marks, DirectorTellsNot, DirectorStops
    <3> QED
      BY <2>2, <3>1, JudgeTellsTrue, DirectorTellsTrue
  <2> QED
    BY <2>1, <2>2
<1> QED
  BY <1>1, <1>2, Invariance, PTL DEF Spec
==============================================================================
