----------------------------- MODULE Jobs_proofs -----------------------------
(***************************************************************************)
(* What Jobs guarantees for any number of jobs, any number kept and any    *)
(* number of threads.                                                      *)
(*                                                                         *)
(* The facts about verdicts, kills and the registry rest on each other, so *)
(* they are proved of one inductive invariant, conjunct by conjunct.       *)
(***************************************************************************)
EXTENDS Jobs, FiniteSetTheorems, TLAPS

(* An id not handed out yet has no job, no process and no reaper.          *)
Unborn ==
  \A j \in Job :
    /\ j >= next =>
         /\ status[j] = "none"
         /\ leader[j] = "none"
         /\ ~members[j]
         /\ finishedAt[j] = 0
         /\ pc[j] = "unborn"
    /\ j < next => status[j] # "none"

(* The caller's operation is about a job that exists.                      *)
Targeted == pc[Caller] # "idle" => target \in Job /\ target < next

(* A kill notes its verdict when the group is dead.                        *)
KillOrder == pc[Caller] = "status" => leader[target] # "alive" /\ ~members[target]

(* The end of a job is noted after its verdict.                            *)
VerdictFirst == \A t \in Thread : pc[t] = "finished" => Finished(Subject(t))

Times == \A j \in Job : finishedAt[j] <= clock /\ (finishedAt[j] > 0 => Finished(j))

IInv ==
  /\ TypeOK
  /\ Unborn
  /\ Targeted
  /\ KillOrder
  /\ VerdictFirst
  /\ Times
  /\ KilledMeansDead
  /\ RunningIsListed
  /\ KeepsTheLatest

-----------------------------------------------------------------------------
LEMMA CountInRange ==
  ASSUME TypeOK
  PROVE  RunningCount \in 0 .. MaxJobs
<1>1. IsFiniteSet(Job) /\ Cardinality(Job) = MaxJobs
  BY FS_Interval, JobsAssumption DEF Job
<1>2. registry \subseteq Job
  BY JobsAssumption DEF TypeOK, Job
<1>3. {j \in registry : Running(j)} \subseteq Job
  BY <1>2
<1>4. QED
  BY <1>1, <1>3, FS_Subset, FS_CardinalityType, JobsAssumption DEF RunningCount

LEMMA InitIInv == Init => IInv
<1>. SUFFICES ASSUME Init PROVE IInv
  OBVIOUS
<1>1. TypeOK
  BY JobsAssumption DEF Init, TypeOK, Job, Thread, Caller, Places
<1>2. QED
  BY <1>1, JobsAssumption
  DEF Init, IInv, Unborn, Targeted, KillOrder, VerdictFirst, Times, KilledMeansDead,
      RunningIsListed, KeepsTheLatest, Job, Thread, Caller, Running, Finished

LEMMA UnbornStep ==
  ASSUME IInv, Next
  PROVE  Unborn'
<1>. USE JobsAssumption DEF IInv, TypeOK, Job, Thread, Caller, Places, Subject, Verdict, Running, Finished, Unborn, Targeted
<1>1. ASSUME NEW t \in Thread, FinishStatus(t) PROVE Unborn'
  BY <1>1 DEF FinishStatus, Goto, records, processes, output, observed
<1>2. ASSUME NEW t \in Thread, FinishAt(t) PROVE Unborn'
  BY <1>2 DEF FinishAt, Goto, records, processes, output, observed
<1>3. ASSUME NEW t \in Thread, Prune(t) PROVE Unborn'
  BY <1>3 DEF Prune, Goto, records, processes, output, observed
<1>4. ASSUME NEW t \in Thread, Count(t) PROVE Unborn'
  BY <1>4 DEF Count, Goto, records, processes, output, observed
<1>5. ASSUME NEW j \in Job, ReaperStores(j) PROVE Unborn'
  BY <1>5 DEF ReaperStores, Goto, records, processes, output, observed
<1>6. CASE CallerStores
  BY <1>6 DEF CallerStores, Goto, records, processes, output, observed
<1>7. ASSUME NEW j \in Job, ReaperWaits(j) PROVE Unborn'
  BY <1>7 DEF ReaperWaits, Goto, records, processes, output, observed
<1>8. CASE Start
  BY <1>8 DEF Start, Goto, records, processes, output, observed
<1>9. ASSUME NEW j \in Job, Kill(j) PROVE Unborn'
  BY <1>9 DEF Kill, KillBegins, Goto, records, processes, output, observed
<1>10. CASE KillAll
  BY <1>10 DEF KillAll, Goto, records, processes, output, observed
<1>11. CASE KillNext
  <2>1. PICK j \in Job : KillBegins(j)
    BY <1>11 DEF KillNext
  <2>2. CASE j \in registry /\ Running(j)
    <3>1. /\ pc' = [pc EXCEPT ![Caller] = "signal"]
          /\ UNCHANGED <<next, status, leader, members, finishedAt>>
      BY <2>1, <2>2 DEF KillBegins, Goto, records, processes
    <3>2. \A k \in Job : pc'[k] = pc[k]
      BY <3>1
    <3>3. QED
      BY <3>1, <3>2
  <2>3. CASE ~(j \in registry /\ Running(j))
    BY <2>1, <2>3 DEF KillBegins, records, processes
  <2>4. QED
    BY <2>2, <2>3
<1>12. CASE Signal
  BY <1>12 DEF Signal, Goto, records, processes, output, observed
<1>13. ASSUME NEW j \in Job, Read(j) PROVE Unborn'
  BY <1>13 DEF Read, Goto, records, processes, output, observed
<1>14. ASSUME NEW j \in Job, LeaderExits(j) PROVE Unborn'
  BY <1>14 DEF LeaderExits, Goto, records, processes, output, observed
<1>15. ASSUME NEW j \in Job, MembersExit(j) PROVE Unborn'
  BY <1>15 DEF MembersExit, Goto, records, processes, output, observed
<1>16. ASSUME NEW j \in Job, Prints(j) PROVE Unborn'
  BY <1>16 DEF Prints, Goto, records, processes, output, observed
<1>17. ASSUME NEW j \in Job, Pump(j) PROVE Unborn'
  BY <1>17 DEF Pump, Goto, records, processes, output, observed
<1>18. QED
  BY <1>1, <1>2, <1>3, <1>4, <1>5, <1>6, <1>7, <1>8, <1>9, <1>10, <1>11, <1>12, <1>13, <1>14, <1>15, <1>16, <1>17
  DEF Next, CallerWorks, CallerCalls, Processes, Reaper, Finish

LEMMA TargetedStep ==
  ASSUME IInv, Next
  PROVE  Targeted'
<1>. USE JobsAssumption DEF IInv, TypeOK, Job, Thread, Caller, Places, Subject, Verdict, Running, Finished, Unborn, Targeted
<1>1. ASSUME NEW t \in Thread, FinishStatus(t) PROVE Targeted'
  BY <1>1 DEF FinishStatus, Goto, records, processes, output, observed
<1>2. ASSUME NEW t \in Thread, FinishAt(t) PROVE Targeted'
  BY <1>2 DEF FinishAt, Goto, records, processes, output, observed
<1>3. ASSUME NEW t \in Thread, Prune(t) PROVE Targeted'
  BY <1>3 DEF Prune, Goto, records, processes, output, observed
<1>4. ASSUME NEW t \in Thread, Count(t) PROVE Targeted'
  BY <1>4 DEF Count, Goto, records, processes, output, observed
<1>5. ASSUME NEW j \in Job, ReaperStores(j) PROVE Targeted'
  BY <1>5 DEF ReaperStores, Goto, records, processes, output, observed
<1>6. CASE CallerStores
  BY <1>6 DEF CallerStores, Goto, records, processes, output, observed
<1>7. ASSUME NEW j \in Job, ReaperWaits(j) PROVE Targeted'
  BY <1>7 DEF ReaperWaits, Goto, records, processes, output, observed
<1>8. CASE Start
  BY <1>8 DEF Start, Goto, records, processes, output, observed
<1>9. ASSUME NEW j \in Job, Kill(j) PROVE Targeted'
  BY <1>9 DEF Kill, KillBegins, Goto, records, processes, output, observed
<1>10. CASE KillAll
  BY <1>10 DEF KillAll, Goto, records, processes, output, observed
<1>11. CASE KillNext
  <2>1. PICK j \in Job : KillBegins(j)
    BY <1>11 DEF KillNext
  <2>2. CASE j \in registry /\ Running(j)
    BY <2>1, <2>2 DEF KillBegins, Goto, records, processes
  <2>3. CASE ~(j \in registry /\ Running(j))
    BY <2>1, <2>3 DEF KillBegins, records, processes
  <2>4. QED
    BY <2>2, <2>3
<1>12. CASE Signal
  BY <1>12 DEF Signal, Goto, records, processes, output, observed
<1>13. ASSUME NEW j \in Job, Read(j) PROVE Targeted'
  BY <1>13 DEF Read, Goto, records, processes, output, observed
<1>14. ASSUME NEW j \in Job, LeaderExits(j) PROVE Targeted'
  BY <1>14 DEF LeaderExits, Goto, records, processes, output, observed
<1>15. ASSUME NEW j \in Job, MembersExit(j) PROVE Targeted'
  BY <1>15 DEF MembersExit, Goto, records, processes, output, observed
<1>16. ASSUME NEW j \in Job, Prints(j) PROVE Targeted'
  BY <1>16 DEF Prints, Goto, records, processes, output, observed
<1>17. ASSUME NEW j \in Job, Pump(j) PROVE Targeted'
  BY <1>17 DEF Pump, Goto, records, processes, output, observed
<1>18. QED
  BY <1>1, <1>2, <1>3, <1>4, <1>5, <1>6, <1>7, <1>8, <1>9, <1>10, <1>11, <1>12, <1>13, <1>14, <1>15, <1>16, <1>17
  DEF Next, CallerWorks, CallerCalls, Processes, Reaper, Finish

LEMMA KillOrderStep ==
  ASSUME IInv, Next
  PROVE  KillOrder'
<1>. USE JobsAssumption DEF IInv, TypeOK, Job, Thread, Caller, Places, Subject, Verdict, Running, Finished, Unborn, Targeted, KillOrder
<1>1. ASSUME NEW t \in Thread, FinishStatus(t) PROVE KillOrder'
  BY <1>1 DEF FinishStatus, Goto, records, processes, output, observed
<1>2. ASSUME NEW t \in Thread, FinishAt(t) PROVE KillOrder'
  BY <1>2 DEF FinishAt, Goto, records, processes, output, observed
<1>3. ASSUME NEW t \in Thread, Prune(t) PROVE KillOrder'
  BY <1>3 DEF Prune, Goto, records, processes, output, observed
<1>4. ASSUME NEW t \in Thread, Count(t) PROVE KillOrder'
  BY <1>4 DEF Count, Goto, records, processes, output, observed
<1>5. ASSUME NEW j \in Job, ReaperStores(j) PROVE KillOrder'
  BY <1>5 DEF ReaperStores, Goto, records, processes, output, observed
<1>6. CASE CallerStores
  BY <1>6 DEF CallerStores, Goto, records, processes, output, observed
<1>7. ASSUME NEW j \in Job, ReaperWaits(j) PROVE KillOrder'
  <2>1. /\ leader' = [leader EXCEPT ![j] = "reaped"] /\ members' = members
        /\ target' = target /\ pc' = [pc EXCEPT ![j] = "status"]
    BY <1>7 DEF ReaperWaits, Goto
  <2>2. pc'[Caller] = pc[Caller]
    BY <2>1
  <2>3. QED
    BY <2>1, <2>2
<1>8. CASE Start
  BY <1>8 DEF Start, Goto, records, processes, output, observed
<1>9. ASSUME NEW j \in Job, Kill(j) PROVE KillOrder'
  BY <1>9 DEF Kill, KillBegins, Goto, records, processes, output, observed
<1>10. CASE KillAll
  BY <1>10 DEF KillAll, Goto, records, processes, output, observed
<1>11. CASE KillNext
  BY <1>11 DEF KillNext, KillBegins, Goto, records, processes, output, observed
<1>12. CASE Signal
  BY <1>12 DEF Signal, Goto, records, processes, output, observed
<1>13. ASSUME NEW j \in Job, Read(j) PROVE KillOrder'
  BY <1>13 DEF Read, Goto, records, processes, output, observed
<1>14. ASSUME NEW j \in Job, LeaderExits(j) PROVE KillOrder'
  BY <1>14 DEF LeaderExits, Goto, records, processes, output, observed
<1>15. ASSUME NEW j \in Job, MembersExit(j) PROVE KillOrder'
  BY <1>15 DEF MembersExit, Goto, records, processes, output, observed
<1>16. ASSUME NEW j \in Job, Prints(j) PROVE KillOrder'
  BY <1>16 DEF Prints, Goto, records, processes, output, observed
<1>17. ASSUME NEW j \in Job, Pump(j) PROVE KillOrder'
  BY <1>17 DEF Pump, Goto, records, processes, output, observed
<1>18. QED
  BY <1>1, <1>2, <1>3, <1>4, <1>5, <1>6, <1>7, <1>8, <1>9, <1>10, <1>11, <1>12, <1>13, <1>14, <1>15, <1>16, <1>17
  DEF Next, CallerWorks, CallerCalls, Processes, Reaper, Finish

LEMMA VerdictStep ==
  ASSUME IInv, Next
  PROVE  VerdictFirst'
<1>. USE JobsAssumption DEF IInv, TypeOK, Job, Thread, Caller, Places, Subject, Verdict, Running, Finished, Unborn, Targeted, VerdictFirst
<1>1. ASSUME NEW t \in Thread, FinishStatus(t) PROVE VerdictFirst'
  <2>1. Subject(t) \in Job /\ status[Subject(t)] # "none"
    <3>1. CASE t = Caller
      BY <1>1, <3>1 DEF FinishStatus
    <3>2. CASE t \in Job
      <4>1. pc[t] # "unborn" /\ Subject(t) = t
        BY <1>1, <3>2 DEF FinishStatus
      <4>2. t < next
        BY <4>1, <3>2
      <4>3. QED
        BY <4>1, <4>2, <3>2
    <3>3. QED
      BY <3>1, <3>2
  <2>2. Finished(Subject(t))'
    BY <1>1, <2>1 DEF FinishStatus
  <2>3. ASSUME NEW u \in Thread, u # t, pc'[u] = "finished"
        PROVE  Finished(Subject(u))'
    <3>1. pc[u] = "finished" /\ Finished(Subject(u)) /\ Subject(u) \in Job
      BY <1>1, <2>3 DEF FinishStatus, Goto
    <3>2. status'[Subject(u)] = status[Subject(u)]
      BY <1>1, <3>1, <2>1 DEF FinishStatus
    <3>3. target' = target
      BY <1>1 DEF FinishStatus
    <3>4. QED
      BY <3>1, <3>2, <3>3
  <2>4. QED
    BY <2>2, <2>3
<1>2. ASSUME NEW t \in Thread, FinishAt(t) PROVE VerdictFirst'
  BY <1>2 DEF FinishAt, Goto, records, processes, output, observed
<1>3. ASSUME NEW t \in Thread, Prune(t) PROVE VerdictFirst'
  BY <1>3 DEF Prune, Goto, records, processes, output, observed
<1>4. ASSUME NEW t \in Thread, Count(t) PROVE VerdictFirst'
  BY <1>4 DEF Count, Goto, records, processes, output, observed
<1>5. ASSUME NEW j \in Job, ReaperStores(j) PROVE VerdictFirst'
  BY <1>5 DEF ReaperStores, Goto, records, processes, output, observed
<1>6. CASE CallerStores
  BY <1>6 DEF CallerStores, Goto, records, processes, output, observed
<1>7. ASSUME NEW j \in Job, ReaperWaits(j) PROVE VerdictFirst'
  BY <1>7 DEF ReaperWaits, Goto, records, processes, output, observed
<1>8. CASE Start
  BY <1>8 DEF Start, Goto, records, processes, output, observed
<1>9. ASSUME NEW j \in Job, Kill(j) PROVE VerdictFirst'
  BY <1>9 DEF Kill, KillBegins, Goto, records, processes, output, observed
<1>10. CASE KillAll
  BY <1>10 DEF KillAll, Goto, records, processes, output, observed
<1>11. CASE KillNext
  BY <1>11 DEF KillNext, KillBegins, Goto, records, processes, output, observed
<1>12. CASE Signal
  BY <1>12 DEF Signal, Goto, records, processes, output, observed
<1>13. ASSUME NEW j \in Job, Read(j) PROVE VerdictFirst'
  BY <1>13 DEF Read, Goto, records, processes, output, observed
<1>14. ASSUME NEW j \in Job, LeaderExits(j) PROVE VerdictFirst'
  BY <1>14 DEF LeaderExits, Goto, records, processes, output, observed
<1>15. ASSUME NEW j \in Job, MembersExit(j) PROVE VerdictFirst'
  BY <1>15 DEF MembersExit, Goto, records, processes, output, observed
<1>16. ASSUME NEW j \in Job, Prints(j) PROVE VerdictFirst'
  BY <1>16 DEF Prints, Goto, records, processes, output, observed
<1>17. ASSUME NEW j \in Job, Pump(j) PROVE VerdictFirst'
  BY <1>17 DEF Pump, Goto, records, processes, output, observed
<1>18. QED
  BY <1>1, <1>2, <1>3, <1>4, <1>5, <1>6, <1>7, <1>8, <1>9, <1>10, <1>11, <1>12, <1>13, <1>14, <1>15, <1>16, <1>17
  DEF Next, CallerWorks, CallerCalls, Processes, Reaper, Finish

LEMMA TimesStep ==
  ASSUME IInv, Next
  PROVE  Times'
<1>. USE JobsAssumption DEF IInv, TypeOK, Job, Thread, Caller, Places, Subject, Verdict, Running, Finished, Unborn, Targeted, VerdictFirst, Times
<1>1. ASSUME NEW t \in Thread, FinishStatus(t) PROVE Times'
  BY <1>1 DEF FinishStatus, Goto, records, processes, output, observed
<1>2. ASSUME NEW t \in Thread, FinishAt(t) PROVE Times'
  <2>1. Subject(t) \in Job /\ Finished(Subject(t)) /\ status' = status
    BY <1>2 DEF FinishAt
  <2>2. CASE finishedAt[Subject(t)] = 0
    <3>1. /\ clock' = clock + 1
          /\ finishedAt' = [finishedAt EXCEPT ![Subject(t)] = clock + 1]
      BY <1>2, <2>2 DEF FinishAt
    <3>2. PICK k \in Job : k = Subject(t)
      BY <2>1
    <3>3. finishedAt' = [finishedAt EXCEPT ![k] = clock + 1] /\ Finished(k)
      BY <2>1, <3>1, <3>2
    <3>4. ASSUME NEW j \in Job
          PROVE  finishedAt'[j] <= clock' /\ (finishedAt'[j] > 0 => Finished(j))
      <4>1. finishedAt'[j] = IF j = k THEN clock + 1 ELSE finishedAt[j]
        BY <3>3
      <4>2. finishedAt[j] <= clock /\ (finishedAt[j] > 0 => Finished(j))
        OBVIOUS
      <4>3. clock' = clock + 1 /\ clock \in Nat
        BY <3>1
      <4>4. finishedAt[j] \in Nat
        OBVIOUS
      <4>5. CASE j = k
        BY <3>3, <4>1, <4>3, <4>5
      <4>6. CASE j # k
        <5>1. finishedAt'[j] = finishedAt[j]
          BY <4>1, <4>6
        <5>2. QED
          BY <5>1, <4>2, <4>3, <4>4
      <4>7. QED
        BY <4>5, <4>6
    <3>5. QED
      BY <2>1, <3>4
  <2>3. CASE finishedAt[Subject(t)] # 0
    BY <1>2, <2>1, <2>3 DEF FinishAt
  <2>4. QED
    BY <2>2, <2>3
<1>3. ASSUME NEW t \in Thread, Prune(t) PROVE Times'
  BY <1>3 DEF Prune, Goto, records, processes, output, observed
<1>4. ASSUME NEW t \in Thread, Count(t) PROVE Times'
  BY <1>4 DEF Count, Goto, records, processes, output, observed
<1>5. ASSUME NEW j \in Job, ReaperStores(j) PROVE Times'
  BY <1>5 DEF ReaperStores, Goto, records, processes, output, observed
<1>6. CASE CallerStores
  BY <1>6 DEF CallerStores, Goto, records, processes, output, observed
<1>7. ASSUME NEW j \in Job, ReaperWaits(j) PROVE Times'
  BY <1>7 DEF ReaperWaits, Goto, records, processes, output, observed
<1>8. CASE Start
  BY <1>8 DEF Start, Goto, records, processes, output, observed
<1>9. ASSUME NEW j \in Job, Kill(j) PROVE Times'
  BY <1>9 DEF Kill, KillBegins, Goto, records, processes, output, observed
<1>10. CASE KillAll
  BY <1>10 DEF KillAll, Goto, records, processes, output, observed
<1>11. CASE KillNext
  BY <1>11 DEF KillNext, KillBegins, Goto, records, processes, output, observed
<1>12. CASE Signal
  BY <1>12 DEF Signal, Goto, records, processes, output, observed
<1>13. ASSUME NEW j \in Job, Read(j) PROVE Times'
  BY <1>13 DEF Read, Goto, records, processes, output, observed
<1>14. ASSUME NEW j \in Job, LeaderExits(j) PROVE Times'
  BY <1>14 DEF LeaderExits, Goto, records, processes, output, observed
<1>15. ASSUME NEW j \in Job, MembersExit(j) PROVE Times'
  BY <1>15 DEF MembersExit, Goto, records, processes, output, observed
<1>16. ASSUME NEW j \in Job, Prints(j) PROVE Times'
  BY <1>16 DEF Prints, Goto, records, processes, output, observed
<1>17. ASSUME NEW j \in Job, Pump(j) PROVE Times'
  BY <1>17 DEF Pump, Goto, records, processes, output, observed
<1>18. QED
  BY <1>1, <1>2, <1>3, <1>4, <1>5, <1>6, <1>7, <1>8, <1>9, <1>10, <1>11, <1>12, <1>13, <1>14, <1>15, <1>16, <1>17
  DEF Next, CallerWorks, CallerCalls, Processes, Reaper, Finish

LEMMA KilledStep ==
  ASSUME IInv, Next
  PROVE  KilledMeansDead'
<1>. USE JobsAssumption DEF IInv, TypeOK, Job, Thread, Caller, Places, Subject, Verdict, Running, Finished, Unborn, Targeted, KillOrder, KilledMeansDead
<1>1. ASSUME NEW t \in Thread, FinishStatus(t) PROVE KilledMeansDead'
  BY <1>1 DEF FinishStatus, Goto, records, processes, output, observed
<1>2. ASSUME NEW t \in Thread, FinishAt(t) PROVE KilledMeansDead'
  BY <1>2 DEF FinishAt, Goto, records, processes, output, observed
<1>3. ASSUME NEW t \in Thread, Prune(t) PROVE KilledMeansDead'
  BY <1>3 DEF Prune, Goto, records, processes, output, observed
<1>4. ASSUME NEW t \in Thread, Count(t) PROVE KilledMeansDead'
  BY <1>4 DEF Count, Goto, records, processes, output, observed
<1>5. ASSUME NEW j \in Job, ReaperStores(j) PROVE KilledMeansDead'
  BY <1>5 DEF ReaperStores, Goto, records, processes, output, observed
<1>6. CASE CallerStores
  BY <1>6 DEF CallerStores, Goto, records, processes, output, observed
<1>7. ASSUME NEW j \in Job, ReaperWaits(j) PROVE KilledMeansDead'
  BY <1>7 DEF ReaperWaits, Goto, records, processes, output, observed
<1>8. CASE Start
  BY <1>8 DEF Start, Goto, records, processes, output, observed
<1>9. ASSUME NEW j \in Job, Kill(j) PROVE KilledMeansDead'
  BY <1>9 DEF Kill, KillBegins, Goto, records, processes, output, observed
<1>10. CASE KillAll
  BY <1>10 DEF KillAll, Goto, records, processes, output, observed
<1>11. CASE KillNext
  BY <1>11 DEF KillNext, KillBegins, Goto, records, processes, output, observed
<1>12. CASE Signal
  BY <1>12 DEF Signal, Goto, records, processes, output, observed
<1>13. ASSUME NEW j \in Job, Read(j) PROVE KilledMeansDead'
  BY <1>13 DEF Read, Goto, records, processes, output, observed
<1>14. ASSUME NEW j \in Job, LeaderExits(j) PROVE KilledMeansDead'
  BY <1>14 DEF LeaderExits, Goto, records, processes, output, observed
<1>15. ASSUME NEW j \in Job, MembersExit(j) PROVE KilledMeansDead'
  BY <1>15 DEF MembersExit, Goto, records, processes, output, observed
<1>16. ASSUME NEW j \in Job, Prints(j) PROVE KilledMeansDead'
  BY <1>16 DEF Prints, Goto, records, processes, output, observed
<1>17. ASSUME NEW j \in Job, Pump(j) PROVE KilledMeansDead'
  BY <1>17 DEF Pump, Goto, records, processes, output, observed
<1>18. QED
  BY <1>1, <1>2, <1>3, <1>4, <1>5, <1>6, <1>7, <1>8, <1>9, <1>10, <1>11, <1>12, <1>13, <1>14, <1>15, <1>16, <1>17
  DEF Next, CallerWorks, CallerCalls, Processes, Reaper, Finish

LEMMA ListedStep ==
  ASSUME IInv, Next
  PROVE  RunningIsListed'
<1>. USE JobsAssumption DEF IInv, TypeOK, Job, Thread, Caller, Places, Subject, Verdict, Running, Finished, Unborn, Targeted, RunningIsListed, Surplus, Recorded
<1>1. ASSUME NEW t \in Thread, FinishStatus(t) PROVE RunningIsListed'
  BY <1>1 DEF FinishStatus, Goto, records, processes, output, observed
<1>2. ASSUME NEW t \in Thread, FinishAt(t) PROVE RunningIsListed'
  BY <1>2 DEF FinishAt, Goto, records, processes, output, observed
<1>3. ASSUME NEW t \in Thread, Prune(t) PROVE RunningIsListed'
  BY <1>3 DEF Prune, Goto, records, processes, output, observed
<1>4. ASSUME NEW t \in Thread, Count(t) PROVE RunningIsListed'
  BY <1>4 DEF Count, Goto, records, processes, output, observed
<1>5. ASSUME NEW j \in Job, ReaperStores(j) PROVE RunningIsListed'
  BY <1>5 DEF ReaperStores, Goto, records, processes, output, observed
<1>6. CASE CallerStores
  BY <1>6 DEF CallerStores, Goto, records, processes, output, observed
<1>7. ASSUME NEW j \in Job, ReaperWaits(j) PROVE RunningIsListed'
  BY <1>7 DEF ReaperWaits, Goto, records, processes, output, observed
<1>8. CASE Start
  BY <1>8 DEF Start, Goto, records, processes, output, observed
<1>9. ASSUME NEW j \in Job, Kill(j) PROVE RunningIsListed'
  BY <1>9 DEF Kill, KillBegins, Goto, records, processes, output, observed
<1>10. CASE KillAll
  BY <1>10 DEF KillAll, Goto, records, processes, output, observed
<1>11. CASE KillNext
  BY <1>11 DEF KillNext, KillBegins, Goto, records, processes, output, observed
<1>12. CASE Signal
  BY <1>12 DEF Signal, Goto, records, processes, output, observed
<1>13. ASSUME NEW j \in Job, Read(j) PROVE RunningIsListed'
  BY <1>13 DEF Read, Goto, records, processes, output, observed
<1>14. ASSUME NEW j \in Job, LeaderExits(j) PROVE RunningIsListed'
  BY <1>14 DEF LeaderExits, Goto, records, processes, output, observed
<1>15. ASSUME NEW j \in Job, MembersExit(j) PROVE RunningIsListed'
  BY <1>15 DEF MembersExit, Goto, records, processes, output, observed
<1>16. ASSUME NEW j \in Job, Prints(j) PROVE RunningIsListed'
  BY <1>16 DEF Prints, Goto, records, processes, output, observed
<1>17. ASSUME NEW j \in Job, Pump(j) PROVE RunningIsListed'
  BY <1>17 DEF Pump, Goto, records, processes, output, observed
<1>18. QED
  BY <1>1, <1>2, <1>3, <1>4, <1>5, <1>6, <1>7, <1>8, <1>9, <1>10, <1>11, <1>12, <1>13, <1>14, <1>15, <1>16, <1>17
  DEF Next, CallerWorks, CallerCalls, Processes, Reaper, Finish

-----------------------------------------------------------------------------
(* A counter of one job goes up, or down when it is not zero.              *)
LEMMA Stepped ==
  ASSUME NEW S, NEW f \in [S -> Nat], NEW j \in S
  PROVE  /\ [f EXCEPT ![j] = @ + 1] \in [S -> Nat]
         /\ f[j] > 0 => [f EXCEPT ![j] = @ - 1] \in [S -> Nat]
<1>1. f[j] \in Nat /\ f[j] + 1 \in Nat
  OBVIOUS
<1>2. f[j] > 0 => f[j] - 1 \in Nat
  BY <1>1
<1>3. QED
  BY <1>1, <1>2

(* Printing and pumping keep the counters of the pipes natural.            *)
LEMMA PrintsTyped ==
  ASSUME NEW j \in Job, TypeOK, Prints(j)
  PROVE  printed' \in [Job -> Nat] /\ pipe' \in [Job -> Nat]
BY Stepped DEF TypeOK, Prints

LEMMA PumpTyped ==
  ASSUME NEW j \in Job, TypeOK, Pump(j)
  PROVE  pipe' \in [Job -> Nat] /\ unread' \in [Job -> Nat]
<1>1. pipe \in [Job -> Nat] /\ unread \in [Job -> Nat] /\ pipe[j] > 0
  BY DEF TypeOK, Pump
<1>2. pipe' = [pipe EXCEPT ![j] = @ - 1] /\ unread' = [unread EXCEPT ![j] = @ + 1]
  BY DEF Pump
<1>3. QED
  BY <1>1, <1>2, Stepped

(* Storing the count publishes what was counted.                           *)
LEMMA StoresTyped ==
  ASSUME TypeOK, NEW t \in Thread,
         published' = counted[t], counted' = [counted EXCEPT ![t] = 0]
  PROVE  published' \in 0 .. MaxJobs /\ counted' \in [Thread -> 0 .. MaxJobs]
BY JobsAssumption DEF TypeOK

LEMMA TypeStep ==
  ASSUME IInv, Next
  PROVE  TypeOK'
<1>. USE JobsAssumption
     DEF IInv, TypeOK, Job, Thread, Caller, Places, Subject, Verdict
<1>1. RunningCount \in 0 .. MaxJobs
  BY CountInRange
<1>2. ASSUME NEW t \in Thread, Subject(t) \in Job, Finish(t)
      PROVE  TypeOK'
  <2>1. CASE FinishStatus(t)
    BY <1>2, <2>1 DEF FinishStatus, Goto, processes, output, observed
  <2>2. CASE FinishAt(t)
    <3>1. clock' \in Nat /\ finishedAt' \in [Job -> Nat]
      <4>1. clock + 1 \in Nat /\ finishedAt \in [Job -> Nat]
        OBVIOUS
      <4>2. CASE finishedAt[Subject(t)] = 0
        BY <2>2, <4>1, <4>2 DEF FinishAt
      <4>3. CASE finishedAt[Subject(t)] # 0
        BY <2>2, <4>1, <4>3 DEF FinishAt
      <4>4. QED
        BY <4>2, <4>3
    <3>2. pc' \in [Thread -> Places]
      BY <1>2, <2>2 DEF FinishAt, Goto
    <3>3. QED
      BY <2>2, <3>1, <3>2 DEF FinishAt, processes, output, observed
  <2>3. CASE Prune(t)
    BY <1>2, <2>3 DEF Prune, Goto, processes, output, observed
  <2>4. CASE Count(t)
    BY <1>1, <1>2, <2>4 DEF Count, Goto, records, processes, output, observed
  <2>5. QED
    BY <1>2, <2>1, <2>2, <2>3, <2>4 DEF Finish
<1>3. ASSUME NEW j \in Job, Reaper(j)
      PROVE  TypeOK'
  <2>1. CASE ReaperWaits(j)
    BY <2>1 DEF ReaperWaits, Goto, records, output, observed
  <2>2. CASE Finish(j)
    <3>1. j \in Thread /\ Subject(j) \in Job
      OBVIOUS
    <3>2. QED
      BY ONLY <1>2, <2>2, <3>1
  <2>3. CASE ReaperStores(j)
    <3>1. published' \in 0 .. MaxJobs /\ counted' \in [Thread -> 0 .. MaxJobs]
      BY <2>3, StoresTyped DEF ReaperStores
    <3>2. pc' \in [Thread -> Places]
      BY <2>3 DEF ReaperStores, Goto
    <3>3. QED
      BY <2>3, <3>1, <3>2 DEF ReaperStores, records, processes, output, observed
  <2>4. QED
    BY <1>3, <2>1, <2>2, <2>3 DEF Reaper
<1>4. ASSUME CallerWorks
      PROVE  TypeOK'
  <2>1. CASE Finish(Caller)
    <3>1. pc[Caller] # "idle"
      BY <2>1 DEF Finish, FinishStatus, FinishAt, Prune, Count
    <3>2. Subject(Caller) \in Job
      BY <3>1 DEF Targeted
    <3>3. QED
      BY <1>2, <2>1, <3>2
  <2>2. CASE CallerStores
    <3>1. target \in Job
      BY <2>2 DEF CallerStores, Targeted
    <3>2. published' \in 0 .. MaxJobs /\ counted' \in [Thread -> 0 .. MaxJobs]
      BY <2>2, StoresTyped DEF CallerStores
    <3>3. pc' \in [Thread -> Places] /\ answered' \subseteq Job
      <4>1. CASE pc[target] = "unborn"
        BY <2>2, <3>1, <4>1 DEF CallerStores
      <4>2. CASE pc[target] # "unborn"
        <5>1. /\ pc' = [pc EXCEPT ![Caller] = "idle"]
              /\ answered' = answered \cup {target}
          BY <2>2, <4>2 DEF CallerStores, Goto
        <5>2. QED
          BY <3>1, <5>1
      <4>3. QED
        BY <4>1, <4>2
    <3>4. target' \in Thread
      BY <2>2 DEF CallerStores
    <3>5. QED
      BY <2>2, <3>2, <3>3, <3>4 DEF CallerStores, records, processes, output, observed
  <2>3. CASE KillNext
    <3>1. PICK j \in todo : KillBegins(j) /\ todo' = todo \ {j}
      BY <2>3 DEF KillNext
    <3>2. j \in Job /\ todo' \subseteq Job /\ next' = next
      BY <3>1 DEF KillBegins
    <3>3. pc' \in [Thread -> Places] /\ target' \in Thread /\ answered' \subseteq Job
      BY <3>1, <3>2 DEF KillBegins, Goto
    <3>4. QED
      BY <3>1, <3>2, <3>3 DEF KillBegins, records, processes, output, observed
  <2>4. CASE Signal
    <3>1. target \in Job
      BY <2>4 DEF Signal, Targeted
    <3>2. QED
      BY <2>4, <3>1 DEF Signal, Goto, records, output, observed
  <2>5. QED
    BY <1>4, <2>1, <2>2, <2>3, <2>4 DEF CallerWorks
<1>5. ASSUME CallerCalls
      PROVE  TypeOK'
  <2>1. CASE Start
    <3>1. next \in Job /\ next' = next + 1 /\ next' \in 1 .. MaxJobs + 1
      BY <2>1 DEF Start
    <3>2. registry' \subseteq 1 .. next' - 1
      BY <2>1, <3>1 DEF Start
    <3>3. /\ status' \in [Job -> {"none", "running", "exited", "killed"}]
          /\ leader' \in [Job -> {"none", "alive", "zombie", "reaped"}]
          /\ members' \in [Job -> BOOLEAN]
      BY <2>1, <3>1 DEF Start
    <3>4. pc' \in [Thread -> Places] /\ target' \in Thread
      BY <2>1, <3>1 DEF Start, Goto
    <3>5. QED
      BY <2>1, <3>1, <3>2, <3>3, <3>4 DEF Start, output, observed
  <2>2. CASE KillAll
    <3>1. registry \subseteq Job
      OBVIOUS
    <3>2. todo' \subseteq Job
      BY <2>2, <3>1 DEF KillAll
    <3>3. QED
      BY <2>2, <3>2 DEF KillAll, records, processes, output, observed
  <2>3. ASSUME NEW j \in Job, Kill(j)
        PROVE  TypeOK'
    BY <2>3 DEF Kill, KillBegins, Goto, records, processes, output, observed
  <2>4. ASSUME NEW j \in Job, Read(j)
        PROVE  TypeOK'
    BY <2>4 DEF Read, Goto, records, processes, output, observed
  <2>5. QED
    BY <1>5, <2>1, <2>2, <2>3, <2>4 DEF CallerCalls
<1>6. ASSUME Processes
      PROVE  TypeOK'
  <2>1. PICK j \in Job : LeaderExits(j) \/ MembersExit(j) \/ Prints(j) \/ Pump(j)
    BY <1>6 DEF Processes
  <2>2. CASE LeaderExits(j)
    BY <2>2 DEF LeaderExits, records, output, observed
  <2>3. CASE MembersExit(j)
    BY <2>3 DEF MembersExit, records, output, observed
  <2>4. CASE Prints(j)
    <3>1. printed' \in [Job -> Nat] /\ pipe' \in [Job -> Nat]
      BY <2>4, PrintsTyped
    <3>2. QED
      BY <2>4, <3>1 DEF Prints, records, processes, observed
  <2>5. CASE Pump(j)
    <3>1. unread' \in [Job -> Nat] /\ pipe' \in [Job -> Nat]
      BY <2>5, PumpTyped
    <3>2. QED
      BY <2>5, <3>1 DEF Pump, records, processes, observed
  <2>6. QED
    BY <2>1, <2>2, <2>3, <2>4, <2>5
<1>7. QED
  BY <1>3, <1>4, <1>5, <1>6 DEF Next

-----------------------------------------------------------------------------
(* prune forgets the oldest: whatever is in Surplus is older than what of  *)
(* Recorded is not.                                                        *)
LEMMA SurplusIsOldest ==
  ASSUME TypeOK,
         NEW j \in Surplus, NEW k \in Recorded \ Surplus
  PROVE  finishedAt[j] < finishedAt[k]
<1>. DEFINE Later(x) == {m \in Recorded : finishedAt[m] > finishedAt[x]}
<1>1. IsFiniteSet(Recorded)
  <2>1. registry \subseteq Job
    BY JobsAssumption DEF TypeOK, Job
  <2>2. Recorded \subseteq Job
    BY <2>1 DEF Recorded
  <2>3. IsFiniteSet(Job)
    BY FS_Interval, JobsAssumption DEF Job
  <2>4. QED
    BY <2>2, <2>3, FS_Subset
<1>2. /\ IsFiniteSet(Later(j)) /\ Cardinality(Later(j)) \in Nat
      /\ IsFiniteSet(Later(k)) /\ Cardinality(Later(k)) \in Nat
  BY <1>1, FS_Subset, FS_CardinalityType
<1>3. Cardinality(Later(j)) >= MaxFinished /\ j \in Recorded
  BY DEF Surplus
<1>4. ~(Cardinality(Later(k)) >= MaxFinished)
  BY DEF Surplus
<1>5. finishedAt[j] \in Nat /\ finishedAt[k] \in Nat
  BY <1>3, JobsAssumption DEF TypeOK, Recorded, Job
<1>6. SUFFICES ASSUME finishedAt[k] <= finishedAt[j] PROVE FALSE
  BY <1>5
<1>7. Later(j) \subseteq Later(k)
  <2>1. ASSUME NEW m \in Later(j) PROVE finishedAt[m] > finishedAt[k]
    <3>1. finishedAt[m] \in Nat /\ finishedAt[m] > finishedAt[j]
      BY JobsAssumption DEF TypeOK, Recorded, Job
    <3>2. QED
      BY <3>1, <1>5, <1>6
  <2>2. QED
    BY <2>1
<1>8. Cardinality(Later(j)) <= Cardinality(Later(k))
  BY <1>2, <1>7, FS_Subset
<1>9. QED
  BY <1>2, <1>3, <1>4, <1>8, JobsAssumption

LEMMA LatestStep ==
  ASSUME IInv, Next
  PROVE  KeepsTheLatest'
<1>. USE JobsAssumption DEF IInv, TypeOK, Job, Thread, Caller
<1>1. ASSUME next' = next, registry' = registry, finishedAt' = finishedAt,
             {k \in registry : Finished(k)'} \cap {k \in registry : finishedAt[k] > 0}
               \subseteq Recorded
      PROVE  KeepsTheLatest'
  BY <1>1 DEF KeepsTheLatest, Recorded
<1>2. ASSUME next' = next, registry' = registry, finishedAt' = finishedAt, status' = status
      PROVE  KeepsTheLatest'
  BY <1>2 DEF KeepsTheLatest, Recorded, Finished
<1>3. ASSUME NEW t \in Thread, FinishStatus(t) PROVE KeepsTheLatest'
  <2>1. ASSUME NEW k \in registry, Finished(k)', finishedAt[k] > 0
        PROVE  k \in Recorded
    BY <2>1 DEF Times, Recorded
  <2>2. QED
    BY <1>1, <1>3, <2>1 DEF FinishStatus
<1>4. ASSUME NEW t \in Thread, FinishAt(t) PROVE KeepsTheLatest'
  <2>1. PICK s \in Job : s = Subject(t) /\ Finished(s)
    BY <1>4 DEF FinishAt, VerdictFirst, Targeted, Subject
  <2>2. CASE finishedAt[s] # 0
    BY <1>2, <1>4, <2>1, <2>2 DEF FinishAt
  <2>3. CASE finishedAt[s] = 0
    <3>1. /\ clock' = clock + 1
          /\ finishedAt' = [finishedAt EXCEPT ![s] = clock + 1]
          /\ registry' = registry /\ next' = next /\ status' = status
      BY <1>4, <2>1, <2>3 DEF FinishAt
    <3>2. ASSUME NEW j \in 1 .. next' - 1, j \notin registry'
          PROVE  /\ finishedAt'[j] > 0
                 /\ \A k \in Recorded' : finishedAt'[j] < finishedAt'[k]
      <4>1. j \in Job /\ j \notin registry /\ j \in 1 .. next - 1
        BY <3>1, <3>2
      <4>2. finishedAt[j] > 0 /\ \A k \in Recorded : finishedAt[j] < finishedAt[k]
        BY <4>1 DEF KeepsTheLatest
      <4>3. j # s /\ finishedAt'[j] = finishedAt[j]
        BY <2>3, <3>1, <4>1, <4>2
      <4>4. finishedAt[j] \in Nat /\ clock \in Nat /\ finishedAt[j] <= clock
        BY <4>1 DEF Times
      <4>5. ASSUME NEW k \in Recorded' PROVE finishedAt'[j] < finishedAt'[k]
        <5>1. k \in Job /\ k \in registry
          BY <3>1 DEF Recorded
        <5>2. CASE k = s
          <6>1. finishedAt'[k] = clock + 1
            BY <3>1, <5>1, <5>2
          <6>2. QED
            BY <4>3, <4>4, <6>1
        <5>3. CASE k # s
          <6>1. finishedAt'[k] = finishedAt[k]
            BY <3>1, <5>1, <5>3
          <6>2. k \in Recorded
            BY <3>1, <5>1, <6>1 DEF Recorded, Finished
          <6>3. QED
            BY <4>2, <4>3, <6>1, <6>2
        <5>4. QED
          BY <5>2, <5>3
      <4>6. QED
        BY <4>2, <4>3, <4>5
    <3>3. QED
      BY <3>2 DEF KeepsTheLatest
  <2>4. QED
    BY <2>2, <2>3
<1>5. ASSUME NEW t \in Thread, Prune(t) PROVE KeepsTheLatest'
  <2>1. /\ registry' = registry \ Surplus
        /\ next' = next /\ finishedAt' = finishedAt /\ status' = status
    BY <1>5 DEF Prune
  <2>2. Recorded' = Recorded \ Surplus
    BY <2>1 DEF Recorded, Finished
  <2>3. ASSUME NEW j \in 1 .. next - 1, j \notin registry'
        PROVE  /\ finishedAt[j] > 0
               /\ \A k \in Recorded \ Surplus : finishedAt[j] < finishedAt[k]
    <3>1. CASE j \notin registry
      BY <3>1 DEF KeepsTheLatest
    <3>2. CASE j \in Surplus
      BY <3>2, SurplusIsOldest DEF Surplus, Recorded
    <3>3. QED
      BY <2>1, <2>3, <3>1, <3>2
  <2>4. QED
    BY <2>1, <2>2, <2>3 DEF KeepsTheLatest
<1>6. CASE Start
  <2>1. /\ next \in Job /\ next' = next + 1 /\ registry' = registry \cup {next}
        /\ finishedAt' = finishedAt /\ status' = [status EXCEPT ![next] = "running"]
    BY <1>6 DEF Start
  <2>2. Recorded' \subseteq Recorded
    <3>1. ASSUME NEW k \in Recorded' PROVE k \in Recorded
      <4>1. k # next
        BY <2>1 DEF Recorded, Finished
      <4>2. k \in registry /\ status'[k] = status[k]
        BY <2>1, <4>1 DEF Recorded
      <4>3. QED
        BY <2>1, <4>2 DEF Recorded, Finished
    <3>2. QED
      BY <3>1
  <2>3. ASSUME NEW j \in 1 .. next' - 1, j \notin registry'
        PROVE  j \in 1 .. next - 1 /\ j \notin registry
    BY <2>1, <2>3
  <2>4. QED
    BY <2>1, <2>2, <2>3 DEF KeepsTheLatest
<1>7. CASE CallerStores \/ KillNext \/ Signal
  BY <1>2, <1>7 DEF CallerStores, KillNext, KillBegins, Signal, records
<1>8. ASSUME NEW j \in Job,
             Kill(j) \/ Read(j) \/ LeaderExits(j) \/ MembersExit(j) \/ Prints(j)
               \/ Pump(j) \/ ReaperWaits(j) \/ ReaperStores(j)
      PROVE  KeepsTheLatest'
  BY <1>2, <1>8 DEF Kill, KillBegins, Read, LeaderExits, MembersExit, Prints, Pump,
                    ReaperWaits, ReaperStores, records
<1>9. CASE KillAll
  BY <1>2, <1>9 DEF KillAll, records
<1>10. ASSUME NEW t \in Thread, Count(t) PROVE KeepsTheLatest'
  BY <1>2, <1>10 DEF Count, records
<1>11. QED
  BY <1>3, <1>4, <1>5, <1>6, <1>7, <1>8, <1>9, <1>10
  DEF Next, CallerWorks, CallerCalls, Processes, Reaper, Finish

-----------------------------------------------------------------------------
(* The step of the inductive invariant, stutters included.                 *)
LEMMA NextIInv ==
  ASSUME IInv, [Next]_vars
  PROVE  IInv'
<1>1. CASE Next
  BY <1>1, TypeStep, UnbornStep, TargetedStep, KillOrderStep, VerdictStep, TimesStep,
     KilledStep, ListedStep, LatestStep DEF IInv
<1>2. CASE UNCHANGED vars
  BY <1>2 DEF vars, records, processes, output, observed, IInv, TypeOK, Unborn, Targeted,
     KillOrder, VerdictFirst, Times, KilledMeansDead, RunningIsListed, KeepsTheLatest,
     Recorded, Running, Finished, Subject
<1>3. QED
  BY <1>1, <1>2

THEOREM InductiveInvariant == Spec => []IInv
<1>1. QED
  BY InitIInv, NextIInv, PTL DEF Spec

(* The registry, the processes and the published count keep their types,   *)
(* and no id is registered that start did not hand out.                    *)
THEOREM TypeCorrect == Spec => []TypeOK
<1>1. IInv => TypeOK
  BY DEF IInv
<1>2. QED
  BY <1>1, InductiveInvariant, PTL

(* A job reported killed has no process left, however the kill raced its   *)
(* own exit and its reaper (jobs.rs:321-329).                              *)
THEOREM KilledJobsAreDead == Spec => []KilledMeansDead
<1>1. IInv => KilledMeansDead
  BY DEF IInv
<1>2. QED
  BY <1>1, InductiveInvariant, PTL

(* prune never forgets a running job (jobs.rs:353-368).                    *)
THEOREM RunningJobsAreListed == Spec => []RunningIsListed
<1>1. IInv => RunningIsListed
  BY DEF IInv
<1>2. QED
  BY <1>1, InductiveInvariant, PTL

(* What was forgotten ended before everything that is kept, whatever the   *)
(* order in which concurrent finishes prune (jobs.rs:353-368).             *)
THEOREM TheLatestAreKept == Spec => []KeepsTheLatest
<1>1. IInv => KeepsTheLatest
  BY DEF IInv
<1>2. QED
  BY <1>1, InductiveInvariant, PTL

-----------------------------------------------------------------------------
(***************************************************************************)
(* The threads implement the board: their steps are steps of it, or none.  *)
(***************************************************************************)
(* Whoever finishes a job finishes one that exists.                        *)
LEMMA SubjectExists ==
  ASSUME IInv, NEW t \in Thread, pc[t] \notin {"unborn", "idle"}
  PROVE  Subject(t) \in Job /\ status[Subject(t)] # "none"
<1>1. CASE t = Caller
  BY <1>1 DEF IInv, TypeOK, Targeted, Unborn, Subject
<1>2. CASE t # Caller
  <2>1. t \in Job /\ Subject(t) = t
    BY <1>2 DEF Thread, Subject
  <2>2. t < next
    BY <2>1, JobsAssumption DEF IInv, TypeOK, Unborn, Job
  <2>3. QED
    BY <2>1, <2>2 DEF IInv, Unborn
<1>3. QED
  BY <1>1, <1>2

(* A process more that is dead is at most one job more that is gone.       *)
LEMMA DeathIsADeath ==
  ASSUME IInv, NEW j \in Job, status[j] # "none", UNCHANGED <<status, registry>>,
         \A k \in Job \ {j} : leader'[k] = leader[k] /\ members'[k] = members[k],
         leader'[j] = "alive" => leader[j] = "alive",
         members'[j] => members[j]
  PROVE  [Board!Next]_Board!boardVars
<1>1. Gone' = Gone \/ Gone' = Gone \cup {j}
  BY DEF Gone
<1>2. CASE Gone' = Gone
  BY <1>2 DEF Board!boardVars
<1>3. CASE Gone' = Gone \cup {j}
  BY <1>3 DEF Board!Dies, Board!Next
<1>4. QED
  BY <1>1, <1>2, <1>3

LEMMA VerdictIsAnEnd ==
  ASSUME IInv, NEW t \in Thread, FinishStatus(t)
  PROVE  [Board!Next]_Board!boardVars
<1>1. PICK j \in Job : j = Subject(t) /\ status[j] # "none"
  BY SubjectExists DEF FinishStatus
<1>2. UNCHANGED <<registry, leader, members>>
  BY DEF FinishStatus, processes
<1>3. CASE ~Running(j)
  <2>1. UNCHANGED <<status, Gone>>
    BY <1>1, <1>2, <1>3 DEF FinishStatus, Gone
  <2>2. QED
    BY <1>2, <2>1 DEF Board!boardVars
<1>4. CASE Running(j)
  <2>1. status' = [status EXCEPT ![j] = Verdict(t)]
    BY <1>1, <1>4 DEF FinishStatus
  <2>2. Gone' = Gone
    BY <1>1, <1>2, <2>1 DEF Gone, Verdict, IInv, TypeOK
  <2>3. CASE t = Caller
    <3>1. j \in Gone
      BY <1>1, <2>3 DEF IInv, KillOrder, FinishStatus, Subject, Gone
    <3>2. Board!IsKilled(j)
      BY <1>2, <1>4, <2>1, <2>2, <2>3, <3>1 DEF Board!IsKilled, Verdict, Running
    <3>3. QED
      BY <3>2 DEF Board!Next
  <2>4. CASE t # Caller
    <3>1. Board!Exits(j)
      BY <1>2, <1>4, <2>1, <2>2, <2>4 DEF Board!Exits, Verdict, Running
    <3>2. QED
      BY <3>1 DEF Board!Next
  <2>5. QED
    BY <2>3, <2>4
<1>5. QED
  BY <1>3, <1>4

LEMMA StartIsABegin ==
  ASSUME IInv, Start
  PROVE  [Board!Next]_Board!boardVars
<1>1. next \in Job /\ status[next] = "none"
  BY JobsAssumption DEF Start, IInv, Unborn, Job
<1>2. /\ status' = [status EXCEPT ![next] = "running"]
      /\ leader' = [leader EXCEPT ![next] = "alive"]
      /\ registry' = registry \cup {next}
      /\ \E forks \in BOOLEAN : members' = [members EXCEPT ![next] = forks]
  BY DEF Start
<1>3. Gone' = Gone
  BY <1>1, <1>2 DEF Gone, IInv, TypeOK
<1>4. Board!Begins(next)
  BY <1>1, <1>2, <1>3 DEF Board!Begins
<1>5. QED
  BY <1>1, <1>4 DEF Board!Next

LEMMA PruneForgets ==
  ASSUME IInv, NEW t \in Thread, Prune(t)
  PROVE  [Board!Next]_Board!boardVars
<1>1. Surplus \subseteq registry \cap Board!Over
  <2>1. registry \subseteq Job
    BY JobsAssumption DEF IInv, TypeOK, Job
  <2>2. Surplus \subseteq {j \in registry : Finished(j)}
    BY DEF Surplus, Recorded
  <2>3. {j \in registry : Finished(j)} \subseteq Board!Over
    BY <2>1 DEF Finished, Board!Over
  <2>4. QED
    BY <2>2, <2>3
<1>2. Board!Forgets
  BY <1>1 DEF Prune, Board!Forgets, processes, Gone
<1>3. QED
  BY <1>2 DEF Board!Next

LEMMA StepOfTheBoard ==
  ASSUME IInv, [Next]_vars
  PROVE  [Board!Next]_Board!boardVars
<1>1. CASE UNCHANGED <<status, registry, leader, members>>
  BY <1>1 DEF Board!boardVars, Gone
<1>2. ASSUME NEW j \in Job, LeaderExits(j) PROVE [Board!Next]_Board!boardVars
  <2>1. status[j] # "none"
    BY <1>2, JobsAssumption DEF LeaderExits, IInv, TypeOK, Unborn, Job
  <2>2. QED
    BY <1>2, <2>1, DeathIsADeath DEF LeaderExits, IInv, TypeOK, records
<1>3. ASSUME NEW j \in Job, MembersExit(j) PROVE [Board!Next]_Board!boardVars
  <2>1. status[j] # "none"
    BY <1>3, JobsAssumption DEF MembersExit, IInv, TypeOK, Unborn, Job
  <2>2. QED
    BY <1>3, <2>1, DeathIsADeath DEF MembersExit, IInv, TypeOK, records
<1>4. CASE Signal
  <2>1. target \in Job /\ status[target] # "none"
    BY <1>4 DEF Signal, IInv, Targeted, Unborn
  <2>2. QED
    BY <1>4, <2>1, DeathIsADeath DEF Signal, IInv, TypeOK, records
<1>5. ASSUME NEW j \in Job, ReaperWaits(j) PROVE [Board!Next]_Board!boardVars
  <2>1. Gone' = Gone /\ UNCHANGED <<status, registry>>
    BY <1>5 DEF ReaperWaits, Gone, IInv, TypeOK, records
  <2>2. QED
    BY <2>1 DEF Board!boardVars
<1>6. CASE \/ \E t \in Thread : FinishAt(t) \/ Count(t)
           \/ \E j \in Job : ReaperStores(j) \/ Kill(j) \/ Read(j) \/ Prints(j) \/ Pump(j)
           \/ CallerStores \/ KillAll \/ KillNext \/ UNCHANGED vars
  BY <1>1, <1>6
  DEF FinishAt, Count, ReaperStores, Kill, KillBegins, Read, Prints, Pump, CallerStores,
      KillAll, KillNext, vars, records, processes
<1>7. QED
  BY <1>2, <1>3, <1>4, <1>5, <1>6, VerdictIsAnEnd, StartIsABegin, PruneForgets
  DEF Next, CallerWorks, CallerCalls, Processes, Reaper, Finish, Thread

(* The threads keep what the registry promises, in whatever order a kill,  *)
(* a reaper, a prune and the end of a process come: a job ends once, what  *)
(* was said of its end is final, and only what is over is forgotten        *)
(* (jobs.rs:210-256, 297-370).                                             *)
THEOREM BoardIsKept == Spec => KeepsBoard
<1>1. Init => Board!Init
  BY DEF Init, Board!Init, Gone
<1>2. IInv /\ [Next]_vars => [Board!Next]_Board!boardVars
  BY StepOfTheBoard
<1>3. QED
  BY <1>1, <1>2, InductiveInvariant, PTL DEF Spec, KeepsBoard, Board!Spec

-----------------------------------------------------------------------------
(***************************************************************************)
(* The bound on finished jobs and the published count.  Both are promises  *)
(* for when everybody is through, so the invariant says who still has to   *)
(* do what: note an end, prune, or count again.                            *)
(***************************************************************************)
(* No two jobs ended at the same point of the clock.                       *)
EndsDiffer ==
  \A j, k \in Job : finishedAt[j] > 0 /\ finishedAt[j] = finishedAt[k] => j = k

(* Whoever gave a verdict notes the end of the job next.                   *)
EndIsNoted ==
  \A j \in Job :
    Finished(j) /\ finishedAt[j] = 0 =>
      \E t \in Thread : pc[t] = "finished" /\ Subject(t) = j

(* Too many recorded ends are somebody's to prune.                         *)
PruneIsDue ==
  Cardinality(Recorded) > MaxFinished => \E t \in Thread : pc[t] = "prune"

(* A change of the running jobs is somebody's to count.  Otherwise the     *)
(* count that is still to be stored, or the one that was, is right.        *)
Recounts == \E t \in Thread : pc[t] \in {"finished", "prune", "count"}

LastCount ==
  /\ \A t \in Thread : pc[t] = "store" =>
       /\ counted[t] = RunningCount
       /\ \A u \in Thread : pc[u] = "store" => u = t
  /\ (\A t \in Thread : pc[t] # "store") => published = RunningCount

CountIsDue == overtaking = {} => Recounts \/ LastCount

Settling == EndsDiffer /\ EndIsNoted /\ PruneIsDue /\ CountIsDue

(* What a step does that takes no part in finishing or publishing.         *)
Ending == {"finished", "prune", "count", "store"}

Aside ==
  /\ UNCHANGED <<registry, status, finishedAt, clock, counted, published, overtaking>>
  /\ \A t \in Thread :
       pc[t] \in Ending \/ pc'[t] \in Ending =>
         pc'[t] = pc[t] /\ Subject(t)' = Subject(t)

LEMMA StepKinds ==
  ASSUME IInv, Next
  PROVE  \/ \E t \in Thread : FinishStatus(t) \/ FinishAt(t) \/ Prune(t) \/ Count(t)
         \/ \E j \in Job : ReaperStores(j)
         \/ CallerStores
         \/ Start
         \/ Aside
<1>. USE DEF IInv, TypeOK, Job, Thread, Caller, Subject, Ending, Aside, records
<1>1. ASSUME NEW j \in Job, KillBegins(j), pc[Caller] = "idle" PROVE Aside
  <2>1. CASE j \in registry /\ Running(j)
    BY <1>1, <2>1 DEF KillBegins, Goto, observed
  <2>2. CASE ~(j \in registry /\ Running(j))
    BY <1>1, <2>2 DEF KillBegins, Goto, observed
  <2>3. QED
    BY <2>1, <2>2
<1>2. ASSUME NEW j \in Job, Kill(j) PROVE Aside
  BY ONLY <1>1, <1>2 DEF Kill
<1>3. CASE KillNext
  <2>1. PICK j \in todo : KillBegins(j)
    BY <1>3 DEF KillNext
  <2>2. QED
    BY <1>1, <1>3, <2>1 DEF KillNext
<1>4. CASE KillAll
  BY <1>4 DEF KillAll, observed
<1>5. CASE Signal
  BY <1>5 DEF Signal, Goto, observed
<1>6. ASSUME NEW j \in Job, Read(j) \/ LeaderExits(j) \/ MembersExit(j) \/ Prints(j) \/ Pump(j)
      PROVE  Aside
  BY <1>6 DEF Read, LeaderExits, MembersExit, Prints, Pump, observed
<1>7. ASSUME NEW j \in Job, ReaperWaits(j) PROVE Aside
  BY <1>7 DEF ReaperWaits, Goto, observed
<1>8. QED
  BY <1>2, <1>3, <1>4, <1>5, <1>6, <1>7
  DEF Next, CallerWorks, CallerCalls, Processes, Reaper, Finish

-----------------------------------------------------------------------------
LEMMA RegistryFinite ==
  ASSUME TypeOK
  PROVE  /\ registry \subseteq Job
         /\ Recorded \subseteq Job
         /\ IsFiniteSet(Job) /\ IsFiniteSet(Recorded)
         /\ Cardinality(Recorded) \in Nat
<1>1. registry \subseteq Job
  BY JobsAssumption DEF TypeOK, Job
<1>2. Recorded \subseteq Job
  BY <1>1 DEF Recorded
<1>3. IsFiniteSet(Job)
  BY FS_Interval, JobsAssumption DEF Job
<1>4. QED
  BY <1>1, <1>2, <1>3, FS_Subset, FS_CardinalityType

(* What a prune keeps is within the bound: each of them is told from the   *)
(* others by how many ended later, and that is less than MaxFinished.      *)
LEMMA PruneKeepsFew ==
  ASSUME TypeOK, EndsDiffer
  PROVE  Cardinality(Recorded \ Surplus) <= MaxFinished
<1>. DEFINE Kept == Recorded \ Surplus
            Later(j) == {k \in Recorded : finishedAt[k] > finishedAt[j]}
            Place == [j \in Kept |-> Cardinality(Later(j))]
<1>1. ASSUME NEW j \in Recorded
      PROVE  IsFiniteSet(Later(j)) /\ Cardinality(Later(j)) \in Nat
  BY RegistryFinite, FS_Subset, FS_CardinalityType
<1>2. ASSUME NEW j \in Kept PROVE Place[j] \in 0 .. MaxFinished - 1
  <2>1. j \in Recorded /\ ~(Cardinality(Later(j)) >= MaxFinished)
    BY DEF Surplus
  <2>2. Place[j] = Cardinality(Later(j)) /\ Cardinality(Later(j)) \in Nat
    BY <1>1, <2>1
  <2>3. QED
    BY <2>1, <2>2, JobsAssumption
<1>3. ASSUME NEW j \in Kept, NEW k \in Kept, finishedAt[j] < finishedAt[k]
      PROVE  Place[j] # Place[k]
  <2>1. j \in Job /\ k \in Job /\ finishedAt[j] \in Nat /\ finishedAt[k] \in Nat
    BY RegistryFinite DEF TypeOK
  <2>2. Later(k) \subseteq Later(j)
    <3>1. ASSUME NEW l \in Later(k) PROVE finishedAt[l] > finishedAt[j]
      <4>1. finishedAt[l] \in Nat /\ finishedAt[l] > finishedAt[k]
        BY RegistryFinite DEF TypeOK
      <4>2. QED
        BY <4>1, <2>1, <1>3
    <3>2. QED
      BY <3>1
  <2>3. k \in Later(j) /\ k \notin Later(k)
    BY <2>1, <1>3
  <2>4. Cardinality(Later(k)) # Cardinality(Later(j))
    BY <1>1, <2>2, <2>3, FS_Subset
  <2>5. QED
    BY <2>4
<1>4. ASSUME NEW j \in Kept, NEW k \in Kept, j # k PROVE Place[j] # Place[k]
  <2>1. /\ finishedAt[j] \in Nat /\ finishedAt[j] > 0
        /\ finishedAt[k] \in Nat /\ finishedAt[k] > 0
        /\ j \in Job /\ k \in Job
    BY RegistryFinite DEF TypeOK, Recorded
  <2>2. finishedAt[j] # finishedAt[k]
    BY <1>4, <2>1 DEF EndsDiffer
  <2>3. finishedAt[j] < finishedAt[k] \/ finishedAt[k] < finishedAt[j]
    BY <2>1, <2>2
  <2>4. QED
    BY <1>3, <2>3
<1>5. Place \in Injection(Kept, 0 .. MaxFinished - 1)
  <2>1. Place \in [Kept -> 0 .. MaxFinished - 1]
    BY <1>2
  <2>2. QED
    BY <1>4, <2>1 DEF Injection, IsInjective
<1>6. IsFiniteSet(0 .. MaxFinished - 1) /\ Cardinality(0 .. MaxFinished - 1) = MaxFinished
  BY FS_Interval, JobsAssumption
<1>7. Cardinality(Kept) <= MaxFinished
  <2>. HIDE DEF Place, Kept
  <2>. QED
    BY <1>5, <1>6, FS_Injection
<1>8. QED
  BY <1>7

-----------------------------------------------------------------------------
LEMMA EndsDifferStep ==
  ASSUME IInv, Settling, Next
  PROVE  EndsDiffer'
<1>1. CASE finishedAt' = finishedAt
  BY <1>1 DEF Settling, EndsDiffer
<1>2. ASSUME NEW t \in Thread, FinishAt(t) PROVE EndsDiffer'
  <2>1. PICK s \in Job : s = Subject(t)
    BY <1>2, SubjectExists DEF FinishAt
  <2>2. CASE finishedAt[s] # 0
    BY <1>1, <1>2, <2>1, <2>2 DEF FinishAt
  <2>3. CASE finishedAt[s] = 0
    <3>1. finishedAt' = [finishedAt EXCEPT ![s] = clock + 1]
      BY <1>2, <2>1, <2>3 DEF FinishAt
    <3>2. \A j \in Job : finishedAt'[j] = IF j = s THEN clock + 1 ELSE finishedAt[j]
      BY <3>1 DEF IInv, TypeOK
    <3>3. \A j \in Job : finishedAt[j] \in Nat /\ clock \in Nat /\ finishedAt[j] # clock + 1
      BY DEF IInv, TypeOK, Times
    <3>4. QED
      BY <3>2, <3>3 DEF Settling, EndsDiffer
  <2>4. QED
    BY <2>2, <2>3
<1>3. QED
  BY <1>1, <1>2, StepKinds
  DEF FinishStatus, Prune, Count, ReaperStores, CallerStores, Start, Aside, records

LEMMA EndIsNotedStep ==
  ASSUME IInv, Settling, Next
  PROVE  EndIsNoted'
<1>. DEFINE Noting(j) == \E t \in Thread : pc[t] = "finished" /\ Subject(t) = j
<1>. SUFFICES ASSUME NEW j \in Job, Finished(j)', finishedAt'[j] = 0
              PROVE  Noting(j)'
  BY DEF EndIsNoted
<1>. USE DEF Thread, Caller
<1>1. ASSUME Finished(j), finishedAt[j] = 0,
             \A t \in Thread : pc[t] = "finished" =>
               pc'[t] = "finished" /\ Subject(t)' = Subject(t)
      PROVE  Noting(j)'
  BY <1>1 DEF Settling, EndIsNoted
<1>2. ASSUME NEW t \in Thread, FinishStatus(t) PROVE Noting(j)'
  <2>1. /\ Subject(t) \in Job /\ pc' = [pc EXCEPT ![t] = "finished"]
        /\ finishedAt' = finishedAt /\ target' = target
    BY <1>2, SubjectExists DEF FinishStatus, Goto
  <2>2. pc'[t] = "finished" /\ Subject(t)' = Subject(t)
    BY <2>1 DEF IInv, TypeOK, Subject
  <2>3. CASE j = Subject(t)
    BY <2>2, <2>3
  <2>4. CASE j # Subject(t)
    <3>1. status'[j] = status[j]
      BY <1>2, <2>1, <2>4 DEF FinishStatus, IInv, TypeOK
    <3>2. Finished(j) /\ finishedAt[j] = 0
      BY <2>1, <3>1 DEF Finished
    <3>3. \A u \in Thread : pc[u] = "finished" =>
            pc'[u] = "finished" /\ Subject(u)' = Subject(u)
      BY <2>1 DEF IInv, TypeOK, Subject
    <3>4. QED
      BY <1>1, <3>2, <3>3
  <2>5. QED
    BY <2>3, <2>4
<1>3. ASSUME NEW t \in Thread, FinishAt(t) PROVE Noting(j)'
  <2>1. /\ Subject(t) \in Job /\ pc' = [pc EXCEPT ![t] = "prune"]
        /\ status' = status /\ target' = target
    BY <1>3, SubjectExists DEF FinishAt, Goto
  <2>2. j # Subject(t)
    <3>1. SUFFICES ASSUME j = Subject(t) PROVE FALSE
      OBVIOUS
    <3>2. CASE finishedAt[j] = 0
      <4>1. finishedAt'[j] = clock + 1 /\ clock \in Nat
        BY <1>3, <3>1, <3>2 DEF FinishAt, IInv, TypeOK
      <4>2. QED
        BY <4>1
    <3>3. CASE finishedAt[j] # 0
      BY <1>3, <3>1, <3>3 DEF FinishAt
    <3>4. QED
      BY <3>2, <3>3
  <2>3. finishedAt[j] = 0
    BY <1>3, <2>2 DEF FinishAt, IInv, TypeOK
  <2>4. PICK u \in Thread : pc[u] = "finished" /\ Subject(u) = j
    BY <2>1, <2>3 DEF Settling, EndIsNoted, Finished
  <2>5. u # t /\ pc'[u] = "finished" /\ Subject(u)' = j
    BY <2>1, <2>2, <2>4 DEF IInv, TypeOK, Subject
  <2>6. QED
    BY <2>5
<1>4. ASSUME NEW t \in Thread, Prune(t) \/ Count(t) PROVE Noting(j)'
  <2>1. /\ UNCHANGED <<status, finishedAt, target>>
        /\ pc[t] # "finished"
        /\ \A u \in Thread : u # t => pc'[u] = pc[u]
    BY <1>4 DEF Prune, Count, Goto, records, IInv, TypeOK
  <2>2. QED
    BY <1>1, <2>1 DEF Subject, Finished
<1>5. ASSUME NEW k \in Job, ReaperStores(k) PROVE Noting(j)'
  <2>1. /\ UNCHANGED <<status, finishedAt, target>>
        /\ pc[k] # "finished"
        /\ \A u \in Thread : u # k => pc'[u] = pc[u]
    BY <1>5 DEF ReaperStores, Goto, records, IInv, TypeOK
  <2>2. QED
    BY <1>1, <2>1 DEF Subject, Finished
<1>6. CASE CallerStores
  <2>1. /\ UNCHANGED <<status, finishedAt>> /\ pc[Caller] # "finished"
        /\ \A u \in Thread : pc[u] = "finished" => pc'[u] = "finished"
    BY <1>6 DEF CallerStores, Goto, records, IInv, TypeOK, Targeted
  <2>2. \A u \in Thread : pc[u] = "finished" => Subject(u)' = Subject(u)
    BY <2>1 DEF Subject
  <2>3. QED
    BY <1>1, <2>1, <2>2 DEF Finished
<1>7. CASE Start
  <2>1. j # next /\ status'[j] = status[j]
    BY <1>7 DEF Start, Finished, IInv, TypeOK
  <2>2. /\ finishedAt' = finishedAt /\ pc[Caller] # "finished"
        /\ \A u \in Thread : u # Caller => pc'[u] = pc[u]
    BY <1>7 DEF Start, Goto, IInv, TypeOK
  <2>3. QED
    BY <1>1, <2>1, <2>2 DEF Subject, Finished
<1>8. CASE Aside
  BY <1>1, <1>8 DEF Aside, Ending, Finished
<1>9. QED
  BY <1>2, <1>3, <1>4, <1>5, <1>6, <1>7, <1>8, StepKinds

LEMMA PruneIsDueStep ==
  ASSUME IInv, Settling, Next
  PROVE  PruneIsDue'
<1>1. ASSUME Recorded' = Recorded,
             \A t \in Thread : pc[t] = "prune" => pc'[t] = "prune"
      PROVE  PruneIsDue'
  BY <1>1 DEF Settling, PruneIsDue
<1>2. ASSUME NEW t \in Thread, FinishStatus(t) PROVE PruneIsDue'
  <2>1. Subject(t) \in Job
    BY <1>2, SubjectExists DEF FinishStatus
  <2>2. ASSUME NEW k \in registry
        PROVE  Finished(k)' /\ finishedAt[k] > 0 <=> Finished(k) /\ finishedAt[k] > 0
    <3>1. k \in Job
      BY RegistryFinite DEF IInv
    <3>2. finishedAt[k] > 0 => Finished(k)
      BY <3>1 DEF IInv, Times
    <3>3. Finished(k) => status'[k] = status[k]
      BY <1>2, <2>1, <3>1 DEF FinishStatus, Running, Finished, IInv, TypeOK
    <3>4. QED
      BY <3>2, <3>3 DEF Finished
  <2>3. Recorded' = Recorded
    BY <1>2, <2>2 DEF FinishStatus, Recorded
  <2>4. \A u \in Thread : pc[u] = "prune" => pc'[u] = "prune"
    BY <1>2 DEF FinishStatus, Goto, IInv, TypeOK
  <2>5. QED
    BY <1>1, <2>3, <2>4
<1>3. ASSUME NEW t \in Thread, FinishAt(t) PROVE PruneIsDue'
  <2>1. pc'[t] = "prune"
    BY <1>3 DEF FinishAt, Goto, IInv, TypeOK
  <2>2. QED
    BY <2>1 DEF PruneIsDue
<1>4. ASSUME NEW t \in Thread, Prune(t) PROVE PruneIsDue'
  <2>1. Recorded' = Recorded \ Surplus
    BY <1>4 DEF Prune, Recorded, Finished
  <2>2. Cardinality(Recorded \ Surplus) <= MaxFinished
    BY PruneKeepsFew DEF IInv, Settling
  <2>3. Cardinality(Recorded \ Surplus) \in Nat
    BY RegistryFinite, FS_Subset, FS_CardinalityType DEF IInv
  <2>4. QED
    BY <2>1, <2>2, <2>3, JobsAssumption DEF PruneIsDue
<1>5. ASSUME NEW t \in Thread, Count(t) PROVE PruneIsDue'
  <2>1. Recorded' = Recorded
    BY <1>5 DEF Count, records, Recorded, Finished
  <2>2. \A u \in Thread : pc[u] = "prune" => pc'[u] = "prune"
    BY <1>5 DEF Count, Goto, IInv, TypeOK
  <2>3. QED
    BY <1>1, <2>1, <2>2
<1>6. ASSUME NEW j \in Job, ReaperStores(j) PROVE PruneIsDue'
  <2>1. Recorded' = Recorded
    BY <1>6 DEF ReaperStores, records, Recorded, Finished
  <2>2. \A u \in Thread : pc[u] = "prune" => pc'[u] = "prune"
    BY <1>6 DEF ReaperStores, Goto, IInv, TypeOK
  <2>3. QED
    BY <1>1, <2>1, <2>2
<1>7. CASE CallerStores
  <2>1. Recorded' = Recorded
    BY <1>7 DEF CallerStores, records, Recorded, Finished
  <2>2. \A u \in Thread : pc[u] = "prune" => pc'[u] = "prune"
    BY <1>7 DEF CallerStores, Goto, IInv, TypeOK
  <2>3. QED
    BY <1>1, <2>1, <2>2
<1>8. CASE Start
  <2>1. next \in Job /\ finishedAt[next] = 0 /\ next \notin registry
    BY <1>8, JobsAssumption DEF Start, IInv, Unborn, TypeOK, Job
  <2>2. \A k \in registry : status'[k] = status[k]
    BY <1>8, <2>1, RegistryFinite DEF Start, IInv, TypeOK
  <2>3. Recorded' = Recorded
    BY <1>8, <2>1, <2>2 DEF Start, Recorded, Finished
  <2>4. \A u \in Thread : pc[u] = "prune" => pc'[u] = "prune"
    BY <1>8 DEF Start, Goto, IInv, TypeOK, Thread
  <2>5. QED
    BY <1>1, <2>3, <2>4
<1>9. CASE Aside
  BY <1>1, <1>9 DEF Aside, Ending, Recorded, Finished
<1>10. QED
  BY <1>2, <1>3, <1>4, <1>5, <1>6, <1>7, <1>8, <1>9, StepKinds

LEMMA CountIsDueStep ==
  ASSUME IInv, Settling, Next
  PROVE  CountIsDue'
<1>. SUFFICES ASSUME overtaking' = {} PROVE Recounts' \/ LastCount'
  BY DEF CountIsDue
<1>1. ASSUME NEW t \in Thread, FinishStatus(t) \/ FinishAt(t) \/ Prune(t)
      PROVE  Recounts'
  <2>1. pc'[t] \in {"finished", "prune", "count"}
    BY <1>1 DEF FinishStatus, FinishAt, Prune, Goto, IInv, TypeOK
  <2>2. QED
    BY <2>1 DEF Recounts
<1>2. CASE Start
  <2>1. pc'[Caller] = "count" /\ Caller \in Thread
    BY <1>2 DEF Start, Goto, IInv, TypeOK, Thread
  <2>2. QED
    BY <2>1 DEF Recounts
<1>3. ASSUME NEW t \in Thread, Count(t) PROVE LastCount'
  <2>1. /\ pc' = [pc EXCEPT ![t] = "store"]
        /\ counted' = [counted EXCEPT ![t] = RunningCount]
        /\ UNCHANGED <<registry, status>>
        /\ \A u \in Thread \ {t} : pc[u] # "store"
    BY <1>3 DEF Count, Goto, records
  <2>2. RunningCount' = RunningCount
    BY <2>1 DEF RunningCount, Running
  <2>3. pc'[t] = "store" /\ counted'[t] = RunningCount
    BY <2>1 DEF IInv, TypeOK
  <2>4. \A u \in Thread : pc'[u] = "store" => u = t
    BY <2>1 DEF IInv, TypeOK
  <2>5. QED
    BY <2>2, <2>3, <2>4 DEF LastCount
<1>4. ASSUME NEW t \in Thread, pc[t] = "store",
             published' = counted[t], UNCHANGED <<registry, status, overtaking>>,
             pc'[t] \notin Ending,
             \A u \in Thread : u # t => pc'[u] = pc[u] \/ {pc[u], pc'[u]} \cap Ending = {}
      PROVE  Recounts' \/ LastCount'
  <2>1. RunningCount' = RunningCount
    BY <1>4 DEF RunningCount, Running
  <2>2. CASE Recounts
    BY <1>4, <2>2 DEF Recounts, Ending
  <2>3. CASE LastCount
    <3>1. counted[t] = RunningCount /\ \A u \in Thread : pc[u] = "store" => u = t
      BY <1>4, <2>3 DEF LastCount
    <3>2. \A u \in Thread : pc'[u] # "store"
      BY <1>4, <3>1 DEF Ending
    <3>3. QED
      BY <1>4, <2>1, <3>1, <3>2 DEF LastCount
  <2>4. QED
    BY <1>4, <2>2, <2>3 DEF Settling, CountIsDue
<1>5. ASSUME NEW j \in Job, ReaperStores(j) PROVE Recounts' \/ LastCount'
  <2>1. /\ j \in Thread /\ pc[j] = "store" /\ published' = counted[j]
        /\ UNCHANGED <<registry, status, overtaking>> /\ pc' = [pc EXCEPT ![j] = "done"]
    BY <1>5 DEF ReaperStores, Goto, records, observed, Thread
  <2>2. /\ pc'[j] \notin Ending
        /\ \A u \in Thread : u # j => pc'[u] = pc[u]
    BY <2>1 DEF Ending, IInv, TypeOK
  <2>3. QED
    BY <1>4, <2>1, <2>2
<1>6. CASE CallerStores
  <2>1. /\ Caller \in Thread /\ pc[Caller] = "store" /\ published' = counted[Caller]
        /\ UNCHANGED <<registry, status, overtaking>>
        /\ target \in Job /\ target # Caller
    BY <1>6, JobsAssumption DEF CallerStores, records, Thread, IInv, Targeted, Job, Caller
  <2>2. CASE pc[target] = "unborn"
    <3>1. pc' = [pc EXCEPT ![Caller] = "idle", ![target] = "waiting"]
      BY <1>6, <2>2 DEF CallerStores
    <3>2. /\ pc'[Caller] \notin Ending
          /\ \A u \in Thread : u # Caller =>
               pc'[u] = pc[u] \/ {pc[u], pc'[u]} \cap Ending = {}
      BY <2>1, <2>2, <3>1 DEF Ending, IInv, TypeOK, Thread
    <3>3. QED
      BY <1>4, <2>1, <3>2
  <2>3. CASE pc[target] # "unborn"
    <3>1. pc' = [pc EXCEPT ![Caller] = "idle"]
      BY <1>6, <2>3 DEF CallerStores, Goto
    <3>2. pc'[Caller] \notin Ending /\ \A u \in Thread : u # Caller => pc'[u] = pc[u]
      BY <2>1, <3>1 DEF Ending, IInv, TypeOK
    <3>3. QED
      BY <1>4, <2>1, <3>2
  <2>4. QED
    BY <2>2, <2>3
<1>7. CASE Aside
  <2>1. RunningCount' = RunningCount
    BY <1>7 DEF Aside, RunningCount, Running
  <2>2. \A t \in Thread : pc[t] \in Ending \/ pc'[t] \in Ending => pc'[t] = pc[t]
    BY <1>7 DEF Aside
  <2>3. CASE Recounts
    BY <2>2, <2>3 DEF Recounts, Ending
  <2>4. CASE LastCount
    BY <1>7, <2>1, <2>2, <2>4 DEF Aside, LastCount, Ending
  <2>5. QED
    BY <1>7, <2>3, <2>4 DEF Settling, CountIsDue, Aside
<1>8. QED
  BY <1>1, <1>2, <1>3, <1>5, <1>6, <1>7, StepKinds

LEMMA InitSettling == Init => Settling
<1>. SUFFICES ASSUME Init PROVE Settling
  OBVIOUS
<1>1. EndsDiffer /\ EndIsNoted
  BY DEF Init, EndsDiffer, EndIsNoted, Finished
<1>2. PruneIsDue
  <2>1. Recorded = {}
    BY DEF Init, Recorded
  <2>2. Cardinality(Recorded) = 0
    BY <2>1, FS_EmptySet
  <2>3. QED
    BY <2>2, JobsAssumption DEF PruneIsDue
<1>3. CountIsDue
  <2>1. {j \in registry : Running(j)} = {}
    BY DEF Init
  <2>2. RunningCount = 0
    BY <2>1, FS_EmptySet DEF RunningCount
  <2>3. QED
    BY <2>2 DEF Init, CountIsDue, LastCount
<1>4. QED
  BY <1>1, <1>2, <1>3 DEF Settling

LEMMA NextSettling ==
  ASSUME IInv, Settling, [Next]_vars
  PROVE  Settling'
<1>1. CASE Next
  BY <1>1, EndsDifferStep, EndIsNotedStep, PruneIsDueStep, CountIsDueStep DEF Settling
<1>2. CASE UNCHANGED vars
  BY <1>2 DEF vars, records, observed, Settling, EndsDiffer, EndIsNoted, PruneIsDue,
     CountIsDue, LastCount, Recounts, RunningCount, Recorded, Running, Finished, Subject
<1>3. QED
  BY <1>1, <1>2

LEMMA SettlingHolds == Spec => [](IInv /\ Settling)
<1>1. Init => IInv /\ Settling
  BY InitIInv, InitSettling
<1>2. IInv /\ Settling /\ [Next]_vars => (IInv /\ Settling)'
  BY NextIInv, NextSettling
<1>3. QED
  BY <1>1, <1>2, PTL DEF Spec

(* However the prunes of jobs that end together overlap, no more than      *)
(* MaxFinished finished jobs are kept (jobs.rs:52-54, 352-368).            *)
THEOREM FinishedJobsAreFew == Spec => []FinishedBound
<1>1. ASSUME IInv, Settling PROVE FinishedBound
  <2>1. SUFFICES ASSUME Quiet
                 PROVE  Cardinality({j \in registry : Finished(j)}) <= MaxFinished
    BY DEF FinishedBound
  <2>2. registry \subseteq Job /\ Cardinality(Recorded) \in Nat
    BY <1>1, RegistryFinite DEF IInv
  <2>3. {j \in registry : Finished(j)} = Recorded
    <3>1. ASSUME NEW j \in registry, Finished(j) PROVE finishedAt[j] > 0
      <4>1. j \in Job /\ finishedAt[j] \in Nat
        BY <1>1, <2>2 DEF IInv, TypeOK
      <4>2. finishedAt[j] # 0
        BY <1>1, <2>1, <3>1, <4>1 DEF Settling, EndIsNoted, Quiet
      <4>3. QED
        BY <4>1, <4>2
    <3>2. QED
      BY <3>1 DEF Recorded
  <2>4. ~(Cardinality(Recorded) > MaxFinished)
    BY <1>1, <2>1 DEF Settling, PruneIsDue, Quiet
  <2>5. QED
    BY <2>2, <2>3, <2>4, JobsAssumption
<1>2. QED
  BY <1>1, SettlingHolds, PTL

(* With nobody about to publish, the number on the screen is the number of *)
(* running jobs, unless two publications overlapped (jobs.rs:199-202).     *)
THEOREM TheCountSettles == Spec => []CountSettles
<1>1. ASSUME IInv, Settling PROVE CountSettles
  BY <1>1 DEF Settling, CountIsDue, Recounts, LastCount, CountSettles, Quiet
<1>2. QED
  BY <1>1, SettlingHolds, PTL
-----------------------------------------------------------------------------
(***************************************************************************)
(* What a kill reaches, and how an exit comes to be noticed.               *)
(***************************************************************************)
Hands == {"count", "store"}

(* A reaper passes its wait when the leader is reaped, and gives or finds  *)
(* a verdict; until start has spawned it, start is still at work.          *)
Reaps(j) ==
  /\ pc[j] \notin {"idle", "signal"}
  /\ leader[j] = "reaped" <=> pc[j] \notin {"unborn", "waiting"}
  /\ pc[j] \in Ending \cup {"done"} => Finished(j)
  /\ status[j] = "exited" => leader[j] = "reaped"
  /\ pc[j] = "unborn" /\ status[j] # "none" => target = j /\ pc[Caller] \in Hands
  /\ KillOnExit /\ leader[j] \in {"zombie", "reaped"} => ~members[j]

Reaping == \A j \in Job : Reaps(j)

(* What the caller kills is finished once it has its verdict, and so is    *)
(* what it was answered about.                                             *)
Answering ==
  /\ pc[Caller] \in Ending => Finished(target) \/ pc[target] = "unborn"
  /\ answered \subseteq {j \in Job : Finished(j)}

LEMMA ReapingStep ==
  ASSUME IInv, Reaping, Answering, [Next]_vars
  PROVE  Reaping' /\ Answering'
<1>. USE JobsAssumption
     DEF IInv, TypeOK, Job, Thread, Caller, Places, Subject, Verdict, Running, Finished,
         Unborn, Targeted, Ending, Hands, Reaps, Reaping, Answering, Goto, records, processes,
         output, observed
<1>1. ASSUME NEW t \in Thread, FinishStatus(t) PROVE Reaping' /\ Answering'
  <2>1. PICK s \in Job : s = Subject(t) /\ status[s] # "none"
    BY <1>1, SubjectExists DEF FinishStatus
  <2>2. /\ \A k \in Job :
             status'[k] = IF k = s /\ status[k] = "running" THEN Verdict(t) ELSE status[k]
        /\ \A u \in Thread : pc'[u] = IF u = t THEN "finished" ELSE pc[u]
        /\ UNCHANGED <<leader, members, target, answered>>
    BY <1>1, <2>1 DEF FinishStatus
  <2>3. /\ \A k \in Job : Finished(k) => Finished(k)'
        /\ Finished(s)'
        /\ pc[t] = "status"
    BY <1>1, <2>1, <2>2 DEF FinishStatus
  <2>4. CASE t = Caller
    <3>1. /\ s = target /\ Verdict(t) = "killed" /\ pc[Caller] = "status"
          /\ \A k \in Job : pc'[k] = pc[k]
          /\ pc'[Caller] = "finished"
      BY <2>1, <2>2, <2>3, <2>4
    <3>2. ASSUME NEW k \in Job PROVE Reaps(k)'
      <4>1. Reaps(k)
        OBVIOUS
      <4>2. pc[k] = "unborn" => status[k] = "none"
        BY <4>1, <3>1
      <4>3. status'[k] = "none" <=> status[k] = "none"
        BY <2>2
      <4>4. status'[k] = "exited" => status[k] = "exited"
        BY <2>2, <3>1
      <4>5. pc'[k] = pc[k] /\ leader'[k] = leader[k] /\ members'[k] = members[k]
        BY <2>2, <3>1
      <4>6. Finished(k) => Finished(k)'
        BY <2>3
      <4>. HIDE DEF Finished, Ending, Reaping, IInv, Hands
      <4>7. QED
        BY <4>1, <4>2, <4>3, <4>4, <4>5, <4>6
    <3>3. QED
      BY <2>2, <2>3, <3>1, <3>2
  <2>5. CASE t # Caller
    <3>1. /\ t \in Job /\ s = t /\ Verdict(t) = "exited"
          /\ \A k \in Job : pc'[k] = IF k = s THEN "finished" ELSE pc[k]
          /\ pc'[Caller] = pc[Caller]
      BY <2>1, <2>2, <2>3, <2>5
    <3>2. ASSUME NEW k \in Job PROVE Reaps(k)'
      <4>1. CASE k = s
        <5>1. leader[s] = "reaped" /\ (KillOnExit => ~members[s])
          BY <2>3, <3>1
        <5>2. QED
          BY <2>2, <2>3, <3>1, <4>1, <5>1
      <4>2. CASE k # s
        <5>1. Reaps(k)
          OBVIOUS
        <5>2. /\ pc'[k] = pc[k] /\ leader'[k] = leader[k] /\ members'[k] = members[k]
              /\ status'[k] = status[k] /\ target' = target /\ pc'[Caller] = pc[Caller]
          BY <2>2, <3>1, <4>2
        <5>. HIDE DEF Ending, Reaping, IInv, Hands
        <5>3. QED
          BY <5>1, <5>2
      <4>3. QED
        BY <4>1, <4>2
    <3>3. QED
      BY <2>2, <2>3, <3>1, <3>2
  <2>6. QED
    BY <2>4, <2>5
<1>2. ASSUME NEW t \in Thread, FinishAt(t) PROVE Reaping' /\ Answering'
  BY <1>2 DEF FinishAt
<1>3. ASSUME NEW t \in Thread, Prune(t) PROVE Reaping' /\ Answering'
  BY <1>3 DEF Prune
<1>4. ASSUME NEW t \in Thread, Count(t) PROVE Reaping' /\ Answering'
  BY <1>4 DEF Count
<1>5. ASSUME NEW j \in Job, ReaperStores(j) PROVE Reaping' /\ Answering'
  <2>1. /\ pc[j] = "store"
        /\ \A u \in Thread : pc'[u] = IF u = j THEN "done" ELSE pc[u]
        /\ pc'[Caller] = pc[Caller]
        /\ UNCHANGED <<status, leader, members, target, answered>>
    BY <1>5 DEF ReaperStores
  <2>2. Reaping'
    <3>. SUFFICES ASSUME NEW k \in Job PROVE Reaps(k)'
      OBVIOUS
    <3>1. pc'[k] \notin {"idle", "signal"}
      BY <2>1
    <3>2. leader'[k] = "reaped" <=> pc'[k] \notin {"unborn", "waiting"}
      BY <2>1
    <3>3. pc'[k] \in Ending \cup {"done"} => Finished(k)'
      BY <2>1
    <3>4. status'[k] = "exited" => leader'[k] = "reaped"
      BY <2>1
    <3>5. pc'[k] = "unborn" /\ status'[k] # "none" => target' = k /\ pc'[Caller] \in Hands
      <4>1. pc'[k] = "unborn" => pc[k] = "unborn"
        BY <2>1
      <4>2. pc[k] = "unborn" /\ status[k] # "none" => target = k /\ pc[Caller] \in Hands
        BY DEF Reaps
      <4>. HIDE DEF Hands, Reaps, Reaping, IInv, Unborn
      <4>3. QED
        BY <2>1, <4>1, <4>2
    <3>6. KillOnExit /\ leader'[k] \in {"zombie", "reaped"} => ~members'[k]
      BY <2>1
    <3>7. QED
      BY <3>1, <3>2, <3>3, <3>4, <3>5, <3>6 DEF Reaps
  <2>3. Answering'
    BY <2>1
  <2>4. QED
    BY <2>2, <2>3
<1>6. CASE CallerStores
  <2>1. /\ pc[Caller] = "store" /\ target \in Job /\ target' = 0
        /\ UNCHANGED <<status, leader, members>>
    BY <1>6 DEF CallerStores
  <2>2. CASE pc[target] = "unborn"
    <3>1. /\ answered' = answered
          /\ \A u \in Thread : pc'[u] = IF u = Caller THEN "idle"
                                        ELSE IF u = target THEN "waiting" ELSE pc[u]
      BY <1>6, <2>1, <2>2 DEF CallerStores
    <3>2. Reaping'
      <4>. SUFFICES ASSUME NEW k \in Job PROVE Reaps(k)'
        OBVIOUS
      <4>1. pc'[k] \notin {"idle", "signal"}
        <5>1. pc[k] \notin {"idle", "signal"} /\ k \in Thread /\ k # Caller
          BY DEF Reaps
        <5>. HIDE DEF Reaps, Reaping, IInv, Thread, Job, Caller
        <5>2. QED
          BY <2>1, <2>2, <3>1, <5>1
      <4>2. leader'[k] = "reaped" <=> pc'[k] \notin {"unborn", "waiting"}
        BY <2>1, <2>2, <3>1
      <4>3. pc'[k] \in Ending \cup {"done"} => Finished(k)'
        BY <2>1, <2>2, <3>1
      <4>4. status'[k] = "exited" => leader'[k] = "reaped"
        BY <2>1, <2>2, <3>1
      <4>5. pc'[k] = "unborn" /\ status'[k] # "none" => target' = k /\ pc'[Caller] \in Hands
        BY <2>1, <2>2, <3>1
      <4>6. KillOnExit /\ leader'[k] \in {"zombie", "reaped"} => ~members'[k]
        BY <2>1, <2>2, <3>1
      <4>7. QED
        BY <4>1, <4>2, <4>3, <4>4, <4>5, <4>6 DEF Reaps
    <3>3. Answering'
      BY <2>1, <2>2, <3>1
    <3>4. QED
      BY <3>2, <3>3
  <2>3. CASE pc[target] # "unborn"
    <3>1. /\ answered' = answered \cup {target}
          /\ \A u \in Thread : pc'[u] = IF u = Caller THEN "idle" ELSE pc[u]
      BY <1>6, <2>1, <2>3 DEF CallerStores
    <3>2. Reaping'
      <4>. SUFFICES ASSUME NEW k \in Job PROVE Reaps(k)'
        OBVIOUS
      <4>1. pc'[k] \notin {"idle", "signal"}
        <5>1. pc[k] \notin {"idle", "signal"} /\ k \in Thread /\ k # Caller
          BY DEF Reaps
        <5>. HIDE DEF Reaps, Reaping, IInv, Thread, Job, Caller
        <5>2. QED
          BY <2>1, <2>3, <3>1, <5>1
      <4>2. leader'[k] = "reaped" <=> pc'[k] \notin {"unborn", "waiting"}
        BY <2>1, <2>3, <3>1
      <4>3. pc'[k] \in Ending \cup {"done"} => Finished(k)'
        BY <2>1, <2>3, <3>1
      <4>4. status'[k] = "exited" => leader'[k] = "reaped"
        BY <2>1, <2>3, <3>1
      <4>5. pc'[k] = "unborn" /\ status'[k] # "none" => target' = k /\ pc'[Caller] \in Hands
        BY <2>1, <2>3, <3>1
      <4>6. KillOnExit /\ leader'[k] \in {"zombie", "reaped"} => ~members'[k]
        BY <2>1, <2>3, <3>1
      <4>7. QED
        BY <4>1, <4>2, <4>3, <4>4, <4>5, <4>6 DEF Reaps
    <3>3. Answering'
      BY <2>1, <2>3, <3>1
    <3>4. QED
      BY <3>2, <3>3
  <2>4. QED
    BY <2>2, <2>3
<1>7. ASSUME NEW j \in Job, ReaperWaits(j) PROVE Reaping' /\ Answering'
  BY <1>7 DEF ReaperWaits
<1>8. CASE Start
  <2>1. /\ next \in Job /\ target' = next /\ pc[Caller] = "idle"
        /\ status[next] = "none" /\ pc[next] = "unborn"
        /\ \A j \in Job : status'[j] = IF j = next THEN "running" ELSE status[j]
        /\ \A j \in Job : leader'[j] = IF j = next THEN "alive" ELSE leader[j]
        /\ \A j \in Job : j # next => members'[j] = members[j]
        /\ \A u \in Thread : pc'[u] = IF u = Caller THEN "count" ELSE pc[u]
        /\ answered' = answered
    BY <1>8 DEF Start
  <2>2. Reaping'
    <3>. SUFFICES ASSUME NEW k \in Job PROVE Reaps(k)'
      OBVIOUS
    <3>1. pc'[k] \notin {"idle", "signal"}
      BY <2>1
    <3>2. leader'[k] = "reaped" <=> pc'[k] \notin {"unborn", "waiting"}
      BY <2>1
    <3>3. pc'[k] \in Ending \cup {"done"} => Finished(k)'
      BY <2>1
    <3>4. status'[k] = "exited" => leader'[k] = "reaped"
      BY <2>1
    <3>5. pc'[k] = "unborn" /\ status'[k] # "none" => target' = k /\ pc'[Caller] \in Hands
      BY <2>1
    <3>6. KillOnExit /\ leader'[k] \in {"zombie", "reaped"} => ~members'[k]
      BY <2>1
    <3>7. QED
      BY <3>1, <3>2, <3>3, <3>4, <3>5, <3>6 DEF Reaps
  <2>3. Answering'
    BY <2>1
  <2>4. QED
    BY <2>2, <2>3
<1>9. ASSUME NEW j \in Job, KillBegins(j), pc[Caller] = "idle" PROVE Reaping' /\ Answering'
  <2>1. UNCHANGED <<status, leader, members>>
    BY <1>9 DEF KillBegins
  <2>2. CASE j \in registry /\ Running(j)
    <3>1. /\ target' = j /\ answered' = answered
          /\ \A u \in Thread : pc'[u] = IF u = Caller THEN "signal" ELSE pc[u]
      BY <1>9, <2>2 DEF KillBegins
    <3>2. Reaping'
      <4>. SUFFICES ASSUME NEW k \in Job PROVE Reaps(k)'
        OBVIOUS
      <4>1. pc'[k] \notin {"idle", "signal"}
        BY <1>9, <2>1, <3>1
      <4>2. leader'[k] = "reaped" <=> pc'[k] \notin {"unborn", "waiting"}
        BY <1>9, <2>1, <3>1
      <4>3. pc'[k] \in Ending \cup {"done"} => Finished(k)'
        BY <1>9, <2>1, <3>1
      <4>4. status'[k] = "exited" => leader'[k] = "reaped"
        BY <1>9, <2>1, <3>1
      <4>5. pc'[k] = "unborn" /\ status'[k] # "none" => target' = k /\ pc'[Caller] \in Hands
        BY <1>9, <2>1, <3>1
      <4>6. KillOnExit /\ leader'[k] \in {"zombie", "reaped"} => ~members'[k]
        BY <1>9, <2>1, <3>1
      <4>7. QED
        BY <4>1, <4>2, <4>3, <4>4, <4>5, <4>6 DEF Reaps
    <3>3. Answering'
      BY <1>9, <2>1, <3>1
    <3>4. QED
      BY <3>2, <3>3
  <2>3. CASE ~(j \in registry /\ Running(j))
    <3>1. UNCHANGED <<pc, target>> /\ answered' = answered \cup (registry \cap {j})
      BY <1>9, <2>3 DEF KillBegins
    <3>2. j \in registry => Finished(j)
      BY <2>3
    <3>3. QED
      BY <2>1, <3>1, <3>2
  <2>4. QED
    BY <2>2, <2>3
<1>10. CASE KillNext
  BY <1>9, <1>10 DEF KillNext
<1>11. ASSUME NEW j \in Job, Kill(j) PROVE Reaping' /\ Answering'
  BY <1>9, <1>11 DEF Kill
<1>12. CASE Signal
  BY <1>12 DEF Signal
<1>13. ASSUME NEW j \in Job, LeaderExits(j) \/ MembersExit(j) PROVE Reaping' /\ Answering'
  BY <1>13 DEF LeaderExits, MembersExit
<1>14. CASE \/ KillAll \/ UNCHANGED vars
            \/ \E j \in Job : Read(j) \/ Prints(j) \/ Pump(j)
  BY <1>14 DEF KillAll, Read, Prints, Pump, vars
<1>15. QED
  BY <1>1, <1>2, <1>3, <1>4, <1>5, <1>6, <1>7, <1>8, <1>10, <1>11, <1>12, <1>13, <1>14
  DEF Next, CallerWorks, CallerCalls, Processes, Reaper, Finish

LEMMA ReapingHolds == Spec => [](IInv /\ Reaping /\ Answering)
<1>1. Init => Reaping /\ Answering
  BY JobsAssumption
  DEF Init, Reaping, Reaps, Answering, Job, Thread, Caller, Finished, Ending, Hands
<1>2. IInv /\ Reaping /\ Answering /\ [Next]_vars => Reaping' /\ Answering'
  BY ReapingStep
<1>3. QED
  BY <1>1, <1>2, InductiveInvariant, PTL DEF Spec

(* Once a kill is answered the job is dead, whether it had ended already   *)
(* or not; and under proot so is everything it started, as jobs.rs:321     *)
(* says.                                                                   *)
THEOREM KillsReachEverything ==
  Spec => /\ [](\A j \in answered : leader[j] # "alive")
          /\ [](KillOnExit => KillReachesEverything)
<1>1. IInv /\ Reaping /\ Answering => \A j \in answered : leader[j] # "alive"
  BY DEF Reaping, Reaps, Answering, IInv, KilledMeansDead, Finished
<1>2. IInv /\ Reaping /\ Answering => (KillOnExit => KillReachesEverything)
  BY <1>1 DEF Reaping, Reaps, Answering, IInv, KilledMeansDead, KillReachesEverything, Finished
<1>3. QED
  BY <1>1, <1>2, ReapingHolds, PTL

(* Where the reaper of j is when j has exited and has no verdict yet: free *)
(* to give it, free to reap unless other reapers, none of which waits for  *)
(* anything, have all the workers, or about to be spawned by a start that  *)
(* has only its count to publish.                                          *)
InHand(j) ==
  \/ pc[j] = "status"
  \/ pc[j] = "waiting" /\ leader[j] = "zombie" /\ (Cardinality(Busy) < Workers \/ Busy # {})
  \/ pc[j] = "unborn" /\ target = j /\ pc[Caller] \in Hands

(* The steps a reaper has before it.                                       *)
Left(j) ==
  CASE pc[j] = "unborn"   -> 7
    [] pc[j] = "waiting"  -> 6
    [] pc[j] = "status"   -> 5
    [] pc[j] = "finished" -> 4
    [] pc[j] = "prune"    -> 3
    [] pc[j] = "count"    -> 2
    [] pc[j] = "store"    -> 1
    [] OTHER              -> 0

LEMMA BusyOrFree == Cardinality(Busy) < Workers \/ Busy # {}
<1>1. Busy = {} => Cardinality(Busy) < Workers
  BY FS_EmptySet, JobsAssumption
<1>2. QED
  BY <1>1

LEMMA ReapersOnly ==
  ASSUME IInv, [Next]_vars, NEW j \in Job
  PROVE  \/ Reaper(j)
         \/ pc'[j] = pc[j]
         \/ pc[j] = "unborn" /\ pc'[j] = "waiting"
<1>. USE DEF IInv, TypeOK, Job, Thread, Caller, Goto
<1>. j \in Thread /\ j # Caller
  OBVIOUS
<1>1. ASSUME NEW t \in Thread, Finish(t) PROVE pc'[j] = pc[j] \/ (t = j /\ Reaper(j))
  BY <1>1 DEF Finish, FinishStatus, FinishAt, Prune, Count, Reaper
<1>2. ASSUME NEW k \in Job, Reaper(k) PROVE pc'[j] = pc[j] \/ k = j
  <2>1. CASE Finish(k)
    BY <1>1, <2>1
  <2>2. CASE ReaperWaits(k) \/ ReaperStores(k)
    BY <2>2 DEF ReaperWaits, ReaperStores
  <2>3. QED
    BY <1>2, <2>1, <2>2 DEF Reaper
<1>3. CASE CallerStores
  BY <1>3 DEF CallerStores
<1>4. CASE KillNext \/ Signal \/ Start \/ KillAll \/ \E k \in Job : Kill(k) \/ Read(k)
  BY <1>4 DEF KillNext, Kill, KillBegins, Signal, Start, KillAll, Read
<1>5. CASE Processes \/ UNCHANGED vars
  BY <1>5 DEF Processes, LeaderExits, MembersExit, Prints, Pump, vars
<1>6. QED
  BY <1>1, <1>2, <1>3, <1>4, <1>5 DEF Next, CallerWorks, CallerCalls

(* A job that exited has its verdict or is in hand.                        *)
Attended == \A j \in Job : leader[j] \in {"zombie", "reaped"} => Finished(j) \/ InHand(j)

(* Every step of a reaper brings it nearer the end, nobody's takes it back. *)
ReapersAdvance == \A j \in Job : Left(j)' <= Left(j) /\ (Reaper(j) => Left(j)' < Left(j))

(* What of EveryExitNoticed is safety (jobs.rs:240-253): no job that exited *)
(* is lost sight of, and the six steps its reaper takes, once it is        *)
(* spawned, are all that lies between it and the end.                      *)
THEOREM ExitsAreInHand == Spec => []Attended /\ [][ReapersAdvance]_vars
<1>1. ASSUME IInv, Reaping, NEW j \in Job, leader[j] \in {"zombie", "reaped"}, ~Finished(j)
      PROVE  InHand(j)
  <2>1. Reaps(j) /\ pc[j] \in Places
    BY <1>1 DEF Reaping, IInv, TypeOK, Thread
  <2>2. pc[j] \in {"unborn", "waiting", "status"}
    BY <1>1, <2>1 DEF Reaps, Ending, Places
  <2>3. CASE pc[j] = "waiting"
    BY <1>1, <2>1, <2>3, BusyOrFree DEF Reaps, InHand
  <2>4. CASE pc[j] = "unborn"
    <3>1. status[j] # "none"
      BY <1>1, JobsAssumption DEF IInv, Unborn, TypeOK, Job
    <3>2. QED
      BY <2>1, <2>4, <3>1 DEF Reaps, InHand
  <2>5. QED
    BY <2>2, <2>3, <2>4 DEF InHand
<1>2. ASSUME IInv, [Next]_vars, NEW j \in Job
      PROVE  Left(j)' <= Left(j) /\ (Reaper(j) => Left(j)' < Left(j))
  <2>1. Left(j) \in Nat /\ Left(j)' \in Nat
    BY DEF Left
  <2>2. ASSUME Reaper(j) PROVE Left(j)' < Left(j)
    <3>. j \in Thread
      BY DEF Job, Thread
    <3>1. \/ pc[j] = "waiting"  /\ pc'[j] = "status"
          \/ pc[j] = "status"   /\ pc'[j] = "finished"
          \/ pc[j] = "finished" /\ pc'[j] = "prune"
          \/ pc[j] = "prune"    /\ pc'[j] = "count"
          \/ pc[j] = "count"    /\ pc'[j] = "store"
          \/ pc[j] = "store"    /\ pc'[j] = "done"
      BY <1>2, <2>2
      DEF IInv, TypeOK, Goto, Reaper, Finish, ReaperWaits, FinishStatus, FinishAt, Prune, Count,
          ReaperStores
    <3>2. QED
      BY <3>1 DEF Left
  <2>3. CASE pc'[j] = pc[j]
    BY <2>1, <2>2, <2>3 DEF Left
  <2>4. CASE pc[j] = "unborn" /\ pc'[j] = "waiting"
    BY <2>2, <2>4 DEF Left
  <2>5. QED
    BY <1>2, <2>1, <2>2, <2>3, <2>4, ReapersOnly
<1>3. IInv /\ Reaping => Attended
  BY <1>1 DEF Attended
<1>4. IInv /\ [Next]_vars => ReapersAdvance
  BY <1>2 DEF ReapersAdvance
<1>5. QED
  BY <1>3, <1>4, ReapingHolds, PTL DEF Spec
=============================================================================
