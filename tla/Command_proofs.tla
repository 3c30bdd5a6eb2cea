--------------------------- MODULE Command_proofs ---------------------------
(***************************************************************************)
(* What Command guarantees for any amount of output, any size of a pipe    *)
(* and any number of stops.                                                *)
(***************************************************************************)
EXTENDS Command, TLAPS

(* Nothing is printed, read or returned twice.                             *)
Counts ==
  \A s \in Streams :
    /\ todo[s] + pipe[s] + read[s] <= MaxPrints
    /\ got[s] <= read[s]

(* Before there is a process there is nothing.                             *)
Unspawned ==
  /\ pc = "spawn" => leader = "none"
  /\ leader = "none" =>
       /\ pc \in {"spawn", "reported"}
       /\ verdict = "none" /\ outcome \in {"none", "failed"}
       /\ member = "none" /\ escaped = "none"
       /\ \A s \in Streams : pipe[s] = 0 /\ read[s] = 0 /\ got[s] = 0

(* The select ends with a verdict, and the command with the select.        *)
Decided ==
  /\ pc = "select" => leader \in {"alive", "zombie"} /\ verdict = "none"
  /\ leader = "alive" => pc = "select"
  /\ pc = "reap" => leader = "zombie" /\ verdict \in {"timeout", "stopped"}
  /\ pc \in {"drainOut", "drainErr", "report"} => verdict # "none"
  /\ outcome \in {"stopped", "timed out", "ended"} => verdict # "none"
  /\ verdict # "none" => pc \notin {"spawn", "select"}

(* What a kill leaves, and what an exit under proot leaves.                *)
Killed ==
  /\ verdict \in {"timeout", "stopped"} => member # "alive"
  /\ proot /\ leader \in {"zombie", "reaped"} /\ verdict \in {"none", "exited"} =>
       member # "alive" /\ escaped # "alive"

(* A reader ends when nobody is left to print.                             *)
Ended ==
  \A s \in Streams :
    reader[s] = "ended" => pipe[s] = 0 /\ leader \in {"zombie", "reaped"}
                           /\ member # "alive" /\ escaped # "alive"

Past(s) ==
  IF s = "out" THEN pc \in {"drainErr", "report", "reported"}
               ELSE pc \in {"report", "reported"}

(* A stream is whole once it is drained, unless something outlived.        *)
Drained ==
  \A s \in Streams :
    Past(s) /\ leader # "none" /\ ~Outlived =>
      reader[s] = "ended" /\ got[s] = read[s]

(* A Notified is not ahead of the calls, and one that waits for no call to *)
(* come is not flagged.                                                    *)
Woken ==
  /\ seen <= calls
  /\ stopper = "flagged" => calls < MaxStops
  /\ NoLostWakeUp

IInv ==
  /\ TypeOK
  /\ Counts
  /\ Unspawned
  /\ Decided
  /\ Killed
  /\ Ended
  /\ Drained
  /\ Woken

-----------------------------------------------------------------------------
LEMMA InitIInv == Init => IInv
<1>. SUFFICES ASSUME Init PROVE IInv
  OBVIOUS
<1>. USE CommandAssumption DEF Init, Streams, Life
<1>1. {proot, limited, stoppable, hangs, passed, flagged} \subseteq BOOLEAN
  BY Zenon
<1>2. TypeOK
  BY <1>1 DEF TypeOK
<1>3. Counts /\ Unspawned /\ Decided /\ Killed /\ Ended /\ Drained /\ Woken
  BY DEF Counts, Unspawned, Decided, Killed, Ended, Drained, Past, Woken, NoLostWakeUp
<1>4. QED
  BY <1>2, <1>3 DEF IInv

LEMMA Shapes ==
  ASSUME IInv
  PROVE  /\ todo \in [Streams -> 0 .. MaxPrints] /\ pipe \in [Streams -> 0 .. PipeSize]
         /\ read \in [Streams -> 0 .. MaxPrints] /\ got \in [Streams -> 0 .. MaxPrints]
         /\ calls \in 0 .. MaxStops /\ seen \in 0 .. MaxStops
         /\ MaxPrints \in Nat /\ PipeSize \in Nat /\ MaxStops \in Nat
BY CommandAssumption DEF IInv, TypeOK

LEMMA Numbers ==
  ASSUME IInv, NEW s \in Streams
  PROVE  /\ todo[s] \in Nat /\ pipe[s] \in Nat /\ read[s] \in Nat /\ got[s] \in Nat
         /\ MaxPrints \in Nat /\ PipeSize \in Nat
         /\ todo[s] + pipe[s] + read[s] <= MaxPrints
         /\ got[s] <= read[s]
         /\ pipe[s] <= PipeSize
<1>1. todo[s] \in 0 .. MaxPrints /\ pipe[s] \in 0 .. PipeSize /\ read[s] \in 0 .. MaxPrints
      /\ got[s] \in 0 .. MaxPrints
  BY Shapes
<1>2. todo[s] + pipe[s] + read[s] <= MaxPrints /\ got[s] <= read[s]
  BY DEF IInv, Counts
<1>3. QED
  BY <1>1, <1>2, Shapes

(* A piece moves from the command to the pipe.                             *)
LEMMA PrintsMoves ==
  ASSUME IInv, NEW s \in Streams, Prints(s)
  PROVE  /\ todo' \in [Streams -> 0 .. MaxPrints] /\ pipe' \in [Streams -> 0 .. PipeSize]
         /\ Counts'
<1>1. /\ todo' = [todo EXCEPT ![s] = todo[s] - 1]
      /\ pipe' = [pipe EXCEPT ![s] = pipe[s] + 1]
      /\ todo[s] > 0 /\ pipe[s] < PipeSize
      /\ read' = read /\ got' = got
  BY DEF Prints, readers, result
<1>2. todo[s] - 1 \in 0 .. MaxPrints /\ pipe[s] + 1 \in 0 .. PipeSize
  BY <1>1, Numbers
<1>3. ASSUME NEW t \in Streams
      PROVE  todo'[t] + pipe'[t] + read'[t] <= MaxPrints /\ got'[t] <= read'[t]
  <2>1. CASE t = s
    <3>1. todo'[t] = todo[t] - 1 /\ pipe'[t] = pipe[t] + 1
      BY <1>1, <2>1, Shapes
    <3>2. QED
      BY <1>1, <3>1, Numbers
  <2>2. CASE t # s
    <3>1. todo'[t] = todo[t] /\ pipe'[t] = pipe[t]
      BY <1>1, <2>2, Shapes
    <3>2. QED
      BY <1>1, <3>1, Numbers
  <2>3. QED
    BY <2>1, <2>2
<1>4. todo' \in [Streams -> 0 .. MaxPrints] /\ pipe' \in [Streams -> 0 .. PipeSize]
  BY <1>1, <1>2, Shapes
<1>5. QED
  BY <1>3, <1>4 DEF Counts

(* A piece moves from the pipe to the reader.                              *)
LEMMA ReadsMoves ==
  ASSUME IInv, NEW s \in Streams, Reads(s)
  PROVE  /\ pipe' \in [Streams -> 0 .. PipeSize] /\ read' \in [Streams -> 0 .. MaxPrints]
         /\ Counts'
<1>1. /\ pipe' = [pipe EXCEPT ![s] = pipe[s] - 1]
      /\ read' = [read EXCEPT ![s] = read[s] + 1]
      /\ pipe[s] > 0
      /\ todo' = todo /\ got' = got
  BY DEF Reads, result
<1>2. pipe[s] - 1 \in 0 .. PipeSize /\ read[s] + 1 \in 0 .. MaxPrints
  BY <1>1, Numbers
<1>3. ASSUME NEW t \in Streams
      PROVE  todo'[t] + pipe'[t] + read'[t] <= MaxPrints /\ got'[t] <= read'[t]
  <2>1. CASE t = s
    <3>1. pipe'[t] = pipe[t] - 1 /\ read'[t] = read[t] + 1
      BY <1>1, <2>1, Shapes
    <3>2. QED
      BY <1>1, <3>1, Numbers
  <2>2. CASE t # s
    <3>1. pipe'[t] = pipe[t] /\ read'[t] = read[t]
      BY <1>1, <2>2, Shapes
    <3>2. QED
      BY <1>1, <3>1, Numbers
  <2>3. QED
    BY <2>1, <2>2
<1>4. pipe' \in [Streams -> 0 .. PipeSize] /\ read' \in [Streams -> 0 .. MaxPrints]
  BY <1>1, <1>2, Shapes
<1>5. QED
  BY <1>3, <1>4 DEF Counts

(* The result takes what the reader has.                                   *)
LEMMA DrainsTakes ==
  ASSUME IInv, NEW s \in Streams, Drains(s)
  PROVE  Counts'
<1>1. /\ got' = [got EXCEPT ![s] = read[s]]
      /\ todo' = todo /\ pipe' = pipe /\ read' = read
  BY DEF Drains, output, readers
<1>2. ASSUME NEW t \in Streams
      PROVE  todo'[t] + pipe'[t] + read'[t] <= MaxPrints /\ got'[t] <= read'[t]
  <2>1. got'[t] = IF t = s THEN read[t] ELSE got[t]
    BY <1>1, Shapes
  <2>2. QED
    BY <1>1, <2>1, Numbers
<1>3. QED
  BY <1>2 DEF Counts

(* A call is counted after the flag is set.                                *)
LEMMA NotifyCounts ==
  ASSUME IInv, Notify
  PROVE  calls' \in 0 .. MaxStops /\ seen' <= calls' /\ calls' > seen'
<1>1. calls < MaxStops /\ seen <= calls /\ calls' = calls + 1 /\ seen' = seen
  BY DEF IInv, Woken, Notify, wait
<1>2. QED
  BY <1>1, Shapes

(* A Notified has seen every call that was made.                           *)
LEMMA RegistersCounts ==
  ASSUME IInv, Registers
  PROVE  seen' <= calls' /\ calls' = calls
<1>1. seen' = calls /\ calls' = calls
  BY DEF Registers, stop
<1>2. QED
  BY <1>1, Shapes

(* What leaves the caller and its result alone stays within the types.     *)
LEMMA FrameTyped ==
  ASSUME TypeOK,
         member' \in Life, escaped' \in Life,
         calls' \in 0 .. MaxStops, stopper' \in {"idle", "flagged"},
         pipe' \in [Streams -> 0 .. PipeSize], read' \in [Streams -> 0 .. MaxPrints],
         reader' \in [Streams -> {"reads", "ended"}],
         UNCHANGED <<proot, limited, stoppable, hangs, leader, todo>>,
         UNCHANGED <<pc, verdict, got, outcome, passed, flagged, waiter, seen>>
  PROVE  TypeOK'
<1>1. /\ {proot, limited, stoppable, hangs, passed, flagged}' \subseteq BOOLEAN
      /\ leader' \in {"none", "alive", "zombie", "reaped"}
      /\ {member, escaped}' \subseteq Life
  BY DEF TypeOK
<1>2. todo' \in [Streams -> 0 .. MaxPrints] /\ got' \in [Streams -> 0 .. MaxPrints]
  BY DEF TypeOK
<1>3. /\ pc' \in {"spawn", "select", "reap", "drainOut", "drainErr", "report", "reported"}
      /\ verdict' \in {"none", "exited", "timeout", "stopped"}
      /\ outcome' \in {"none", "failed", "stopped", "timed out", "ended"}
      /\ waiter' \in {"looks", "registers", "looksAgain", "waits", "sees"}
      /\ seen' \in 0 .. MaxStops
      /\ pc' \in {"drainOut", "drainErr", "report", "reported"} => leader' \in {"none", "reaped"}
  BY DEF TypeOK
<1>4. QED
  BY ONLY <1>1, <1>2, <1>3, calls' \in 0 .. MaxStops, stopper' \in {"idle", "flagged"},
          pipe' \in [Streams -> 0 .. PipeSize], read' \in [Streams -> 0 .. MaxPrints],
          reader' \in [Streams -> {"reads", "ended"}]
  DEF TypeOK

(* So do the other processes and the Stop button ...                       *)
LEMMA OthersTyped ==
  ASSUME TypeOK,
         member' \in Life, escaped' \in Life,
         calls' \in 0 .. MaxStops, stopper' \in {"idle", "flagged"},
         UNCHANGED <<proot, limited, stoppable, hangs, leader, todo, pipe>>,
         UNCHANGED <<pc, verdict, reader, read, got, outcome, passed, flagged, waiter, seen>>
  PROVE  TypeOK'
<1>1. /\ pipe' \in [Streams -> 0 .. PipeSize] /\ read' \in [Streams -> 0 .. MaxPrints]
      /\ reader' \in [Streams -> {"reads", "ended"}]
  BY DEF TypeOK
<1>2. QED
  BY <1>1, FrameTyped

(* ... and the readers.                                                    *)
LEMMA ReadersTyped ==
  ASSUME TypeOK,
         pipe' \in [Streams -> 0 .. PipeSize], read' \in [Streams -> 0 .. MaxPrints],
         reader' \in [Streams -> {"reads", "ended"}],
         UNCHANGED <<proot, limited, stoppable, hangs, leader, member, escaped, todo>>,
         UNCHANGED <<pc, verdict, got, outcome, passed, flagged, calls, stopper, waiter, seen>>
  PROVE  TypeOK'
<1>1. /\ member' \in Life /\ escaped' \in Life
      /\ calls' \in 0 .. MaxStops /\ stopper' \in {"idle", "flagged"}
  BY DEF TypeOK
<1>2. QED
  BY <1>1, FrameTyped

LEMMA StutterTyped ==
  ASSUME TypeOK, UNCHANGED vars
  PROVE  TypeOK'
<1>1. /\ UNCHANGED <<proot, limited, stoppable, hangs, leader, todo, pipe>>
      /\ UNCHANGED <<pc, verdict, reader, read, got, outcome, passed, flagged, waiter, seen>>
  BY DEF vars, asked, processes, output, readers, result, stop, wait
<1>2. /\ member' \in Life /\ escaped' \in Life
      /\ calls' \in 0 .. MaxStops /\ stopper' \in {"idle", "flagged"}
  BY DEF TypeOK, vars, asked, processes, output, readers, result, stop, wait
<1>3. QED
  BY <1>1, <1>2, OthersTyped

LEMMA TypeStep ==
  ASSUME IInv, [Next]_vars
  PROVE  TypeOK'
<1>. USE CommandAssumption DEF IInv, TypeOK, Streams, Counts, Unspawned, Decided, Woken, Life,
     asked, processes, output, readers, result, stop, wait
<1>1. ASSUME NEW s \in Streams, Prints(s) PROVE TypeOK'
  BY <1>1, PrintsMoves DEF Prints
<1>2. CASE Leaves
  BY <1>2 DEF Leaves
<1>3. CASE Escapes
  <2>1. /\ escaped' = "alive"
        /\ UNCHANGED <<proot, limited, stoppable, hangs, leader, member, todo, pipe>>
        /\ UNCHANGED <<pc, verdict, reader, read, got, outcome, passed, flagged, calls,
                       stopper, waiter, seen>>
    BY <1>3 DEF Escapes
  <2>2. QED
    BY <2>1, OthersTyped
<1>4. CASE LeaderExits
  BY <1>4 DEF LeaderExits
<1>5. CASE OthersExit
  <2>1. /\ member' \in {member, "dead"} /\ escaped' \in {escaped, "dead"}
        /\ UNCHANGED <<proot, limited, stoppable, hangs, leader, todo, pipe>>
        /\ UNCHANGED <<pc, verdict, reader, read, got, outcome, passed, flagged, calls,
                       stopper, waiter, seen>>
    BY <1>5 DEF OthersExit
  <2>2. QED
    BY <2>1, OthersTyped
<1>6. CASE Flag
  BY <1>6 DEF Flag
<1>7. CASE Notify
  <2>1. calls' \in 0 .. MaxStops /\ stopper' = "idle"
    BY <1>7, NotifyCounts DEF Notify
  <2>2. /\ UNCHANGED <<proot, limited, stoppable, hangs, leader, member, escaped, todo, pipe>>
        /\ UNCHANGED <<pc, verdict, reader, read, got, outcome, passed, flagged, waiter, seen>>
    BY <1>7 DEF Notify
  <2>3. QED
    BY <2>1, <2>2, OthersTyped
<1>8. CASE Looks
  BY <1>8 DEF Looks, Waits
<1>9. CASE Registers
  BY <1>9 DEF Registers, Waits
<1>10. CASE LooksAgain
  BY <1>10 DEF LooksAgain, Waits
<1>11. CASE Wakes
  BY <1>11 DEF Wakes, Waits
<1>12. CASE Spawn
  BY <1>12 DEF Spawn
<1>13. CASE SpawnFails
  BY <1>13 DEF SpawnFails
<1>14. ASSUME NEW s \in Streams, Reads(s) PROVE TypeOK'
  <2>1. pipe' \in [Streams -> 0 .. PipeSize] /\ read' \in [Streams -> 0 .. MaxPrints]
    BY <1>14, ReadsMoves
  <2>2. /\ reader' = reader
        /\ UNCHANGED <<proot, limited, stoppable, hangs, leader, member, escaped, todo>>
        /\ UNCHANGED <<pc, verdict, got, outcome, passed, flagged, calls, stopper, waiter, seen>>
    BY <1>14 DEF Reads
  <2>3. QED
    BY <2>1, <2>2, ReadersTyped
<1>15. ASSUME NEW s \in Streams, ReaderEnds(s) PROVE TypeOK'
  <2>1. /\ reader' = [reader EXCEPT ![s] = "ended"] /\ pipe' = pipe /\ read' = read
        /\ UNCHANGED <<proot, limited, stoppable, hangs, leader, member, escaped, todo>>
        /\ UNCHANGED <<pc, verdict, got, outcome, passed, flagged, calls, stopper, waiter, seen>>
    BY <1>15 DEF ReaderEnds
  <2>2. QED
    BY <2>1, ReadersTyped
<1>16. CASE DeadlinePasses
  BY <1>16 DEF DeadlinePasses
<1>17. CASE Exits
  BY <1>17 DEF Exits
<1>18. CASE Overstays
  BY <1>18 DEF Overstays, KillGroup
<1>19. CASE Stopped
  BY <1>19 DEF Stopped, KillGroup
<1>20. CASE Reaps
  BY <1>20 DEF Reaps
<1>21. ASSUME NEW s \in Streams, Drains(s) PROVE TypeOK'
  BY <1>21 DEF Drains, Drain, After
<1>22. ASSUME NEW s \in Streams, GivesUp(s) PROVE TypeOK'
  BY <1>22 DEF GivesUp, Drain, After, Held
<1>23. CASE Reports
  BY <1>23 DEF Reports
<1>24. CASE UNCHANGED vars
  BY <1>24, StutterTyped
<1>25. QED
  BY <1>1, <1>2, <1>3, <1>4, <1>5, <1>6, <1>7, <1>8, <1>9, <1>10, <1>11, <1>12, <1>13, <1>14, <1>15, <1>16, <1>17, <1>18, <1>19, <1>20, <1>21, <1>22, <1>23, <1>24
  DEF Next, Program, Others, Poll, Task, Reader

LEMMA CountsStep ==
  ASSUME IInv, [Next]_vars
  PROVE  Counts'
<1>. USE CommandAssumption DEF IInv, TypeOK, Streams, Counts, Unspawned,
     asked, processes, output, readers, result, stop, wait
<1>1. ASSUME NEW s \in Streams, Prints(s) PROVE Counts'
  BY <1>1, PrintsMoves
<1>2. CASE Leaves
  BY <1>2 DEF Leaves
<1>3. CASE Escapes
  BY <1>3 DEF Escapes
<1>4. CASE LeaderExits
  BY <1>4 DEF LeaderExits
<1>5. CASE OthersExit
  BY <1>5 DEF OthersExit
<1>6. CASE Flag
  BY <1>6 DEF Flag
<1>7. CASE Notify
  BY <1>7 DEF Notify
<1>8. CASE Looks
  BY <1>8 DEF Looks, Waits
<1>9. CASE Registers
  BY <1>9 DEF Registers, Waits
<1>10. CASE LooksAgain
  BY <1>10 DEF LooksAgain, Waits
<1>11. CASE Wakes
  BY <1>11 DEF Wakes, Waits
<1>12. CASE Spawn
  BY <1>12 DEF Spawn
<1>13. CASE SpawnFails
  BY <1>13 DEF SpawnFails
<1>14. ASSUME NEW s \in Streams, Reads(s) PROVE Counts'
  BY <1>14, ReadsMoves
<1>15. ASSUME NEW s \in Streams, ReaderEnds(s) PROVE Counts'
  BY <1>15 DEF ReaderEnds, Held
<1>16. CASE DeadlinePasses
  BY <1>16 DEF DeadlinePasses
<1>17. CASE Exits
  BY <1>17 DEF Exits
<1>18. CASE Overstays
  BY <1>18 DEF Overstays, KillGroup
<1>19. CASE Stopped
  BY <1>19 DEF Stopped, KillGroup
<1>20. CASE Reaps
  BY <1>20 DEF Reaps
<1>21. ASSUME NEW s \in Streams, Drains(s) PROVE Counts'
  BY <1>21, DrainsTakes
<1>22. ASSUME NEW s \in Streams, GivesUp(s) PROVE Counts'
  BY <1>22 DEF GivesUp, Drain, After, Held
<1>23. CASE Reports
  BY <1>23 DEF Reports
<1>24. CASE UNCHANGED vars
  BY <1>24 DEF vars
<1>25. QED
  BY <1>1, <1>2, <1>3, <1>4, <1>5, <1>6, <1>7, <1>8, <1>9, <1>10, <1>11, <1>12, <1>13, <1>14, <1>15, <1>16, <1>17, <1>18, <1>19, <1>20, <1>21, <1>22, <1>23, <1>24
  DEF Next, Program, Others, Poll, Task, Reader

LEMMA UnspawnedStep ==
  ASSUME IInv, [Next]_vars
  PROVE  Unspawned'
<1>. USE CommandAssumption DEF IInv, TypeOK, Streams, Unspawned, Decided,
     asked, processes, output, readers, result, stop, wait
<1>1. ASSUME NEW s \in Streams, Prints(s) PROVE Unspawned'
  BY <1>1 DEF Prints
<1>2. CASE Leaves
  BY <1>2 DEF Leaves
<1>3. CASE Escapes
  BY <1>3 DEF Escapes
<1>4. CASE LeaderExits
  BY <1>4 DEF LeaderExits
<1>5. CASE OthersExit
  BY <1>5 DEF OthersExit
<1>6. CASE Flag
  BY <1>6 DEF Flag
<1>7. CASE Notify
  BY <1>7 DEF Notify
<1>8. CASE Looks
  BY <1>8 DEF Looks, Waits
<1>9. CASE Registers
  BY <1>9 DEF Registers, Waits
<1>10. CASE LooksAgain
  BY <1>10 DEF LooksAgain, Waits
<1>11. CASE Wakes
  BY <1>11 DEF Wakes, Waits
<1>12. CASE Spawn
  BY <1>12 DEF Spawn
<1>13. CASE SpawnFails
  BY <1>13 DEF SpawnFails
<1>14. ASSUME NEW s \in Streams, Reads(s) PROVE Unspawned'
  BY <1>14 DEF Reads
<1>15. ASSUME NEW s \in Streams, ReaderEnds(s) PROVE Unspawned'
  BY <1>15 DEF ReaderEnds, Held
<1>16. CASE DeadlinePasses
  BY <1>16 DEF DeadlinePasses
<1>17. CASE Exits
  BY <1>17 DEF Exits
<1>18. CASE Overstays
  BY <1>18 DEF Overstays, KillGroup
<1>19. CASE Stopped
  BY <1>19 DEF Stopped, KillGroup
<1>20. CASE Reaps
  BY <1>20 DEF Reaps
<1>21. ASSUME NEW s \in Streams, Drains(s) PROVE Unspawned'
  BY <1>21 DEF Drains, Drain, After
<1>22. ASSUME NEW s \in Streams, GivesUp(s) PROVE Unspawned'
  BY <1>22 DEF GivesUp, Drain, After, Held
<1>23. CASE Reports
  BY <1>23 DEF Reports
<1>24. CASE UNCHANGED vars
  BY <1>24 DEF vars
<1>25. QED
  BY <1>1, <1>2, <1>3, <1>4, <1>5, <1>6, <1>7, <1>8, <1>9, <1>10, <1>11, <1>12, <1>13, <1>14, <1>15, <1>16, <1>17, <1>18, <1>19, <1>20, <1>21, <1>22, <1>23, <1>24
  DEF Next, Program, Others, Poll, Task, Reader

LEMMA DecidedStep ==
  ASSUME IInv, [Next]_vars
  PROVE  Decided'
<1>. USE CommandAssumption DEF IInv, TypeOK, Streams, Decided, Unspawned,
     asked, processes, output, readers, result, stop, wait
<1>1. ASSUME NEW s \in Streams, Prints(s) PROVE Decided'
  BY <1>1 DEF Prints
<1>2. CASE Leaves
  BY <1>2 DEF Leaves
<1>3. CASE Escapes
  BY <1>3 DEF Escapes
<1>4. CASE LeaderExits
  BY <1>4 DEF LeaderExits
<1>5. CASE OthersExit
  BY <1>5 DEF OthersExit
<1>6. CASE Flag
  BY <1>6 DEF Flag
<1>7. CASE Notify
  BY <1>7 DEF Notify
<1>8. CASE Looks
  BY <1>8 DEF Looks, Waits
<1>9. CASE Registers
  BY <1>9 DEF Registers, Waits
<1>10. CASE LooksAgain
  BY <1>10 DEF LooksAgain, Waits
<1>11. CASE Wakes
  BY <1>11 DEF Wakes, Waits
<1>12. CASE Spawn
  BY <1>12 DEF Spawn
<1>13. CASE SpawnFails
  BY <1>13 DEF SpawnFails
<1>14. ASSUME NEW s \in Streams, Reads(s) PROVE Decided'
  BY <1>14 DEF Reads
<1>15. ASSUME NEW s \in Streams, ReaderEnds(s) PROVE Decided'
  BY <1>15 DEF ReaderEnds, Held
<1>16. CASE DeadlinePasses
  BY <1>16 DEF DeadlinePasses
<1>17. CASE Exits
  BY <1>17 DEF Exits
<1>18. CASE Overstays
  BY <1>18 DEF Overstays, KillGroup
<1>19. CASE Stopped
  BY <1>19 DEF Stopped, KillGroup
<1>20. CASE Reaps
  BY <1>20 DEF Reaps
<1>21. ASSUME NEW s \in Streams, Drains(s) PROVE Decided'
  BY <1>21 DEF Drains, Drain, After
<1>22. ASSUME NEW s \in Streams, GivesUp(s) PROVE Decided'
  BY <1>22 DEF GivesUp, Drain, After, Held
<1>23. CASE Reports
  BY <1>23 DEF Reports
<1>24. CASE UNCHANGED vars
  BY <1>24 DEF vars
<1>25. QED
  BY <1>1, <1>2, <1>3, <1>4, <1>5, <1>6, <1>7, <1>8, <1>9, <1>10, <1>11, <1>12, <1>13, <1>14, <1>15, <1>16, <1>17, <1>18, <1>19, <1>20, <1>21, <1>22, <1>23, <1>24
  DEF Next, Program, Others, Poll, Task, Reader

LEMMA KilledStep ==
  ASSUME IInv, [Next]_vars
  PROVE  Killed'
<1>. USE CommandAssumption DEF IInv, TypeOK, Streams, Killed, Decided, Unspawned,
     asked, processes, output, readers, result, stop, wait
<1>1. ASSUME NEW s \in Streams, Prints(s) PROVE Killed'
  BY <1>1 DEF Prints
<1>2. CASE Leaves
  BY <1>2 DEF Leaves
<1>3. CASE Escapes
  BY <1>3 DEF Escapes
<1>4. CASE LeaderExits
  BY <1>4 DEF LeaderExits
<1>5. CASE OthersExit
  BY <1>5 DEF OthersExit
<1>6. CASE Flag
  BY <1>6 DEF Flag
<1>7. CASE Notify
  BY <1>7 DEF Notify
<1>8. CASE Looks
  BY <1>8 DEF Looks, Waits
<1>9. CASE Registers
  BY <1>9 DEF Registers, Waits
<1>10. CASE LooksAgain
  BY <1>10 DEF LooksAgain, Waits
<1>11. CASE Wakes
  BY <1>11 DEF Wakes, Waits
<1>12. CASE Spawn
  BY <1>12 DEF Spawn
<1>13. CASE SpawnFails
  BY <1>13 DEF SpawnFails
<1>14. ASSUME NEW s \in Streams, Reads(s) PROVE Killed'
  BY <1>14 DEF Reads
<1>15. ASSUME NEW s \in Streams, ReaderEnds(s) PROVE Killed'
  BY <1>15 DEF ReaderEnds, Held
<1>16. CASE DeadlinePasses
  BY <1>16 DEF DeadlinePasses
<1>17. CASE Exits
  BY <1>17 DEF Exits
<1>18. CASE Overstays
  BY <1>18 DEF Overstays, KillGroup
<1>19. CASE Stopped
  BY <1>19 DEF Stopped, KillGroup
<1>20. CASE Reaps
  BY <1>20 DEF Reaps
<1>21. ASSUME NEW s \in Streams, Drains(s) PROVE Killed'
  BY <1>21 DEF Drains, Drain, After
<1>22. ASSUME NEW s \in Streams, GivesUp(s) PROVE Killed'
  BY <1>22 DEF GivesUp, Drain, After, Held
<1>23. CASE Reports
  BY <1>23 DEF Reports
<1>24. CASE UNCHANGED vars
  BY <1>24 DEF vars
<1>25. QED
  BY <1>1, <1>2, <1>3, <1>4, <1>5, <1>6, <1>7, <1>8, <1>9, <1>10, <1>11, <1>12, <1>13, <1>14, <1>15, <1>16, <1>17, <1>18, <1>19, <1>20, <1>21, <1>22, <1>23, <1>24
  DEF Next, Program, Others, Poll, Task, Reader

LEMMA EndedStep ==
  ASSUME IInv, [Next]_vars
  PROVE  Ended'
<1>. USE CommandAssumption DEF IInv, TypeOK, Streams, Ended, Decided, Unspawned,
     asked, processes, output, readers, result, stop, wait
<1>1. ASSUME NEW s \in Streams, Prints(s) PROVE Ended'
  BY <1>1 DEF Prints
<1>2. CASE Leaves
  BY <1>2 DEF Leaves
<1>3. CASE Escapes
  BY <1>3 DEF Escapes
<1>4. CASE LeaderExits
  BY <1>4 DEF LeaderExits
<1>5. CASE OthersExit
  BY <1>5 DEF OthersExit
<1>6. CASE Flag
  BY <1>6 DEF Flag
<1>7. CASE Notify
  BY <1>7 DEF Notify
<1>8. CASE Looks
  BY <1>8 DEF Looks, Waits
<1>9. CASE Registers
  BY <1>9 DEF Registers, Waits
<1>10. CASE LooksAgain
  BY <1>10 DEF LooksAgain, Waits
<1>11. CASE Wakes
  BY <1>11 DEF Wakes, Waits
<1>12. CASE Spawn
  BY <1>12 DEF Spawn
<1>13. CASE SpawnFails
  BY <1>13 DEF SpawnFails
<1>14. ASSUME NEW s \in Streams, Reads(s) PROVE Ended'
  BY <1>14 DEF Reads
<1>15. ASSUME NEW s \in Streams, ReaderEnds(s) PROVE Ended'
  BY <1>15 DEF ReaderEnds, Held
<1>16. CASE DeadlinePasses
  BY <1>16 DEF DeadlinePasses
<1>17. CASE Exits
  BY <1>17 DEF Exits
<1>18. CASE Overstays
  BY <1>18 DEF Overstays, KillGroup
<1>19. CASE Stopped
  BY <1>19 DEF Stopped, KillGroup
<1>20. CASE Reaps
  BY <1>20 DEF Reaps
<1>21. ASSUME NEW s \in Streams, Drains(s) PROVE Ended'
  BY <1>21 DEF Drains, Drain, After
<1>22. ASSUME NEW s \in Streams, GivesUp(s) PROVE Ended'
  BY <1>22 DEF GivesUp, Drain, After, Held
<1>23. CASE Reports
  BY <1>23 DEF Reports
<1>24. CASE UNCHANGED vars
  BY <1>24 DEF vars
<1>25. QED
  BY <1>1, <1>2, <1>3, <1>4, <1>5, <1>6, <1>7, <1>8, <1>9, <1>10, <1>11, <1>12, <1>13, <1>14, <1>15, <1>16, <1>17, <1>18, <1>19, <1>20, <1>21, <1>22, <1>23, <1>24
  DEF Next, Program, Others, Poll, Task, Reader

LEMMA DrainedStep ==
  ASSUME IInv, [Next]_vars
  PROVE  Drained'
<1>. USE CommandAssumption DEF IInv, TypeOK, Streams, Drained, Decided, Unspawned, Killed, Ended, Past, Outlived,
     asked, processes, output, readers, result, stop, wait
<1>1. ASSUME NEW s \in Streams, Prints(s) PROVE Drained'
  BY <1>1 DEF Prints
<1>2. CASE Leaves
  BY <1>2 DEF Leaves
<1>3. CASE Escapes
  BY <1>3 DEF Escapes
<1>4. CASE LeaderExits
  BY <1>4 DEF LeaderExits
<1>5. CASE OthersExit
  BY <1>5 DEF OthersExit
<1>6. CASE Flag
  BY <1>6 DEF Flag
<1>7. CASE Notify
  BY <1>7 DEF Notify
<1>8. CASE Looks
  BY <1>8 DEF Looks, Waits
<1>9. CASE Registers
  BY <1>9 DEF Registers, Waits
<1>10. CASE LooksAgain
  BY <1>10 DEF LooksAgain, Waits
<1>11. CASE Wakes
  BY <1>11 DEF Wakes, Waits
<1>12. CASE Spawn
  BY <1>12 DEF Spawn
<1>13. CASE SpawnFails
  BY <1>13 DEF SpawnFails
<1>14. ASSUME NEW s \in Streams, Reads(s) PROVE Drained'
  BY <1>14 DEF Reads
<1>15. ASSUME NEW s \in Streams, ReaderEnds(s) PROVE Drained'
  BY <1>15 DEF ReaderEnds, Held
<1>16. CASE DeadlinePasses
  BY <1>16 DEF DeadlinePasses
<1>17. CASE Exits
  BY <1>17 DEF Exits
<1>18. CASE Overstays
  BY <1>18 DEF Overstays, KillGroup
<1>19. CASE Stopped
  BY <1>19 DEF Stopped, KillGroup
<1>20. CASE Reaps
  BY <1>20 DEF Reaps
<1>21. ASSUME NEW s \in Streams, Drains(s) PROVE Drained'
  BY <1>21 DEF Drains, Drain, After
<1>22. ASSUME NEW s \in Streams, GivesUp(s) PROVE Drained'
  BY <1>22 DEF GivesUp, Drain, After, Held
<1>23. CASE Reports
  BY <1>23 DEF Reports
<1>24. CASE UNCHANGED vars
  BY <1>24 DEF vars
<1>25. QED
  BY <1>1, <1>2, <1>3, <1>4, <1>5, <1>6, <1>7, <1>8, <1>9, <1>10, <1>11, <1>12, <1>13, <1>14, <1>15, <1>16, <1>17, <1>18, <1>19, <1>20, <1>21, <1>22, <1>23, <1>24
  DEF Next, Program, Others, Poll, Task, Reader

LEMMA WokenStep ==
  ASSUME IInv, [Next]_vars
  PROVE  Woken'
<1>. USE CommandAssumption DEF IInv, TypeOK, Streams, Woken, NoLostWakeUp,
     asked, processes, output, readers, result, stop, wait
<1>1. ASSUME NEW s \in Streams, Prints(s) PROVE Woken'
  BY <1>1 DEF Prints
<1>2. CASE Leaves
  BY <1>2 DEF Leaves
<1>3. CASE Escapes
  BY <1>3 DEF Escapes
<1>4. CASE LeaderExits
  BY <1>4 DEF LeaderExits
<1>5. CASE OthersExit
  BY <1>5 DEF OthersExit
<1>6. CASE Flag
  BY <1>6 DEF Flag
<1>7. CASE Notify
  BY <1>7, NotifyCounts DEF Notify
<1>8. CASE Looks
  BY <1>8 DEF Looks, Waits
<1>9. CASE Registers
  BY <1>9, RegistersCounts DEF Registers, Waits
<1>10. CASE LooksAgain
  BY <1>10 DEF LooksAgain, Waits
<1>11. CASE Wakes
  BY <1>11 DEF Wakes, Waits
<1>12. CASE Spawn
  BY <1>12 DEF Spawn
<1>13. CASE SpawnFails
  BY <1>13 DEF SpawnFails
<1>14. ASSUME NEW s \in Streams, Reads(s) PROVE Woken'
  BY <1>14 DEF Reads
<1>15. ASSUME NEW s \in Streams, ReaderEnds(s) PROVE Woken'
  BY <1>15 DEF ReaderEnds, Held
<1>16. CASE DeadlinePasses
  BY <1>16 DEF DeadlinePasses
<1>17. CASE Exits
  BY <1>17 DEF Exits
<1>18. CASE Overstays
  BY <1>18 DEF Overstays, KillGroup
<1>19. CASE Stopped
  BY <1>19 DEF Stopped, KillGroup
<1>20. CASE Reaps
  BY <1>20 DEF Reaps
<1>21. ASSUME NEW s \in Streams, Drains(s) PROVE Woken'
  BY <1>21 DEF Drains, Drain, After
<1>22. ASSUME NEW s \in Streams, GivesUp(s) PROVE Woken'
  BY <1>22 DEF GivesUp, Drain, After, Held
<1>23. CASE Reports
  BY <1>23 DEF Reports
<1>24. CASE UNCHANGED vars
  BY <1>24 DEF vars
<1>25. QED
  BY <1>1, <1>2, <1>3, <1>4, <1>5, <1>6, <1>7, <1>8, <1>9, <1>10, <1>11, <1>12, <1>13, <1>14, <1>15, <1>16, <1>17, <1>18, <1>19, <1>20, <1>21, <1>22, <1>23, <1>24
  DEF Next, Program, Others, Poll, Task, Reader

THEOREM InductiveInvariant == Spec => []IInv
<1>1. IInv /\ [Next]_vars => IInv'
  BY TypeStep, CountsStep, UnspawnedStep, DecidedStep, KilledStep, EndedStep, DrainedStep,
     WokenStep
  DEF IInv
<1>2. QED
  BY <1>1, InitIInv, PTL DEF Spec

(* The command's variables keep their types, and no result is given before *)
(* the spawned process has been waited for (backend.rs:385-397).           *)
THEOREM TypeCorrect == Spec => []TypeOK
<1>1. IInv => TypeOK
  BY DEF IInv
<1>2. QED
  BY <1>1, InductiveInvariant, PTL

(* Whoever waits to be cancelled has not missed it (cancel.rs:50-62).      *)
THEOREM NoWakeUpIsLost == Spec => []NoLostWakeUp
<1>1. IInv => NoLostWakeUp
  BY DEF IInv, Woken
<1>2. QED
  BY <1>1, InductiveInvariant, PTL

(* What a deadline or a stop ended has left nothing in its group           *)
(* (backend.rs:481-495).                                                   *)
THEOREM KilledCommandsAreGone == Spec => []KilledIsGone
<1>1. IInv => KilledIsGone
  <2>1. SUFFICES ASSUME IInv, outcome \in {"stopped", "timed out"}, member = "alive"
                 PROVE  verdict = "exited" /\ ~proot
    BY DEF KilledIsGone
  <2>2. verdict \in {"exited", "timeout", "stopped"}
    BY <2>1 DEF IInv, TypeOK, Decided
  <2>3. verdict = "exited" /\ leader \in {"zombie", "reaped"}
    BY <2>1, <2>2 DEF IInv, TypeOK, Decided, Killed, Unspawned
  <2>4. QED
    BY <2>1, <2>3 DEF IInv, Killed
<1>2. QED
  BY <1>1, InductiveInvariant, PTL

(* A result holds all that was printed, unless something outlived the      *)
(* command (backend.rs:350-368, 404-416).                                  *)
THEOREM OutputsAreWhole == Spec => []OutputIsWhole
<1>1. IInv => OutputIsWhole
  <2>1. SUFFICES ASSUME IInv, pc = "reported", ~Outlived, NEW s \in Streams
                 PROVE  pipe[s] = 0 /\ got[s] = read[s]
    BY DEF OutputIsWhole
  <2>2. CASE leader = "none"
    BY <2>1, <2>2 DEF IInv, Unspawned
  <2>3. CASE leader # "none"
    BY <2>1, <2>3 DEF IInv, Drained, Ended, Past, Streams
  <2>4. QED
    BY <2>2, <2>3
<1>2. QED
  BY <1>1, InductiveInvariant, PTL
-----------------------------------------------------------------------------
(***************************************************************************)
(* What of EndsAtLast is safety: no step can be repeated for ever, and     *)
(* until the command is reported something fair is still to be done.       *)
(***************************************************************************)
Pieces(s) == 2 * todo[s] + pipe[s] + (IF reader[s] = "reads" THEN 1 ELSE 0)

Breath(x) == IF x = "none" THEN 2 ELSE IF x = "alive" THEN 1 ELSE 0

Lives ==
  (CASE leader = "none" -> 3 [] leader = "alive" -> 2 [] leader = "zombie" -> 1 [] OTHER -> 0)
    + Breath(member) + Breath(escaped)

Stage ==
  CASE pc = "spawn"    -> 6
    [] pc = "select"   -> 5
    [] pc = "reap"     -> 4
    [] pc = "drainOut" -> 3
    [] pc = "drainErr" -> 2
    [] pc = "report"   -> 1
    [] OTHER           -> 0

Clock == IF passed THEN 0 ELSE 1

(* A call that is made sends the waiter around once more.                  *)
Around ==
  (CASE waiter = "looks" -> 3 [] waiter = "registers" -> 2 [] waiter = "looksAgain" -> 1
     [] OTHER -> 0)
    + (IF waiter \in {"looksAgain", "waits"} /\ calls > seen THEN 4 ELSE 0)

Stopping == 7 * (MaxStops - calls) + (IF stopper = "idle" THEN 1 ELSE 0) + Around

Left == Pieces("out") + Pieces("err") + Lives + Stage + Clock + Stopping

(* What the fair actions of FairSpec wait for.                             *)
ProgramOpen ==
  /\ leader = "alive"
  /\ \/ \E s \in Streams : todo[s] > 0 /\ pipe[s] < PipeSize
     \/ ~hangs /\ \A s \in Streams : todo[s] = 0

PollOpen ==
  /\ Waits
  /\ \/ waiter \in {"looks", "registers", "looksAgain"}
     \/ waiter = "waits" /\ calls > seen

TaskOpen ==
  \/ pc \in {"spawn", "report"}
  \/ pc = "select" /\ (leader = "zombie" \/ passed \/ waiter = "sees")
  \/ pc = "reap" /\ leader = "zombie"
  \/ \E s \in Streams : pc = Drain(s) /\ (reader[s] = "ended" \/ Held)

ReaderOpen ==
  /\ leader # "none"
  /\ \E s \in Streams : reader[s] = "reads" /\ (pipe[s] > 0 \/ ~Held)

Open ==
  \/ ProgramOpen \/ PollOpen \/ TaskOpen \/ ReaderOpen
  \/ stopper = "flagged"
  \/ pc = "select" /\ limited /\ ~passed

(* A command that can end, has a deadline or is stopped is never stuck.    *)
NeverStuck ==
  pc # "reported" /\ (~hangs \/ limited \/ (stoppable /\ flagged)) => Open

LEMMA PartsAreNumbers ==
  ASSUME IInv
  PROVE  /\ \A s \in Streams : Pieces(s) \in Nat
         /\ Lives \in Nat /\ Stage \in Nat /\ Clock \in Nat /\ Stopping \in Nat
<1>1. ASSUME NEW s \in Streams PROVE Pieces(s) \in Nat
  BY Numbers DEF Pieces
<1>2. Lives \in Nat
  BY DEF Lives, Breath
<1>3. Stage \in Nat /\ Clock \in Nat
  BY DEF Stage, Clock
<1>4. Around \in Nat
  BY DEF Around
<1>5. MaxStops - calls \in Nat
  BY Shapes
<1>6. Stopping \in Nat
  BY <1>4, <1>5 DEF Stopping
<1>7. QED
  BY <1>1, <1>2, <1>3, <1>6

LEMMA PartsStayNumbers ==
  ASSUME IInv'
  PROVE  /\ \A s \in Streams : Pieces(s)' \in Nat
         /\ Lives' \in Nat /\ Stage' \in Nat /\ Clock' \in Nat /\ Stopping' \in Nat
<1>1. /\ todo' \in [Streams -> 0 .. MaxPrints] /\ pipe' \in [Streams -> 0 .. PipeSize]
      /\ calls' \in 0 .. MaxStops
      /\ MaxPrints \in Nat /\ PipeSize \in Nat /\ MaxStops \in Nat
  BY CommandAssumption DEF IInv, TypeOK
<1>2. ASSUME NEW s \in Streams PROVE Pieces(s)' \in Nat
  <2>1. todo'[s] \in Nat /\ pipe'[s] \in Nat
    BY <1>1
  <2>2. QED
    BY <2>1 DEF Pieces
<1>3. Lives' \in Nat /\ Stage' \in Nat /\ Clock' \in Nat
  BY DEF Lives, Breath, Stage, Clock
<1>4. Around' \in Nat /\ MaxStops - calls' \in Nat
  BY <1>1 DEF Around
<1>5. Stopping' \in Nat
  BY <1>4 DEF Stopping
<1>6. QED
  BY <1>2, <1>3, <1>5

(* One part grows smaller and none larger.                                 *)
LEMMA PartsAddUp ==
  ASSUME IInv, IInv',
         \A s \in Streams : Pieces(s)' <= Pieces(s),
         Lives' <= Lives, Stage' <= Stage, Clock' <= Clock, Stopping' <= Stopping,
         \/ \E s \in Streams : Pieces(s)' < Pieces(s)
         \/ Lives' < Lives \/ Stage' < Stage \/ Clock' < Clock \/ Stopping' < Stopping
  PROVE  Left' < Left
<1>1. "out" \in Streams /\ "err" \in Streams /\ \A s \in Streams : s \in {"out", "err"}
  BY DEF Streams
<1>2. /\ Pieces("out") \in Nat /\ Pieces("err") \in Nat
      /\ Lives \in Nat /\ Stage \in Nat /\ Clock \in Nat /\ Stopping \in Nat
  BY <1>1, PartsAreNumbers
<1>3. /\ Pieces("out")' \in Nat /\ Pieces("err")' \in Nat
      /\ Lives' \in Nat /\ Stage' \in Nat /\ Clock' \in Nat /\ Stopping' \in Nat
  BY <1>1, PartsStayNumbers
<1>4. Pieces("out")' <= Pieces("out") /\ Pieces("err")' <= Pieces("err")
  BY <1>1
<1>5. \/ Pieces("out")' < Pieces("out") \/ Pieces("err")' < Pieces("err")
      \/ Lives' < Lives \/ Stage' < Stage \/ Clock' < Clock \/ Stopping' < Stopping
  BY <1>1
<1>6. QED
  BY <1>2, <1>3, <1>4, <1>5 DEF Left

(* A stream moves on, and nothing else.                                    *)
LEMMA StreamMoves ==
  ASSUME IInv, IInv', NEW s \in Streams, Prints(s) \/ Reader(s)
  PROVE  Left' < Left
<1>1. Lives' = Lives /\ Stage' = Stage /\ Clock' = Clock /\ Stopping' = Stopping
  BY DEF Prints, Reader, Reads, ReaderEnds, processes, result, stop, wait, Lives, Stage, Clock,
         Stopping, Around
<1>2. Pieces(s)' < Pieces(s) /\ \A t \in Streams \ {s} : Pieces(t)' = Pieces(t)
  <2>1. todo[s] \in Nat /\ pipe[s] \in Nat
    BY Numbers
  <2>2. CASE Prints(s)
    <3>1. /\ todo'[s] = todo[s] - 1 /\ pipe'[s] = pipe[s] + 1 /\ reader'[s] = reader[s]
          /\ \A t \in Streams \ {s} :
               todo'[t] = todo[t] /\ pipe'[t] = pipe[t] /\ reader'[t] = reader[t]
      BY <2>2, Shapes DEF Prints, readers
    <3>2. QED
      BY <2>1, <3>1 DEF Pieces
  <2>3. CASE Reads(s)
    <3>1. /\ todo' = todo /\ pipe'[s] = pipe[s] - 1 /\ reader' = reader
          /\ \A t \in Streams \ {s} : pipe'[t] = pipe[t]
      BY <2>3, Shapes DEF Reads
    <3>2. QED
      BY <2>1, <3>1 DEF Pieces
  <2>4. CASE ReaderEnds(s)
    <3>1. /\ todo' = todo /\ pipe' = pipe /\ reader[s] = "reads" /\ reader'[s] = "ended"
          /\ \A t \in Streams \ {s} : reader'[t] = reader[t]
      BY <2>4 DEF ReaderEnds, output, IInv, TypeOK
    <3>2. QED
      BY <2>1, <3>1 DEF Pieces
  <2>5. QED
    BY <2>2, <2>3, <2>4 DEF Reader
<1>3. \A t \in Streams : Pieces(t) \in Nat /\ Pieces(t)' \in Nat
  BY PartsAreNumbers, PartsStayNumbers
<1>4. Lives \in Nat /\ Stage \in Nat /\ Clock \in Nat /\ Stopping \in Nat
  BY PartsAreNumbers
<1>5. QED
  BY <1>1, <1>2, <1>3, <1>4, PartsAddUp

(* A process is born or dies.                                              *)
LEMMA ProcessMoves ==
  ASSUME IInv, IInv', LeaderExits \/ Others
  PROVE  Left' < Left
<1>1. /\ \A s \in Streams : Pieces(s)' = Pieces(s)
      /\ Stage' = Stage /\ Clock' = Clock /\ Stopping' = Stopping
  BY DEF LeaderExits, Others, Leaves, Escapes, OthersExit, output, readers, result, stop, wait,
         Pieces, Stage, Clock, Stopping, Around
<1>2. Lives' < Lives
  BY DEF LeaderExits, Others, Leaves, Escapes, OthersExit, Lives, Breath
<1>3. /\ \A s \in Streams : Pieces(s) \in Nat
      /\ Lives \in Nat /\ Stage \in Nat /\ Clock \in Nat /\ Stopping \in Nat
  BY PartsAreNumbers
<1>4. /\ \A s \in Streams : Pieces(s)' <= Pieces(s)
      /\ Lives' <= Lives /\ Stage' <= Stage /\ Clock' <= Clock /\ Stopping' <= Stopping
  BY <1>1, <1>2, <1>3, PartsStayNumbers
<1>5. QED
  BY <1>2, <1>4, PartsAddUp

(* The flag is set, the call is made, or the waiter moves on.              *)
LEMMA CancelMoves ==
  ASSUME IInv, IInv', Flag \/ Notify \/ Poll
  PROVE  Left' < Left
<1>1. /\ \A s \in Streams : Pieces(s)' = Pieces(s)
      /\ Lives' = Lives /\ Stage' = Stage /\ Clock' = Clock
  BY DEF Flag, Notify, Poll, Looks, Registers, LooksAgain, Wakes, output, processes, readers,
         result, Pieces, Lives, Stage, Clock
<1>2. calls \in Nat /\ seen \in Nat /\ MaxStops \in Nat /\ calls <= MaxStops
  BY Shapes
<1>3. Stopping' < Stopping
  <2>1. CASE Flag
    BY <1>2, <2>1 DEF Flag, wait, Stopping, Around
  <2>2. CASE Notify
    BY <1>2, <2>2 DEF Notify, wait, Stopping, Around
  <2>3. CASE Looks
    BY <1>2, <2>3 DEF Looks, stop, Stopping, Around
  <2>4. CASE Registers
    BY <1>2, <2>4 DEF Registers, stop, Stopping, Around
  <2>5. CASE LooksAgain
    BY <1>2, <2>5 DEF LooksAgain, stop, Stopping, Around
  <2>6. CASE Wakes
    BY <1>2, <2>6 DEF Wakes, stop, Stopping, Around
  <2>7. QED
    BY <2>1, <2>2, <2>3, <2>4, <2>5, <2>6 DEF Poll
<1>4. /\ \A s \in Streams : Pieces(s) \in Nat
      /\ Lives \in Nat /\ Stage \in Nat /\ Clock \in Nat
  BY PartsAreNumbers
<1>5. /\ \A s \in Streams : Pieces(s)' <= Pieces(s)
      /\ Lives' <= Lives /\ Stage' <= Stage /\ Clock' <= Clock /\ Stopping' <= Stopping
  BY <1>1, <1>3, <1>4, PartsAreNumbers, PartsStayNumbers
<1>6. QED
  BY <1>3, <1>5, PartsAddUp

(* run_inner or run_command goes on to what comes next.                    *)
LEMMA TaskMoves ==
  ASSUME IInv, IInv', Task
  PROVE  Left' < Left
<1>1. /\ UNCHANGED <<todo, pipe, reader, passed, calls, stopper, waiter, seen>>
      /\ Stage' < Stage
  <2>1. CASE Spawn \/ SpawnFails \/ Exits
    BY <2>1 DEF Spawn, SpawnFails, Exits, output, readers, stop, wait, Stage
  <2>2. CASE Overstays \/ Stopped
    BY <2>2 DEF Overstays, Stopped, output, readers, stop, wait, Stage
  <2>3. CASE Reaps
    BY <2>3 DEF Reaps, output, readers, stop, wait, Stage
  <2>4. ASSUME NEW s \in Streams, Drains(s) \/ GivesUp(s)
        PROVE  /\ UNCHANGED <<todo, pipe, reader, passed, calls, stopper, waiter, seen>>
               /\ Stage' < Stage
    <3>1. /\ UNCHANGED <<todo, pipe, reader, passed, calls, stopper, waiter, seen>>
          /\ pc = Drain(s) /\ pc' = After(s)
      BY <2>4 DEF Drains, GivesUp, output, readers, stop, wait
    <3>2. QED
      BY <3>1 DEF Drain, After, Streams, Stage
  <2>5. CASE Reports
    <3>1. /\ UNCHANGED <<todo, pipe, reader, passed, calls, stopper, waiter, seen>>
          /\ pc = "report" /\ pc' = "reported"
      BY <2>5 DEF Reports, output, readers, stop, wait
    <3>2. QED
      BY <3>1 DEF Stage
  <2>6. QED
    BY <2>1, <2>2, <2>3, <2>4, <2>5 DEF Task
<1>2. /\ \A s \in Streams : Pieces(s)' = Pieces(s)
      /\ Clock' = Clock /\ Stopping' = Stopping
  BY <1>1 DEF Pieces, Clock, Stopping, Around
<1>3. Lives' <= Lives
  <2>1. CASE Spawn
    BY <2>1 DEF Spawn, IInv, Unspawned, Lives, Breath
  <2>2. CASE Exits \/ Reaps
    BY <2>2 DEF Exits, Reaps, Lives, Breath
  <2>3. CASE Overstays \/ Stopped
    BY <2>3 DEF Overstays, Stopped, KillGroup, Lives, Breath
  <2>4. CASE SpawnFails \/ Reports \/ \E s \in Streams : Drains(s) \/ GivesUp(s)
    <3>1. UNCHANGED processes
      BY <2>4 DEF SpawnFails, Reports, Drains, GivesUp
    <3>2. QED
      BY <3>1, PartsAreNumbers DEF processes, Lives, Breath
  <2>5. QED
    BY <2>1, <2>2, <2>3, <2>4 DEF Task
<1>4. /\ \A s \in Streams : Pieces(s) \in Nat
      /\ Lives \in Nat /\ Stage \in Nat /\ Clock \in Nat /\ Stopping \in Nat
  BY PartsAreNumbers
<1>5. /\ \A s \in Streams : Pieces(s)' <= Pieces(s)
      /\ Lives' <= Lives /\ Stage' <= Stage /\ Clock' <= Clock /\ Stopping' <= Stopping
  BY <1>1, <1>2, <1>3, <1>4, PartsStayNumbers
<1>6. QED
  BY <1>1, <1>5, PartsAddUp

LEMMA EveryStepCounts ==
  ASSUME IInv, IInv', Next
  PROVE  Left' < Left
<1>1. CASE DeadlinePasses
  <2>1. /\ \A s \in Streams : Pieces(s)' = Pieces(s)
        /\ Lives' = Lives /\ Stage' = Stage /\ Stopping' = Stopping /\ Clock' < Clock
    BY <1>1 DEF DeadlinePasses, processes, output, readers, result, stop, wait, Pieces, Lives,
                Stage, Clock, Stopping, Around
  <2>2. /\ \A s \in Streams : Pieces(s) \in Nat
        /\ Lives \in Nat /\ Stage \in Nat /\ Clock \in Nat /\ Stopping \in Nat
    BY PartsAreNumbers
  <2>3. /\ \A s \in Streams : Pieces(s)' <= Pieces(s)
        /\ Lives' <= Lives /\ Stage' <= Stage /\ Clock' <= Clock /\ Stopping' <= Stopping
    BY <2>1, <2>2, PartsStayNumbers
  <2>4. QED
    BY <2>1, <2>3, PartsAddUp
<1>2. QED
  BY <1>1, StreamMoves, ProcessMoves, CancelMoves, TaskMoves DEF Next, Program

LEMMA SomethingIsOpen ==
  ASSUME IInv
  PROVE  NeverStuck
<1>. SUFFICES ASSUME pc # "reported", ~hangs \/ limited \/ (stoppable /\ flagged)
              PROVE  Open
  BY DEF NeverStuck
<1>1. CASE pc \in {"spawn", "report"}
  BY <1>1 DEF Open, TaskOpen
<1>2. CASE pc = "reap"
  BY <1>2 DEF IInv, Decided, Open, TaskOpen
<1>3. ASSUME NEW s \in Streams, pc = Drain(s) PROVE Open
  <2>1. leader # "none"
    BY <1>3 DEF IInv, Unspawned, Drain
  <2>2. reader[s] \in {"reads", "ended"}
    BY DEF IInv, TypeOK
  <2>3. QED
    BY <1>3, <2>1, <2>2 DEF Open, TaskOpen, ReaderOpen
<1>4. CASE pc = "select"
  <2>1. leader \in {"alive", "zombie"}
    BY <1>4 DEF IInv, Decided
  <2>2. CASE leader = "zombie" \/ limited
    BY <1>4, <2>2 DEF Open, TaskOpen, IInv, TypeOK
  <2>3. CASE stoppable /\ flagged
    <3>1. waiter \in {"looks", "registers", "looksAgain", "waits", "sees"}
      BY DEF IInv, TypeOK
    <3>2. waiter = "waits" => calls > seen \/ stopper = "flagged"
      BY <2>3 DEF IInv, Woken, NoLostWakeUp
    <3>3. QED
      BY <1>4, <2>3, <3>1, <3>2 DEF Open, TaskOpen, PollOpen, Waits
  <2>4. CASE leader = "alive" /\ ~hangs
    <3>1. CASE \A s \in Streams : todo[s] = 0
      BY <2>4, <3>1 DEF Open, ProgramOpen
    <3>2. ASSUME NEW s \in Streams, todo[s] # 0 PROVE Open
      <4>1. todo[s] \in Nat /\ pipe[s] \in Nat /\ PipeSize \in Nat \ {0} /\ pipe[s] <= PipeSize
        BY Numbers, CommandAssumption
      <4>2. reader[s] = "reads"
        BY <2>4 DEF IInv, TypeOK, Ended
      <4>3. CASE pipe[s] < PipeSize
        BY <2>4, <3>2, <4>1, <4>3 DEF Open, ProgramOpen
      <4>4. CASE pipe[s] = PipeSize
        <5>1. pipe[s] > 0
          BY <4>1, <4>4
        <5>2. QED
          BY <2>4, <4>2, <5>1 DEF Open, ReaderOpen
      <4>5. QED
        BY <4>1, <4>3, <4>4
    <3>3. QED
      BY <3>1, <3>2
  <2>5. QED
    BY <2>1, <2>2, <2>3, <2>4
<1>5. QED
  BY <1>1, <1>2, <1>3, <1>4 DEF IInv, TypeOK, Drain, Streams

(* A run of a command has no more steps than its measure says when it      *)
(* begins, and it does not stop before the command is reported if that     *)
(* ends by itself, has a deadline or is stopped (backend.rs:306-310,       *)
(* 350-352, 400-403).                                                      *)
THEOREM RunsAreFinite == Spec => [](Left \in Nat /\ NeverStuck) /\ [][Left' < Left]_vars
<1>1. IInv => Left \in Nat /\ NeverStuck
  <2>1. ASSUME IInv PROVE Left \in Nat
    BY <2>1, PartsAreNumbers DEF Left, Streams
  <2>2. QED
    BY <2>1, SomethingIsOpen
<1>2. IInv /\ IInv' /\ [Next]_vars => [Left' < Left]_vars
  BY EveryStepCounts
<1>3. QED
  BY <1>1, <1>2, InductiveInvariant, PTL DEF Spec
=============================================================================
