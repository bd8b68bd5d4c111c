--------------------------- MODULE HarddiskProofs ---------------------------
(***************************************************************************)
(* ReadsOwn and HangCause of Harddisk for any number of tasks and of       *)
(* sectors per call.                                                       *)
(***************************************************************************)
EXTENDS Harddisk, TLAPS

-----------------------------------------------------------------------------
(* The lock *)

Types ==
    /\ cpu \in Task \cup {Idle}
    /\ pc \in [Task -> {"out", "obtain", "take", "spin", "poll", "cmd", "wait",
                        "sleep", "sector", "release"}]
    /\ eif \in [Task -> BOOLEAN]
    /\ owners \subseteq Task

Inside == {"poll", "cmd", "wait", "sleep", "sector", "release"}

\* The owners are inside; a call with interrupts off keeps the CPU.
LockInv ==
    /\ \A t \in Task : pc[t] \in Inside <=> t \in owners
    /\ ~ raced => \A s, t \in owners : s = t
    /\ \A t \in Task : pc[t] # "out" /\ ~ eif[t] => cpu = t
    /\ \A t \in Task : pc[t] = "sleep" => eif[t]
    /\ \A t \in Task : pc[t] = "spin" => ~ eif[t] /\ owners # {}

LInv == Types /\ LockInv

\* LInv holds initially.
LEMMA LockInit == Init => LInv
BY HarddiskAssumption DEF Init, LInv, Types, LockInv, Inside, NoTask

\* Every step keeps LInv: one case per action.
LEMMA LockNext == LInv /\ [Next]_vars => LInv'
<1> SUFFICES ASSUME LInv, [Next]_vars PROVE LInv'
  OBVIOUS
<1>0. Idle \notin Task /\ NoTask = Idle
  BY HarddiskAssumption DEF NoTask
<1> USE <1>0 DEF LInv, drive, history
<1>1. ASSUME NEW t \in Task, simplock_obtain(t) PROVE LInv'
  <2>1. Types'
    BY <1>1 DEF Types, simplock_obtain, Goto
  <2>2. LockInv'
    BY <1>1 DEF Types, LockInv, Inside, simplock_obtain, Goto
  <2> QED
    BY <2>1, <2>2
<1>2. ASSUME NEW t \in Task, simplock_wait(t) PROVE LInv'
  <2>1. Types'
    BY <1>2 DEF Types, simplock_wait, Goto, Runnable
  <2>2. LockInv'
    BY <1>2 DEF Types, LockInv, Inside, simplock_wait, Goto, Runnable
  <2> QED
    BY <2>1, <2>2
<1>3. ASSUME NEW t \in Task, poll_busy(t) PROVE LInv'
  <2>1. Types'
    BY <1>3 DEF Types, poll_busy, Goto
  <2>2. LockInv'
    BY <1>3 DEF Types, LockInv, Inside, poll_busy, Goto
  <2> QED
    BY <2>1, <2>2
<1>4. ASSUME NEW t \in Task, poll_timeout(t) PROVE LInv'
  <2>1. Types'
    BY <1>4 DEF Types, poll_timeout, Goto
  <2>2. LockInv'
    BY <1>4 DEF Types, LockInv, Inside, poll_timeout, Goto
  <2> QED
    BY <2>1, <2>2
<1>5. ASSUME NEW t \in Task, do_read_sync(t) PROVE LInv'
  <2>1. Types'
    BY <1>5 DEF Types, do_read_sync, Goto
  <2>2. LockInv'
    BY <1>5 DEF Types, LockInv, Inside, do_read_sync, Goto
  <2> QED
    BY <2>1, <2>2
<1>6. ASSUME NEW t \in Task, wait(t) PROVE LInv'
  <2>1. Types'
    BY <1>6 DEF Types, wait, Goto
  <2>2. LockInv'
    BY <1>6 DEF Types, LockInv, Inside, wait, Goto
  <2> QED
    BY <2>1, <2>2
<1>7. ASSUME NEW t \in Task, wait_timeout(t) PROVE LInv'
  <2>1. Types'
    BY <1>7 DEF Types, wait_timeout, Goto
  <2>2. LockInv'
    BY <1>7 DEF Types, LockInv, Inside, wait_timeout, Goto
  <2> QED
    BY <2>1, <2>2
<1>8. ASSUME NEW t \in Task, do_read_async(t) PROVE LInv'
  <2>1. Types'
    BY <1>8 DEF Types, do_read_async, Goto, Runnable
  <2>2. LockInv'
    BY <1>8 DEF Types, LockInv, Inside, do_read_async, Goto, Runnable
  <2> QED
    BY <2>1, <2>2
<1>9. ASSUME NEW t \in Task, read_one_sector(t) PROVE LInv'
  <2>0. /\ cpu = t /\ pc[t] = "sector" /\ UNCHANGED <<eif, owners, raced>>
        /\ \/ Goto(t, "release") /\ UNCHANGED cpu
           \/ eif[t] /\ Goto(t, "sleep") /\ cpu' \in Runnable
           \/ UNCHANGED <<pc, cpu>>
    BY <1>9 DEF read_one_sector
  <2>1. Types'
    BY <2>0 DEF Types, Goto, Runnable
  <2>2. LockInv'
    BY <2>0 DEF Types, LockInv, Inside, Goto
  <2> QED
    BY <2>1, <2>2
<1>10. ASSUME NEW t \in Task, simplock_release(t) PROVE LInv'
  <2>1. Types'
    BY <1>10 DEF Types, simplock_release, Goto
  <2>2. LockInv'
    BY <1>10 DEF Types, LockInv, Inside, simplock_release, Goto
  <2> QED
    BY <2>1, <2>2
<1>11. ASSUME NEW t \in Task, NEW n, NEW r, NEW f \in BOOLEAN,
              hd_read(t, n, r, f)
       PROVE  LInv'
  <2>1. Types'
    BY <1>11 DEF Types, hd_read, Goto
  <2>2. LockInv'
    BY <1>11 DEF Types, LockInv, Inside, hd_read, Goto
  <2> QED
    BY <2>1, <2>2
<1>12. CASE clock_handler
  BY <1>12 DEF Types, LockInv, Inside, clock_handler, Interruptible, Runnable
<1>13. CASE data_ready
  BY <1>13 DEF Types, LockInv, Inside, data_ready
<1>14. CASE hd_irq_handler
  <2>1. UNCHANGED <<eif, owners, raced>> /\ Interruptible
    BY <1>14 DEF hd_irq_handler
  <2>2. ASSUME NEW t \in Sleepers, cpu' = t, Goto(t, "sector") PROVE LInv'
    BY <2>1, <2>2 DEF Types, LockInv, Inside, Interruptible, Sleepers, Goto
  <2>3. CASE UNCHANGED <<cpu, pc>>
    BY <2>1, <2>3 DEF Types, LockInv, Inside
  <2> QED
    BY <1>14, <2>2, <2>3 DEF hd_irq_handler
<1>15. ASSUME NEW t \in Task, simplock_take(t) PROVE LInv'
  <2>1. Types'
    BY <1>15 DEF Types, simplock_take, Goto
  <2>2. LockInv'
    BY <1>15 DEF Types, LockInv, Inside, simplock_take, Goto
  <2> QED
    BY <2>1, <2>2
<1>16. CASE UNCHANGED vars
  BY <1>16 DEF Types, LockInv, Inside, vars
<1> QED
  BY <1>1, <1>2, <1>3, <1>4, <1>5, <1>6, <1>7, <1>8, <1>9, <1>10, <1>11, <1>12, <1>13,
     <1>14, <1>15, <1>16 DEF Next, Step

-----------------------------------------------------------------------------
(* The data *)

SectorName == (Task \cup {NoTask}) \X Nat

DataTypes ==
    /\ count \in [Task -> Nat]
    /\ room \in [Task -> Nat]
    /\ got \in [Task -> Seq(SectorName)]
    /\ dev \in {"idle", "BSY", "DRQ"}
    /\ cmd \in Task \cup {NoTask}
    /\ left \in Nat
    /\ dev # "idle" => left > 0
    /\ \A t \in Task : pc[t] # "out" => count[t] > 0

\* The drive works for the owner of the lock and has what the owner has not
\* yet taken.
DataInv ==
    /\ owners = {} => dev = "idle"
    /\ \A t \in Task : pc[t] \in {"poll", "cmd", "release"} => dev = "idle"
    /\ \A t \in Task : pc[t] \in {"wait", "sleep", "sector"} =>
         dev # "idle" /\ cmd = t /\ left = count[t] - Len(got[t])
    /\ \A t \in Task : pc[t] = "sector" /\ eif[t] => dev = "DRQ"
    /\ \A t \in Task : pc[t] \in {"obtain", "take", "spin", "poll", "cmd"} => got[t] = <<>>
    /\ \A t \in Task : \A i \in 1 .. Len(got[t]) : got[t][i] = <<t, count[t] - i + 1>>

DInv == DataTypes /\ (~ raced /\ ~ astray => DataInv)

\* Initially the drive is idle and nobody has read.
LEMMA DataInit == Init => DInv
BY HarddiskAssumption DEF Init, DInv, DataTypes, DataInv, NoTask, SectorName

\* A sector that the reader takes is the next one of its own command.
LEMMA SectorStep ==
  ASSUME LInv, DInv, NEW t \in Task, read_one_sector(t)
  PROVE  DInv'
<1>0. /\ cpu = t /\ pc[t] = "sector" /\ UNCHANGED <<eif, owners, count, room, raced>>
      /\ got' = [got EXCEPT ![t] = Append(@, Sector)]
      /\ Transfer
  BY DEF read_one_sector
<1>1. Sector \in SectorName
  BY DEF Sector, Junk, SectorName, DInv, DataTypes
<1>2. /\ got'[t] = Append(got[t], Sector) /\ Len(got'[t]) = Len(got[t]) + 1
      /\ got' \in [Task -> Seq(SectorName)]
      /\ \A s \in Task : s # t => got'[s] = got[s]
      /\ Len(got[t]) \in Nat
  BY <1>0, <1>1 DEF DInv, DataTypes
<1>3. \A s \in Task : pc'[s] # "out" => pc[s] # "out"
  BY DEF LInv, Types, read_one_sector, Goto
<1>4. DataTypes'
  BY <1>0, <1>2, <1>3 DEF DInv, DataTypes, Transfer, drive
<1>5. ASSUME ~ raced', ~ astray' PROVE DataInv'
  <2>0. /\ ~ raced /\ ~ astray /\ DataInv
        /\ ~ eif[t] => dev = "DRQ" /\ (Ends(t) => left = 1)
    <3>1. astray' = (astray \/ (~ eif[t] /\ (dev # "DRQ" \/ (Ends(t) /\ left # 1))))
      BY DEF read_one_sector
    <3>2. ~ astray /\ (~ eif[t] => dev = "DRQ" /\ (Ends(t) => left = 1))
      BY <1>5, <3>1, Zenon
    <3>3. ~ raced
      BY <1>0, <1>5
    <3> QED
      BY <3>2, <3>3 DEF DInv
  <2>1. /\ dev = "DRQ" /\ cmd = t /\ left = count[t] - Len(got[t]) /\ left > 0 /\ t \in owners
        /\ left \in Nat /\ count[t] \in Nat /\ \A s \in owners : s = t
    BY <1>0, <2>0 DEF DInv, DataTypes, DataInv, LInv, LockInv, Inside
  <2>2. Sector = <<t, left>>
    BY <2>1 DEF Sector
  <2>3. \A i \in 1 .. Len(got'[t]) : got'[t][i] = <<t, count[t] - i + 1>>
    <3>1. \A i \in 1 .. Len(got[t]) : got'[t][i] = got[t][i]
      BY <1>1, <1>2 DEF DInv, DataTypes
    <3>2. got'[t][Len(got[t]) + 1] = <<t, left>>
      BY <1>1, <1>2, <2>2 DEF DInv, DataTypes
    <3>3. \A i \in 1 .. Len(got[t]) : got[t][i] = <<t, count[t] - i + 1>>
      BY <2>0 DEF DataInv
    <3>4. left = count[t] - (Len(got[t]) + 1) + 1
      BY <1>2, <2>1
    <3>5. \A i \in 1 .. Len(got'[t]) : i \in 1 .. Len(got[t]) \/ i = Len(got[t]) + 1
      BY <1>2
    <3> QED
      BY <3>1, <3>2, <3>3, <3>4, <3>5
  <2>4. \A s \in Task : \A i \in 1 .. Len(got'[s]) : got'[s][i] = <<s, count'[s] - i + 1>>
    BY <1>0, <1>2, <2>0, <2>3 DEF DataInv
  <2>5. \A s \in Task : s # t => pc[s] \in {"out", "obtain", "take", "spin"}
    BY <2>1 DEF LInv, Types, LockInv, Inside
  <2>6. CASE Ends(t)
    <3>1. left = 1 /\ dev' = "idle"
      BY <1>0, <1>2, <2>0, <2>1, <2>6 DEF Transfer, Ends
    <3>2. Goto(t, "release")
      BY <2>6 DEF read_one_sector
    <3>4. pc'[t] = "release" /\ \A s \in Task : s # t => pc'[s] = pc[s]
      BY <3>2 DEF Goto, LInv, Types
    <3> QED
      BY <1>0, <1>2, <2>0, <2>1, <2>4, <2>5, <3>1, <3>4 DEF DataInv
  <2>7. CASE ~ Ends(t)
    <3>1. left > 1 /\ dev' = "BSY" /\ cmd' = t /\ left' = count'[t] - Len(got'[t])
      BY <1>0, <1>2, <2>1, <2>7 DEF Transfer, Ends
    <3>2. CASE eif[t]
      <4>1. Goto(t, "sleep")
        BY <2>7, <3>2 DEF read_one_sector
      <4>2. pc'[t] = "sleep" /\ \A s \in Task : s # t => pc'[s] = pc[s]
        BY <4>1 DEF Goto, LInv, Types
      <4> QED
        BY <1>0, <1>2, <2>0, <2>1, <2>4, <2>5, <3>1, <4>2 DEF DataInv
    <3>3. CASE ~ eif[t]
      <4>1. UNCHANGED pc
        BY <2>7, <3>3 DEF read_one_sector
      <4> QED
        BY <1>0, <1>2, <2>0, <2>1, <2>4, <2>5, <3>1, <3>3, <4>1 DEF DataInv
    <3> QED
      BY <3>2, <3>3
  <2> QED
    BY <2>6, <2>7
<1> QED
  BY <1>0, <1>4, <1>5 DEF DInv

\* Every step keeps the data.
LEMMA DataNext ==
  ASSUME LInv, DInv, [Next]_vars
  PROVE  DInv'
<1>0. Idle \notin Task /\ NoTask = Idle
  BY HarddiskAssumption DEF NoTask
<1> USE <1>0 DEF DInv, drive, history
<1>1. ASSUME NEW t \in Task, simplock_obtain(t) PROVE DInv'
  <2>1. DataTypes'
    BY <1>1 DEF DataTypes, LInv, Types, simplock_obtain, Goto
  <2>2. ~ raced' /\ ~ astray' => DataInv'
    BY <1>1 DEF DataTypes, DataInv, LInv, Types, LockInv, Inside, simplock_obtain, Goto
  <2> QED
    BY <2>1, <2>2 DEF DInv
<1>2. ASSUME NEW t \in Task, simplock_wait(t) PROVE DInv'
  <2>1. DataTypes'
    BY <1>2 DEF DataTypes, LInv, Types, simplock_wait, Goto
  <2>2. ~ raced' /\ ~ astray' => DataInv'
    BY <1>2 DEF DataTypes, DataInv, LInv, Types, LockInv, Inside, simplock_wait, Goto
  <2> QED
    BY <2>1, <2>2 DEF DInv
<1>3. ASSUME NEW t \in Task, poll_busy(t) PROVE DInv'
  <2>1. DataTypes'
    BY <1>3 DEF DataTypes, LInv, Types, poll_busy, Goto
  <2>2. ~ raced' /\ ~ astray' => DataInv'
    BY <1>3 DEF DataTypes, DataInv, LInv, Types, LockInv, Inside, poll_busy, Goto
  <2> QED
    BY <2>1, <2>2 DEF DInv
<1>4. ASSUME NEW t \in Task, poll_timeout(t) PROVE DInv'
  <2>1. DataTypes'
    BY <1>4 DEF DataTypes, LInv, Types, poll_timeout, Goto
  <2>2. ~ raced' /\ ~ astray' => DataInv'
    BY <1>4 DEF DataTypes, DataInv, LInv, Types, LockInv, Inside, poll_timeout, Goto
  <2> QED
    BY <2>1, <2>2 DEF DInv
<1>5. ASSUME NEW t \in Task, do_read_sync(t) PROVE DInv'
  <2>1. DataTypes'
    BY <1>5 DEF DataTypes, LInv, Types, do_read_sync, Goto, Command
  <2>2. ~ raced' /\ ~ astray' => DataInv'
    BY <1>5 DEF DataTypes, DataInv, LInv, Types, LockInv, Inside, do_read_sync, Goto, Command
  <2> QED
    BY <2>1, <2>2 DEF DInv
<1>6. ASSUME NEW t \in Task, wait(t) PROVE DInv'
  <2>1. DataTypes'
    BY <1>6 DEF DataTypes, LInv, Types, wait, Goto
  <2>2. ~ raced' /\ ~ astray' => DataInv'
    BY <1>6 DEF DataTypes, DataInv, LInv, Types, LockInv, Inside, wait, Goto
  <2> QED
    BY <2>1, <2>2 DEF DInv
<1>7. ASSUME NEW t \in Task, wait_timeout(t) PROVE DInv'
  <2>1. DataTypes'
    BY <1>7 DEF DataTypes, LInv, Types, wait_timeout, Goto
  <2>2. ~ raced' /\ ~ astray' => DataInv'
    BY <1>7 DEF DataTypes, DataInv, LInv, Types, LockInv, Inside, wait_timeout, Goto
  <2> QED
    BY <2>1, <2>2 DEF DInv
<1>8. ASSUME NEW t \in Task, do_read_async(t) PROVE DInv'
  <2>1. DataTypes'
    BY <1>8 DEF DataTypes, LInv, Types, do_read_async, Goto, Command
  <2>2. ~ raced' /\ ~ astray' => DataInv'
    BY <1>8 DEF DataTypes, DataInv, LInv, Types, LockInv, Inside, do_read_async, Goto, Command
  <2> QED
    BY <2>1, <2>2 DEF DInv
<1>9. ASSUME NEW t \in Task, read_one_sector(t) PROVE DInv'
  BY <1>9, SectorStep
<1>10. ASSUME NEW t \in Task, simplock_release(t) PROVE DInv'
  <2>1. DataTypes'
    BY <1>10 DEF DataTypes, LInv, Types, simplock_release, Goto
  <2>2. ~ raced' /\ ~ astray' => DataInv'
    BY <1>10 DEF DataTypes, DataInv, LInv, Types, LockInv, Inside, simplock_release, Goto
  <2> QED
    BY <2>1, <2>2 DEF DInv
<1>11. ASSUME NEW t \in Task, NEW n \in Nat, NEW r \in Nat, NEW f \in BOOLEAN, n > 0,
              hd_read(t, n, r, f)
       PROVE  DInv'
  <2>1. DataTypes'
    BY <1>11 DEF DataTypes, LInv, Types, hd_read, Goto
  <2>2. ~ raced' /\ ~ astray' => DataInv'
    BY <1>11 DEF DataTypes, DataInv, LInv, Types, LockInv, Inside, hd_read, Goto
  <2> QED
    BY <2>1, <2>2
<1>12. CASE clock_handler
  BY <1>12 DEF DataTypes, DataInv, clock_handler
<1>13. CASE data_ready
  BY <1>13 DEF DataTypes, DataInv, data_ready
<1>14. CASE hd_irq_handler
  <2>1. UNCHANGED <<eif, count, room, got, owners, dev, cmd, left, raced, astray>>
    BY <1>14 DEF hd_irq_handler
  <2>2. ASSUME NEW t \in Sleepers, dev = "DRQ", Goto(t, "sector") PROVE DInv'
    <3>1. DataTypes'
      BY <2>1, <2>2 DEF DataTypes, LInv, Types, Sleepers, Goto
    <3>2. ~ raced' /\ ~ astray' => DataInv'
      BY <2>1, <2>2 DEF DataTypes, DataInv, LInv, Types, LockInv, Inside, Sleepers, Goto
    <3> QED
      BY <3>1, <3>2
  <2>3. CASE UNCHANGED <<cpu, pc>>
    BY <2>1, <2>3 DEF DataTypes, DataInv
  <2> QED
    BY <1>14, <2>2, <2>3 DEF hd_irq_handler
<1>15. CASE UNCHANGED vars
  BY <1>15 DEF DataTypes, DataInv, vars
<1>19. ASSUME NEW t \in Task, simplock_take(t) PROVE DInv'
  <2>1. DataTypes'
    BY <1>19 DEF DataTypes, LInv, Types, simplock_take, Goto
  <2>2. ~ raced' /\ ~ astray' => DataInv'
    BY <1>19 DEF DataTypes, DataInv, LInv, Types, LockInv, Inside, simplock_take, Goto
  <2> QED
    BY <2>1, <2>2
<1> HIDE DEF DInv, drive, history
<1>16. ASSUME NEW t \in Task, NEW n \in SyncCounts, NEW r \in 1 .. n, hd_read(t, n, r, FALSE)
       PROVE  DInv'
  <2>1. n \in Nat /\ n > 0
    BY HarddiskAssumption
  <2>2. r \in Nat
    BY <2>1
  <2> QED
    BY <1>11, <1>16, <2>1, <2>2
<1>17. ASSUME NEW t \in Task, NEW n \in AsyncCounts, hd_read(t, n, n, TRUE) PROVE DInv'
  <2>1. n \in Nat /\ n > 0
    BY HarddiskAssumption
  <2> QED
    BY <1>11, <1>17, <2>1
<1>18. ASSUME NEW t \in Task, Step(t) PROVE DInv'
  BY <1>1, <1>2, <1>3, <1>4, <1>5, <1>6, <1>7, <1>8, <1>9, <1>10, <1>18, <1>19 DEF Step
<1> QED
  BY <1>12, <1>13, <1>14, <1>15, <1>16, <1>17, <1>18 DEF Next

-----------------------------------------------------------------------------
(* The theorems *)

\* The CPU hangs in simplock_obtain only for the lock of a reader that can be
\* interrupted (lock.c:11, harddisk.c:100), for any number of tasks.
THEOREM HangNeedsReader == Spec => []HangCause
<1>1. LInv => HangCause
  BY DEF LInv, Types, LockInv, Inside, HangCause
<1> QED
  BY <1>1, LockInit, LockNext, PTL DEF Spec

\* Every reader gets the sectors it has asked for, once and in order
\* (harddisk.c: hd_irq_handler, do_read_async, do_read_sync), until two callers
\* have passed the lock's test together or a polled call and the drive have got
\* out of step.
THEOREM ReadersGetTheirOwn == Spec => []ReadsOwn
<1>1. Init => LInv /\ DInv
  BY LockInit, DataInit
<1>2. LInv /\ DInv /\ [Next]_vars => (LInv /\ DInv)'
  BY LockNext, DataNext
<1>3. DInv => ReadsOwn
  BY DEF DInv, DataInv, ReadsOwn
<1> QED
  BY <1>1, <1>2, <1>3, PTL DEF Spec
=============================================================================
