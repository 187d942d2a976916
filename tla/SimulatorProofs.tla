-------------------------- MODULE SimulatorProofs --------------------------
(***************************************************************************)
(* Proofs about Simulator for all intervals, delays, programs and numbers  *)
(* of crashes.                                                             *)
(***************************************************************************)
EXTENDS Simulator, NatProofs

-----------------------------------------------------------------------------
\* Remainders.

LEMMA Remainder ==
  ASSUME NEW t \in Nat, NEW n \in Nat \ {0}
  PROVE  /\ t % n \in 0 .. n - 1 /\ t \div n \in Nat
         /\ t = n * (t \div n) + (t % n)
  BY SMT

LEMMA UniqueRemainder ==
  ASSUME NEW n \in Nat \ {0}, NEW q \in Nat, NEW r \in 0 .. n - 1
  PROVE  (n * q + r) % n = r
  BY SMT

\* The remainder of the next number.
LEMMA NextRemainder ==
  ASSUME NEW t \in Nat, NEW n \in Nat \ {0}
  PROVE  (t + 1) % n = IF t % n = n - 1 THEN 0 ELSE (t % n) + 1
<1>1. PICK q \in Nat, r \in 0 .. n - 1 : t = n * q + r /\ t % n = r
  BY Remainder
<1>2. CASE r = n - 1
  <2>1. t + 1 = n * (q + 1) + 0  BY <1>1, <1>2, SMT
  <2> QED  BY <1>1, <1>2, <2>1, UniqueRemainder, SMT
<1>3. CASE r # n - 1
  <2>1. t + 1 = n * q + (r + 1) /\ r + 1 \in 0 .. n - 1  BY <1>1, <1>3, SMT
  <2> QED  BY <1>1, <1>3, <2>1, UniqueRemainder
<1>4. QED  BY <1>2, <1>3

\* A multiple of a multiple is a multiple.
LEMMA MultipleOfMultiple ==
  ASSUME NEW t \in Nat, NEW m \in Nat \ {0}, NEW n \in Nat \ {0},
         t % m = 0, m % n = 0
  PROVE  t % n = 0
<1> DEFINE j == t \div m
           k == m \div n
<1>1. j \in Nat /\ t = m * j + (t % m)  BY Remainder
<1>2. k \in Nat /\ m = n * k + (m % n)  BY Remainder
<1> HIDE DEF j, k
<1>3. t = m * j /\ m = n * k  BY <1>1, <1>2, SMT
<1>4. k * j \in Nat /\ t = n * (k * j) + 0 /\ 0 \in 0 .. n - 1
  BY <1>1, <1>2, <1>3, SMT
<1> DEFINE q == k * j
<1>5. q \in Nat /\ t = n * q + 0  BY <1>4
<1> HIDE DEF q
<1>6. (n * q + 0) % n = 0  BY <1>4, <1>5, UniqueRemainder
<1>7. QED  BY <1>5, <1>6

\* Time that wraps around at a multiple of n keeps its remainder.
LEMMA WrappedRemainder ==
  ASSUME NEW m \in Nat \ {0}, NEW n \in Nat \ {0}, m % n = 0, NEW t \in 0 .. m - 1
  PROVE  /\ (t + 1) % m \in 0 .. m - 1
         /\ ((t + 1) % m) % n = IF t % n = n - 1 THEN 0 ELSE (t % n) + 1
<1>1. t \in Nat /\ t + 1 \in Nat  BY SMT
<1>2. (t + 1) % n = IF t % n = n - 1 THEN 0 ELSE (t % n) + 1
  BY <1>1, NextRemainder
<1>3. t % m = t
  <2>1. t = m * 0 + t  BY SMT
  <2> QED  BY <2>1, UniqueRemainder
<1>4. (t + 1) % m = IF t = m - 1 THEN 0 ELSE t + 1
  <2>1. (t + 1) % m = IF t % m = m - 1 THEN 0 ELSE (t % m) + 1
    BY <1>1, NextRemainder
  <2> QED  BY <1>3, <2>1
<1>5. CASE t = m - 1
  <2>1. t + 1 = m /\ (t + 1) % m = 0  BY <1>4, <1>5, SMT
  <2>2. 0 % n = 0  BY UniqueRemainder, SMT
  <2>3. (t + 1) % n = 0  BY <2>1
  <2> QED  BY <1>2, <2>1, <2>2, <2>3, SMT
<1>6. CASE t # m - 1
  BY <1>2, <1>4, <1>6, SMT
<1>7. QED  BY <1>5, <1>6

\* A positive multiple is not smaller.
LEMMA MultipleIsLarge ==
  ASSUME NEW m \in Nat \ {0}, NEW n \in Nat \ {0}, m % n = 0
  PROVE  m >= n
<1> DEFINE k == m \div n
<1>1. k \in Nat /\ m = n * k + (m % n)  BY Remainder
<1> HIDE DEF k
<1>2. m = n * k /\ k # 0  BY <1>1, SMT
<1>3. QED  BY <1>1, <1>2, SMT

\* Every interval is even, and the later one a multiple of the earlier one.
LEMMA Intervals ==
  /\ HangInterval \in Nat \ {0} /\ BackupInterval \in Nat \ {0} /\ TimeMod \in Nat \ {0}
  /\ HangInterval > 4 /\ HangInterval % 2 = 0
  /\ BackupInterval % HangInterval = 0 /\ BackupInterval % 2 = 0
  /\ TimeMod % BackupInterval = 0 /\ TimeMod % HangInterval = 0 /\ TimeMod % 2 = 0
  /\ TimeMod > 4
<1>1. /\ HangInterval \in Nat \ {0} /\ BackupInterval \in Nat \ {0} /\ TimeMod \in Nat \ {0}
      /\ HangInterval > 4 /\ HangInterval % 2 = 0 /\ 2 \in Nat \ {0}
      /\ BackupInterval % HangInterval = 0 /\ TimeMod % BackupInterval = 0
  BY SimulatorAssumption, SMT
<1>2. BackupInterval % 2 = 0 /\ TimeMod % HangInterval = 0
  BY <1>1, MultipleOfMultiple
<1>3. TimeMod % 2 = 0
  BY <1>1, <1>2, MultipleOfMultiple
<1>4. TimeMod >= HangInterval
  BY <1>1, <1>2, MultipleIsLarge
<1>5. QED  BY <1>1, <1>2, <1>3, <1>4, SMT

LEMMA CycleModType == CycleMod \in Nat \ {0}
  BY Intervals, SMT DEF CycleMod

\* Time after another half cycle.
LEMMA NextTime ==
  ASSUME NEW t \in 0 .. TimeMod - 1
  PROVE  /\ (t + 1) % TimeMod \in 0 .. TimeMod - 1
         /\ ((t + 1) % TimeMod) % 2 = 1 - (t % 2)
         /\ ((t + 1) % TimeMod) % HangInterval =
              IF t % HangInterval = HangInterval - 1 THEN 0 ELSE (t % HangInterval) + 1
<1>1. /\ TimeMod \in Nat \ {0} /\ HangInterval \in Nat \ {0} /\ 2 \in Nat \ {0}
      /\ TimeMod % 2 = 0 /\ TimeMod % HangInterval = 0
  BY Intervals
<1>2. ((t + 1) % TimeMod) % 2 = IF t % 2 = 2 - 1 THEN 0 ELSE (t % 2) + 1
  BY <1>1, WrappedRemainder
<1>3. t % 2 \in 0 .. 1  BY SMT
<1>4. ((t + 1) % TimeMod) % HangInterval =
        IF t % HangInterval = HangInterval - 1 THEN 0 ELSE (t % HangInterval) + 1
  <2>1. \A m \in Nat \ {0}, n \in Nat \ {0} : \A u \in 0 .. m - 1 :
          m % n = 0 => ((u + 1) % m) % n = IF u % n = n - 1 THEN 0 ELSE (u % n) + 1
    BY WrappedRemainder
  <2> QED  BY <1>1, <2>1
<1>6. (t + 1) % TimeMod \in 0 .. TimeMod - 1
  <2>1. t + 1 \in Nat  BY SMT
  <2> QED  BY <1>1, <2>1, Remainder
<1>5. ((t + 1) % TimeMod) % 2 = 1 - (t % 2)
  BY <1>2, <1>3, SMT
<1>7. QED  BY <1>4, <1>5, <1>6

-----------------------------------------------------------------------------
\* Types.

LEMMA ResetCoreType ==
  /\ ResetCore \in Core /\ ResetCore.cycle = 0 /\ ResetCore.minstret = 0
  BY CycleModType, SimulatorAssumption, SMT DEF ResetCore, Core

\* A cycle of the core is counted once, and without an instruction that retires minstret
\* does not change.
LEMMA CoreCycleType ==
  ASSUME NEW c \in Core, NEW d \in CoreCycle(c)
  PROVE  /\ d \in Core
         /\ d.cycle = (c.cycle + 1) % CycleMod
         /\ ~d.retired => d.minstret = c.minstret
<1> DEFINE t == [c EXCEPT !.cycle = (@ + 1) % CycleMod, !.retired = FALSE]
<1>1. (c.cycle + 1) % CycleMod \in 0 .. CycleMod - 1
  <2>1. c.cycle + 1 \in Nat  BY SMT DEF Core
  <2> QED  BY <2>1, CycleModType, Remainder
<1>2. /\ t \in Core /\ t.cycle = (c.cycle + 1) % CycleMod /\ ~t.retired
      /\ t.minstret = c.minstret
  BY <1>1 DEF Core
<1> HIDE DEF t
<1>3. \/ d = [t EXCEPT !.sleep = IF @ > 0 THEN @ - 1 ELSE 0]
      \/ d = [t EXCEPT !.sleep = 0]
      \/ d = [t EXCEPT !.stuck = TRUE] \/ d = [t EXCEPT !.halt = TRUE]
      \/ d \in Retirements(t)
  BY DEF CoreCycle, t
<1>4. CASE d \in Retirements(t)
  <2> DEFINE u == [t EXCEPT !.minstret = @ + 1, !.retired = TRUE]
  <2>1. \/ t.minstret < MaxMinstret /\ (d = u \/ d = [u EXCEPT !.sleep = WFI_DELAY])
        \/ \E v \in 0 .. MaxMinstret : d = [t EXCEPT !.minstret = v, !.retired = TRUE]
    BY <1>4 DEF Retirements
  <2>2. ASSUME t.minstret < MaxMinstret  PROVE u \in Core /\ u.cycle = t.cycle /\ u.retired
    <3>1. t.minstret + 1 \in 0 .. MaxMinstret
      BY <1>2, <2>2, SimulatorAssumption, SMT DEF Core
    <3> QED  BY <1>2, <3>1 DEF Core
  <2>3. ASSUME NEW v \in 0 .. MaxMinstret, d = [t EXCEPT !.minstret = v, !.retired = TRUE]
        PROVE  d \in Core /\ d.cycle = t.cycle /\ d.retired
    BY <1>2, <2>3 DEF Core
  <2>4. ASSUME t.minstret < MaxMinstret, d = [u EXCEPT !.sleep = WFI_DELAY]
        PROVE  d \in Core /\ d.cycle = t.cycle /\ d.retired
    <3> HIDE DEF u
    <3> QED  BY <2>2, <2>4, SimulatorAssumption DEF Core
  <2> QED  BY <1>2, <2>1, <2>2, <2>3, <2>4
<1>5. CASE d = [t EXCEPT !.sleep = IF @ > 0 THEN @ - 1 ELSE 0] \/ d = [t EXCEPT !.sleep = 0]
  BY <1>2, <1>5, SMT DEF Core
<1>6. CASE d = [t EXCEPT !.stuck = TRUE] \/ d = [t EXCEPT !.halt = TRUE]
  BY <1>2, <1>6 DEF Core
<1>7. QED  BY <1>3, <1>4, <1>5, <1>6

\* The files: their types are those of the state they were written from.
LEMMA FilesType ==
  ASSUME SimTypeOK
  PROVE  /\ NoFile.full = FALSE /\ Partial = NoFile
         /\ modelFile.full => /\ modelFile.mainTime \in 0 .. TimeMod - 1
                              /\ modelFile.clk \in {0, 1} /\ modelFile.core \in Core
         /\ cosimFile.full => cosimFile.tb \in 0 .. CycleMod - 1
<1>1. NoFile.full = FALSE /\ Partial = NoFile
  BY DEF NoFile, Partial
<1>2. modelFile.full => modelFile \in
        [full : {TRUE}, mainTime : 0 .. TimeMod - 1, clk : {0, 1}, core : Core]
  BY <1>1 DEF SimTypeOK
<1>3. cosimFile.full => cosimFile \in [full : {TRUE}, tb : 0 .. CycleMod - 1]
  BY <1>1 DEF SimTypeOK
<1>4. QED  BY <1>1, <1>2, <1>3

\* Half a clock cycle keeps the types; the core has counted a cycle if the clock rose.
LEMMA HalfCycleType ==
  ASSUME SimTypeOK, HalfCycle
  PROVE  /\ mainTime' \in 0 .. TimeMod - 1 /\ clk' \in {0, 1} /\ core' \in Core
         /\ clk' = 1 - clk /\ mainTime' = (mainTime + 1) % TimeMod
         /\ clk = 0 => /\ core'.cycle = (core.cycle + 1) % CycleMod
                       /\ ~core'.retired => core'.minstret = core.minstret
         /\ clk = 1 => core' = core
<1>1. mainTime \in 0 .. TimeMod - 1 /\ clk \in {0, 1} /\ core \in Core
  BY DEF SimTypeOK
<1>2. mainTime' \in 0 .. TimeMod - 1
  BY <1>1, NextTime DEF HalfCycle
<1>3. CASE clk = 0
  <2>1. core' \in CoreCycle(core)  BY <1>3 DEF HalfCycle
  <2> QED  BY <1>1, <1>2, <1>3, <2>1, CoreCycleType DEF HalfCycle
<1>4. CASE clk = 1
  BY <1>1, <1>2, <1>4 DEF HalfCycle
<1>5. QED  BY <1>1, <1>3, <1>4

LEMMA NextTypeCorrect ==
  ASSUME SimTypeOK, [SimNext]_simVars
  PROVE  SimTypeOK'
<1>1. CASE Boot
  <2>1. ResetHalfCycles \in 0 .. TimeMod - 1 /\ ResetHalfCycles % 2 \in {0, 1}
        /\ ResetHalfCycles \in 0 .. HangInterval /\ RunOn \in 0 .. RunOn /\ 0 \in 0 .. MaxMinstret
        /\ 0 \in 0 .. CycleMod - 1
    BY Intervals, CycleModType, SimulatorAssumption, SMT DEF ResetHalfCycles
  <2>2. mainTime' = ResetHalfCycles /\ clk' = ResetHalfCycles % 2 /\ core' = ResetCore
        /\ lastMInstret' = 0 /\ tb' = 0 /\ quiet' = ResetHalfCycles /\ tampered' = FALSE
        /\ torn' = [torn EXCEPT !.run = FALSE] /\ at' = "loop" /\ left' = RunOn
        /\ UNCHANGED <<args, restoreSave, modelFile, cosimFile, kills>>
    BY <1>1 DEF Boot
  <2> QED  BY <2>1, <2>2, ResetCoreType DEF SimTypeOK, Where
<1>2. CASE Restore
  <2>1. modelFile.full /\ cosimFile.full  BY <1>2 DEF Restore
  <2>2. modelFile.core.minstret \in 0 .. MaxMinstret  BY <2>1, FilesType DEF Core
  <2>3. 0 \in 0 .. HangInterval /\ RunOn \in 0 .. RunOn
    BY Intervals, SimulatorAssumption, SMT
  <2> QED  BY <1>2, <2>1, <2>2, <2>3, FilesType DEF Restore, SimTypeOK, Where, fuzzVars
<1>3. CASE Iteration
  <2>1. mainTime' \in 0 .. TimeMod - 1 /\ clk' \in {0, 1} /\ core' \in Core
    BY <1>3, HalfCycleType DEF Iteration
  <2>2. tb' \in 0 .. CycleMod - 1
    <3>1. (tb + 1) % CycleMod \in 0 .. CycleMod - 1
      <4>1. tb + 1 \in Nat  BY SMT DEF SimTypeOK
      <4> QED  BY <4>1, CycleModType, Remainder
    <3> QED  BY <1>3, <3>1 DEF Iteration, LogInstructions, SimTypeOK
  <2>3. quiet' \in 0 .. HangInterval
    <3>1. quiet' = 0 \/ quiet' = quiet \/ (quiet < HangInterval /\ quiet' = quiet + 1)
      BY <1>3 DEF Iteration
    <3> QED  BY <3>1, Intervals, SMT DEF SimTypeOK
  <2>4. tampered' \in BOOLEAN
    BY <1>3 DEF Iteration
  <2>5. lastMInstret' \in 0 .. MaxMinstret /\ restoreSave' \in BOOLEAN /\ at' \in Where
    <3>1. core'.minstret \in 0 .. MaxMinstret  BY <2>1 DEF Core
    <3>2. /\ lastMInstret' = lastMInstret \/ lastMInstret' = core'.minstret
          /\ restoreSave' = restoreSave \/ restoreSave' = FALSE
          /\ at' \in {"drain", "hang", "save", "loop"}
      BY <1>3 DEF Iteration, AfterIteration
    <3> QED  BY <3>1, <3>2 DEF SimTypeOK, Where
  <2>6. UNCHANGED <<args, left, fileVars, kills>>
    BY <1>3 DEF Iteration
  <2> QED  BY <2>1, <2>2, <2>3, <2>4, <2>5, <2>6 DEF SimTypeOK, fileVars
<1>4. CASE Save
  <2>1. Snapshot \in [full : {TRUE}, mainTime : 0 .. TimeMod - 1, clk : {0, 1}, core : Core]
    BY DEF Snapshot, SimTypeOK
  <2>2. [full |-> TRUE, tb |-> tb] \in [full : {TRUE}, tb : 0 .. CycleMod - 1]
    BY DEF SimTypeOK
  <2>3. modelFile' \in {Partial, Snapshot, modelFile}
        /\ cosimFile' \in {Partial, [full |-> TRUE, tb |-> tb], cosimFile}
        /\ (torn' = torn \/ torn' = [torn EXCEPT !.files = torn.run])
        /\ at' \in {"model", "cosim", "state", "loop"}
    BY <1>4 DEF Save
  <2>4. UNCHANGED <<args, left, mainTime, clk, restoreSave, lastMInstret, core, tb, quiet,
                    tampered, kills>>
    BY <1>4 DEF Save
  <2>5. torn' \in [files : BOOLEAN, run : BOOLEAN]
    BY <2>3 DEF SimTypeOK
  <2>6. /\ modelFile' \in {NoFile} \cup
             [full : {TRUE}, mainTime : 0 .. TimeMod - 1, clk : {0, 1}, core : Core]
        /\ cosimFile' \in {NoFile} \cup [full : {TRUE}, tb : 0 .. CycleMod - 1]
    BY <2>1, <2>2, <2>3, FilesType DEF SimTypeOK
  <2> QED  BY <2>3, <2>4, <2>5, <2>6 DEF SimTypeOK, Where
<1>5. CASE Halt
  BY <1>5 DEF Halt, SimTypeOK, Where, fileVars
<1>6. CASE Drain
  <2>1. mainTime' \in 0 .. TimeMod - 1 /\ clk' \in {0, 1} /\ core' \in Core
    BY <1>6, HalfCycleType DEF Drain
  <2>2. left' \in 0 .. RunOn
    BY <1>6, SimulatorAssumption, SMT DEF Drain, SimTypeOK
  <2> QED  BY <1>6, <2>1, <2>2 DEF Drain, SimTypeOK, fileVars
<1>7. CASE Finish
  BY <1>7 DEF Finish, SimTypeOK, Where, fileVars
<1>8. CASE Kill
  <2>1. kills' \in 0 .. MaxKills
    BY <1>8, SimulatorAssumption, SMT DEF Kill, SimTypeOK
  <2>2. torn' \in [files : BOOLEAN, run : BOOLEAN]
    BY <1>8 DEF Kill, SimTypeOK
  <2> QED  BY <1>8, <2>1, <2>2 DEF Kill, SimTypeOK, Where
<1>9. CASE Restart
  BY <1>9 DEF Restart, SimTypeOK, Where, fileVars
<1>10. CASE UNCHANGED simVars
  BY <1>10 DEF SimTypeOK, simVars, runVars, fileVars
<1>11. QED  BY <1>1, <1>2, <1>3, <1>4, <1>5, <1>6, <1>7, <1>8, <1>9, <1>10 DEF SimNext, Process

LEMMA InitTypeCorrect == SimInit => SimTypeOK
<1>1. RESET_DELAY \in Nat /\ 0 \in 0 .. TimeMod - 1 /\ 0 \in 0 .. CycleMod - 1
      /\ 0 \in 0 .. HangInterval /\ 0 \in 0 .. MaxMinstret /\ 0 \in 0 .. RunOn /\ 0 \in 0 .. MaxKills
  BY Intervals, CycleModType, SimulatorAssumption, SMT
<1> SUFFICES ASSUME SimInit PROVE SimTypeOK  OBVIOUS
<1>2. [files |-> FALSE, run |-> FALSE] \in [files : BOOLEAN, run : BOOLEAN]
  OBVIOUS
<1>3. /\ modelFile = NoFile /\ cosimFile = NoFile /\ torn = [files |-> FALSE, run |-> FALSE]
      /\ core = ResetCore /\ args \in Args /\ at = "start" /\ left = 0 /\ mainTime = 0
      /\ clk = 0 /\ restoreSave = FALSE /\ lastMInstret = 0 /\ tb = 0 /\ quiet = 0
      /\ tampered = FALSE /\ kills = 0
  BY DEF SimInit
<1>4. QED  BY <1>1, <1>2, <1>3, ResetCoreType DEF SimTypeOK, Where

\* The variables, the files of a backup and the core have their types in every state.
THEOREM SimTypeCorrect == SimSpec => []SimTypeOK
<1>1. SimInit => SimTypeOK  BY InitTypeCorrect
<1>2. SimTypeOK /\ [SimNext]_simVars => SimTypeOK'  BY NextTypeCorrect
<1>3. QED  BY <1>1, <1>2, PTL DEF SimSpec

-----------------------------------------------------------------------------
\* Backups are taken while the clock is low.

\* The parity of the time is the level of the clock; the time stands still during Save.
ClockInv ==
  /\ clk = mainTime % 2
  /\ at \in {"save", "model"} => mainTime % BackupInterval = 0
  /\ BackupAtLowClock

LEMMA BackupTimeIsEven ==
  ASSUME NEW t \in 0 .. TimeMod - 1, t % BackupInterval = 0
  PROVE  t % 2 = 0 /\ t % HangInterval = 0
<1>1. t \in Nat /\ BackupInterval \in Nat \ {0} /\ HangInterval \in Nat \ {0} /\ 2 \in Nat \ {0}
      /\ BackupInterval % 2 = 0 /\ BackupInterval % HangInterval = 0
  BY Intervals, SMT
<1>2. QED  BY <1>1, MultipleOfMultiple

\* Another half cycle: the clock still shows the parity.
LEMMA HalfCycleClock ==
  ASSUME SimTypeOK, clk = mainTime % 2, HalfCycle
  PROVE  clk' = mainTime' % 2
<1>1. mainTime \in 0 .. TimeMod - 1  BY DEF SimTypeOK
<1>2. clk' = 1 - clk /\ mainTime' = (mainTime + 1) % TimeMod
  BY HalfCycleType
<1>3. QED  BY <1>1, <1>2, NextTime

LEMMA NextClock ==
  ASSUME SimTypeOK, ClockInv, [SimNext]_simVars
  PROVE  ClockInv'
<1>1. CASE Boot
  <2>1. clk' = mainTime' % 2 /\ at' = "loop" /\ modelFile' = modelFile
    BY <1>1 DEF Boot
  <2> QED  BY <2>1 DEF ClockInv, BackupAtLowClock
<1>2. CASE Restore
  <2>1. modelFile.full /\ at' = "loop" /\ modelFile' = modelFile
        /\ mainTime' = modelFile.mainTime /\ clk' = modelFile.clk
    BY <1>2 DEF Restore
  <2>2. clk' = 0 /\ mainTime' % BackupInterval = 0 /\ mainTime' \in 0 .. TimeMod - 1
    BY <2>1, FilesType DEF ClockInv, BackupAtLowClock
  <2>3. mainTime' % 2 = 0  BY <2>2, BackupTimeIsEven
  <2> QED  BY <2>1, <2>2, <2>3 DEF ClockInv, BackupAtLowClock
<1>3. CASE Iteration
  <2>1. clk' = mainTime' % 2
    BY <1>3, HalfCycleClock DEF Iteration, ClockInv
  <2>2. /\ at' \in {"save", "model"} => mainTime' % BackupInterval = 0
        /\ modelFile' = modelFile
    BY <1>3 DEF Iteration, SaveDue, fileVars
  <2> QED  BY <2>1, <2>2 DEF ClockInv, BackupAtLowClock
<1>4. CASE Save
  <2>1. UNCHANGED <<mainTime, clk>>  BY <1>4 DEF Save
  <2>2. CASE at = "save" /\ at' = "model" /\ modelFile' = Partial
    BY <2>1, <2>2, FilesType DEF ClockInv, BackupAtLowClock
  <2>3. CASE at = "model" /\ at' = "cosim" /\ modelFile' = Snapshot
    <3>1. mainTime \in 0 .. TimeMod - 1 /\ mainTime % BackupInterval = 0
      BY <2>3 DEF SimTypeOK, ClockInv
    <3>2. clk = 0  BY <3>1, BackupTimeIsEven DEF ClockInv
    <3>3. modelFile'.clk = clk /\ modelFile'.mainTime = mainTime
      BY <2>3 DEF Snapshot
    <3> QED  BY <2>1, <2>3, <3>1, <3>2, <3>3 DEF ClockInv, BackupAtLowClock
  <2>4. CASE at' \in {"state", "loop"} /\ modelFile' = modelFile
    BY <2>1, <2>4 DEF ClockInv, BackupAtLowClock
  <2> QED  BY <1>4, <2>2, <2>3, <2>4 DEF Save
<1>5. CASE Halt
  BY <1>5 DEF Halt, ClockInv, BackupAtLowClock, fileVars
<1>6. CASE Drain
  <2>1. clk' = mainTime' % 2
    BY <1>6, HalfCycleClock DEF Drain, ClockInv
  <2> QED  BY <1>6, <2>1 DEF Drain, ClockInv, BackupAtLowClock, fileVars
<1>7. CASE Finish
  <2>1. at' \in {"start", "done"}  BY <1>7 DEF Finish
  <2> QED  BY <1>7, <2>1 DEF Finish, ClockInv, BackupAtLowClock, fileVars
<1>8. CASE Kill
  BY <1>8 DEF Kill, ClockInv, BackupAtLowClock
<1>9. CASE Restart
  BY <1>9 DEF Restart, ClockInv, BackupAtLowClock, fileVars
<1>10. CASE UNCHANGED simVars
  BY <1>10 DEF ClockInv, BackupAtLowClock, simVars, runVars, fileVars
<1>11. QED  BY <1>1, <1>2, <1>3, <1>4, <1>5, <1>6, <1>7, <1>8, <1>9, <1>10 DEF SimNext, Process

LEMMA ClockInvariant == SimSpec => [](SimTypeOK /\ ClockInv)
<1>1. SimInit => SimTypeOK /\ ClockInv
  <2>1. 0 % 2 = 0  BY SMT
  <2>2. SimInit => SimTypeOK  BY InitTypeCorrect
  <2>3. SimInit => ClockInv
    BY <2>1 DEF SimInit, ClockInv, BackupAtLowClock, NoFile
  <2> QED  BY <2>2, <2>3
<1>2. SimTypeOK /\ ClockInv /\ [SimNext]_simVars => (SimTypeOK /\ ClockInv)'
  BY NextTypeCorrect, NextClock
<1>3. QED  BY <1>1, <1>2, PTL DEF SimSpec

\* Whatever the intervals, and whenever the process is killed: a backup that is complete was
\* taken at a multiple of the interval, with the clock low (run_sim, Save, save_model).
THEOREM BackupsAtLowClock == SimSpec => []BackupAtLowClock
<1>1. SimTypeOK /\ ClockInv => BackupAtLowClock  BY DEF ClockInv
<1>2. QED  BY <1>1, ClockInvariant, PTL

-----------------------------------------------------------------------------
\* The testbench stays in step with the core.

\* Where the loop runs or writes a backup.
Running == {"loop", "save", "model", "cosim", "state"}

\* The testbench has logged the cycles of the core; the model in a file that Save has
\* written but whose partner it has not is the core; the two files of a backup agree
\* unless one of them was left behind.
StepInv ==
  /\ at \in Running \cup {"hang"} /\ ~torn.run => tb = core.cycle
  /\ at \in {"cosim", "state"} => modelFile.full /\ modelFile.core = core
  /\ at # "cosim" /\ modelFile.full /\ cosimFile.full /\ ~torn.files =>
       cosimFile.tb = modelFile.core.cycle

LEMMA NextStep ==
  ASSUME SimTypeOK, StepInv, [SimNext]_simVars
  PROVE  StepInv'
<1>1. CASE Boot
  <2>1. at' = "loop" /\ tb' = 0 /\ core' = ResetCore /\ torn' = [torn EXCEPT !.run = FALSE]
        /\ at = "start" /\ modelFile' = modelFile /\ cosimFile' = cosimFile
    BY <1>1 DEF Boot
  <2>2. torn'.files = torn.files  BY <2>1 DEF SimTypeOK
  <2> QED  BY <2>1, <2>2, ResetCoreType DEF StepInv
<1>2. CASE Restore
  <2>1. /\ at = "start" /\ at' = "loop" /\ modelFile.full /\ cosimFile.full
        /\ modelFile' = modelFile /\ cosimFile' = cosimFile
        /\ core' = modelFile.core /\ tb' = cosimFile.tb /\ torn' = [torn EXCEPT !.run = torn.files]
    BY <1>2 DEF Restore
  <2>2. torn'.files = torn.files /\ torn'.run = torn.files  BY <2>1 DEF SimTypeOK
  <2> QED  BY <2>1, <2>2 DEF StepInv
<1>3. CASE Iteration
  <2>1. /\ at = "loop" /\ at' \in {"drain", "hang", "save", "loop"}
        /\ modelFile' = modelFile /\ cosimFile' = cosimFile /\ torn' = torn
        /\ tb' = IF clk' = 1 THEN (tb + 1) % CycleMod ELSE tb
    BY <1>3 DEF Iteration, LogInstructions, fileVars
  <2>2. /\ clk \in {0, 1} /\ clk' = 1 - clk
        /\ clk = 0 => core'.cycle = (core.cycle + 1) % CycleMod
        /\ clk = 1 => core' = core
    BY <1>3, HalfCycleType DEF Iteration, SimTypeOK
  <2>3. ~torn.run => tb' = core'.cycle
    <3>1. ~torn.run => tb = core.cycle  BY <2>1 DEF StepInv, Running
    <3>2. clk = 0 => clk' = 1  BY <2>2, SMT
    <3>3. clk = 1 => clk' # 1  BY <2>2, SMT
    <3> QED  BY <2>1, <2>2, <3>1, <3>2, <3>3
  <2> QED  BY <2>1, <2>3 DEF StepInv
<1>4. CASE Save
  <2>1. UNCHANGED <<core, tb>>  BY <1>4 DEF Save
  <2>2. CASE at = "save" /\ at' = "model" /\ modelFile' = Partial /\ UNCHANGED <<cosimFile, torn>>
    <3>1. ~modelFile'.full  BY <2>2, FilesType
    <3> QED  BY <2>1, <2>2, <3>1 DEF StepInv, Running
  <2>3. CASE at = "model" /\ at' = "cosim" /\ modelFile' = Snapshot /\ UNCHANGED <<cosimFile, torn>>
    <3>1. modelFile'.full /\ modelFile'.core = core  BY <2>3 DEF Snapshot
    <3> QED  BY <2>1, <2>3, <3>1 DEF StepInv, Running
  <2>4. CASE at = "cosim" /\ at' = "state" /\ cosimFile' = Partial /\ UNCHANGED <<modelFile, torn>>
    <3>1. ~cosimFile'.full  BY <2>4, FilesType
    <3> QED  BY <2>1, <2>4, <3>1 DEF StepInv, Running
  <2>5. CASE at = "state" /\ at' = "loop" /\ cosimFile' = [full |-> TRUE, tb |-> tb]
             /\ torn' = [torn EXCEPT !.files = torn.run] /\ UNCHANGED modelFile
    <3>1. cosimFile'.tb = tb  BY <2>5
    <3>2. torn'.files = torn.run /\ torn'.run = torn.run  BY <2>5 DEF SimTypeOK
    <3>3. modelFile.core = core  BY <2>5 DEF StepInv
    <3>4. ~torn.run => tb = core.cycle  BY <2>5 DEF StepInv, Running
    <3> QED  BY <2>1, <2>5, <3>1, <3>2, <3>3, <3>4 DEF StepInv
  <2> QED  BY <1>4, <2>2, <2>3, <2>4, <2>5 DEF Save
<1>5. CASE Halt
  <2>1. at' = "drain" /\ at = "loop" /\ UNCHANGED fileVars  BY <1>5 DEF Halt
  <2> QED  BY <2>1 DEF StepInv, Running, fileVars
<1>6. CASE Drain
  <2>1. at' = "drain" /\ at = "drain" /\ UNCHANGED fileVars  BY <1>6 DEF Drain
  <2> QED  BY <2>1 DEF StepInv, Running, fileVars
<1>7. CASE Finish
  <2>1. at' \in {"start", "done"} /\ at = "drain" /\ UNCHANGED fileVars  BY <1>7 DEF Finish
  <2> QED  BY <2>1 DEF StepInv, Running, fileVars
<1>8. CASE Kill
  <2>1. at' = "dead" /\ UNCHANGED <<modelFile, cosimFile>>
        /\ torn' = [torn EXCEPT !.files = torn.files \/ at = "cosim"]
    BY <1>8 DEF Kill
  <2>2. ~torn'.files => ~torn.files /\ at # "cosim"  BY <2>1 DEF SimTypeOK
  <2> QED  BY <2>1, <2>2 DEF StepInv, Running
<1>9. CASE Restart
  <2>1. at' = "start" /\ at = "dead" /\ UNCHANGED fileVars  BY <1>9 DEF Restart
  <2> QED  BY <2>1 DEF StepInv, Running, fileVars
<1>10. CASE UNCHANGED simVars
  BY <1>10 DEF StepInv, simVars, runVars, fileVars
<1>11. QED  BY <1>1, <1>2, <1>3, <1>4, <1>5, <1>6, <1>7, <1>8, <1>9, <1>10 DEF SimNext, Process

\* The testbench logs every cycle of the core once, whenever the process is killed and
\* whichever backup it restarts from, unless that consists of files of two different backups
\* (run_sim, Save, Restore).
THEOREM TestbenchInStep == SimSpec => []InStep
<1>1. SimInit => StepInv
  BY DEF SimInit, StepInv, Running, NoFile
<1>2. SimTypeOK /\ StepInv /\ [SimNext]_simVars => StepInv'
  BY NextStep
<1>3. StepInv => InStep
  BY DEF StepInv, InStep, Running
<1>4. QED  BY <1>1, <1>2, <1>3, SimTypeCorrect, PTL DEF SimSpec

-----------------------------------------------------------------------------
\* Only a core that hangs is reported.

\* As long as only instructions change minstret: it never falls behind its value at the last
\* check, and while it is still that value, no instruction has retired since.
HangInv ==
  /\ at \in Running /\ ~tampered =>
       /\ core.minstret >= lastMInstret
       /\ core.minstret = lastMInstret => quiet >= mainTime % HangInterval
  /\ HangIsReal

\* What half a cycle does to minstret and to the history.
LEMMA IterationProgress ==
  ASSUME SimTypeOK, HangInv, Iteration, ~tampered'
  PROVE  /\ core'.minstret \in Nat /\ lastMInstret \in Nat /\ core'.minstret >= lastMInstret
         /\ core'.minstret = lastMInstret =>
              /\ quiet' >= mainTime' % HangInterval
              /\ mainTime' % HangInterval = 0 => quiet' >= HangInterval
<1>1. /\ clk \in {0, 1} /\ clk' = 1 - clk /\ mainTime' = (mainTime + 1) % TimeMod
      /\ core' \in Core /\ core \in Core
      /\ clk = 0 => (~core'.retired => core'.minstret = core.minstret)
      /\ clk = 1 => core' = core
  BY HalfCycleType DEF Iteration, SimTypeOK
<1>2. /\ core.minstret \in Nat /\ core'.minstret \in Nat /\ lastMInstret \in Nat
      /\ quiet \in 0 .. HangInterval /\ mainTime \in 0 .. TimeMod - 1
  BY <1>1, SimulatorAssumption, SMT DEF SimTypeOK, Core
<1>3. ~tampered /\ ~(clk' = 1 /\ core'.retired /\ core'.minstret # core.minstret + 1)
  BY DEF Iteration
<1>4. /\ core.minstret >= lastMInstret
      /\ core.minstret = lastMInstret => quiet >= mainTime % HangInterval
  BY <1>3 DEF HangInv, Running, Iteration
<1>5. mainTime' % HangInterval =
        IF mainTime % HangInterval = HangInterval - 1 THEN 0 ELSE (mainTime % HangInterval) + 1
  BY <1>1, <1>2, NextTime
<1>6. mainTime % HangInterval \in 0 .. HangInterval - 1 /\ HangInterval \in Nat \ {0}
  BY <1>2, Intervals, Remainder, SMT
<1>7. quiet' = IF clk' = 1 /\ core'.retired THEN 0
               ELSE IF quiet < HangInterval THEN quiet + 1 ELSE quiet
  BY DEF Iteration
<1>8. CASE clk' = 1 /\ core'.retired
  <2>1. core'.minstret = core.minstret + 1  BY <1>3, <1>8
  <2> QED  BY <1>2, <1>4, <2>1, SMT
<1>9. CASE ~(clk' = 1 /\ core'.retired)
  <2>1. core'.minstret = core.minstret
    <3>1. clk = 0 => clk' = 1  BY <1>1, SMT
    <3> QED  BY <1>1, <1>9, <3>1
  <2>2. quiet' = IF quiet < HangInterval THEN quiet + 1 ELSE quiet  BY <1>7, <1>9
  <2>3. ASSUME core'.minstret = lastMInstret
        PROVE  /\ quiet' >= mainTime' % HangInterval
               /\ mainTime' % HangInterval = 0 => quiet' >= HangInterval
    <3>1. quiet >= mainTime % HangInterval  BY <1>4, <2>1, <2>3
    <3> DEFINE r == mainTime % HangInterval
               s == mainTime' % HangInterval
    <3>2. quiet >= r /\ r \in 0 .. HangInterval - 1
          /\ s = IF r = HangInterval - 1 THEN 0 ELSE r + 1
      BY <1>5, <1>6, <3>1
    <3> HIDE DEF r, s
    <3>3. quiet' >= s /\ (s = 0 => quiet' >= HangInterval)
      BY <1>2, <1>6, <2>2, <3>2, SMT
    <3> QED  BY <3>3 DEF s
  <2> QED  BY <1>2, <1>4, <2>1, <2>3
<1>10. QED  BY <1>8, <1>9

LEMMA NextHang ==
  ASSUME SimTypeOK, ClockInv, HangInv, [SimNext]_simVars
  PROVE  HangInv'
<1>1. CASE Boot
  <2>1. at' = "loop" /\ core' = ResetCore /\ lastMInstret' = 0
        /\ quiet' = ResetHalfCycles /\ mainTime' = ResetHalfCycles
    BY <1>1 DEF Boot
  <2>2. 4 % HangInterval = 4
    <3>1. HangInterval \in Nat \ {0} /\ 4 \in 0 .. HangInterval - 1 /\ HangInterval * 0 + 4 = 4
      BY Intervals, SMT
    <3> QED  BY <3>1, UniqueRemainder
  <2>3. quiet' >= mainTime' % HangInterval  BY <2>1, <2>2, SMT DEF ResetHalfCycles
  <2>4. core'.minstret >= lastMInstret'  BY <2>1, ResetCoreType, SMT
  <2> QED  BY <2>1, <2>3, <2>4 DEF HangInv, HangIsReal
<1>2. CASE Restore
  <2>1. /\ at' = "loop" /\ modelFile.full /\ core' = modelFile.core /\ quiet' = 0
        /\ lastMInstret' = modelFile.core.minstret /\ mainTime' = modelFile.mainTime
    BY <1>2 DEF Restore
  <2>2. modelFile.core.minstret \in Nat /\ modelFile.mainTime \in 0 .. TimeMod - 1
    BY <2>1, FilesType, SimulatorAssumption, SMT DEF Core
  <2>3. modelFile.mainTime % HangInterval = 0
    BY <2>1, <2>2, BackupTimeIsEven DEF ClockInv, BackupAtLowClock
  <2>4. quiet' >= mainTime' % HangInterval  BY <2>1, <2>3, SMT
  <2>5. core'.minstret >= lastMInstret'  BY <2>1, <2>2, SMT
  <2> QED  BY <2>1, <2>4, <2>5 DEF HangInv, HangIsReal
<1>3. CASE Iteration
  <2> DEFINE hung == HangCheck(mainTime', core') /\ core'.minstret = lastMInstret
  <2>1. \/ at' = "drain"
        \/ hung /\ at' = "hang"
        \/ /\ ~hung /\ at' \in {"save", "loop"}
           /\ lastMInstret' = IF HangCheck(mainTime', core') THEN core'.minstret ELSE lastMInstret
    BY <1>3 DEF Iteration
  <2>2. CASE at' = "drain"
    BY <2>2 DEF HangInv, HangIsReal, Running
  <2>3. CASE hung /\ at' = "hang"
    <3>1. /\ core'.sleep = 0 /\ mainTime' % HangInterval = 0 /\ core'.minstret = lastMInstret
      BY <2>3 DEF HangCheck
    <3>2. ~tampered' => quiet' >= HangInterval  BY <1>3, <3>1, IterationProgress
    <3> QED  BY <2>3, <3>1, <3>2 DEF HangInv, HangIsReal, Running
  <2>4. CASE /\ at' \in {"save", "loop"}
             /\ lastMInstret' = IF HangCheck(mainTime', core') THEN core'.minstret ELSE lastMInstret
    <3>1. ASSUME ~tampered', HangCheck(mainTime', core')
          PROVE  /\ core'.minstret >= lastMInstret' /\ quiet' >= mainTime' % HangInterval
      <4>1. mainTime' % HangInterval = 0  BY <3>1 DEF HangCheck
      <4>2. lastMInstret' = core'.minstret /\ core'.minstret \in Nat
        BY <1>3, <2>4, <3>1, IterationProgress
      <4>3. quiet' \in Nat
        <5>1. SimTypeOK'  BY NextTypeCorrect
        <5> QED  BY <5>1, Intervals, SMT DEF SimTypeOK
      <4> QED  BY <4>1, <4>2, <4>3, SMT
    <3>2. ASSUME ~tampered', ~HangCheck(mainTime', core')
          PROVE  /\ core'.minstret >= lastMInstret'
                 /\ core'.minstret = lastMInstret' => quiet' >= mainTime' % HangInterval
      BY <1>3, <2>4, <3>2, IterationProgress
    <3> QED  BY <2>4, <3>1, <3>2 DEF HangInv, HangIsReal
  <2> QED  BY <2>1, <2>2, <2>3, <2>4
<1>4. CASE Save
  <2>1. /\ UNCHANGED <<mainTime, lastMInstret, core, quiet, tampered>>
        /\ at \in Running /\ at' \in Running /\ at' # "hang"
    BY <1>4 DEF Save, Running
  <2> QED  BY <2>1 DEF HangInv, HangIsReal
<1>5. CASE Halt \/ Drain \/ Finish \/ Kill \/ Restart
  <2>1. at' \notin Running /\ at' # "hang"
    BY <1>5 DEF Halt, Drain, Finish, Kill, Restart, Running
  <2> QED  BY <2>1 DEF HangInv, HangIsReal
<1>6. CASE UNCHANGED simVars
  BY <1>6 DEF HangInv, HangIsReal, simVars, runVars
<1>7. QED  BY <1>1, <1>2, <1>3, <1>4, <1>5, <1>6 DEF SimNext, Process

\* Whatever the interval, the core and the crashes: a hang is only reported for a core that is
\* awake and has not retired an instruction for a whole interval, or whose program has
\* changed minstret (run_sim, hang detection).
THEOREM HangsAreReal == SimSpec => []HangIsReal
<1>1. SimInit => HangInv
  BY DEF SimInit, HangInv, HangIsReal, Running
<1>2. SimTypeOK /\ ClockInv /\ HangInv /\ [SimNext]_simVars => HangInv'
  BY NextHang
<1>3. HangInv => HangIsReal  BY DEF HangInv
<1>4. QED  BY <1>1, <1>2, <1>3, ClockInvariant, PTL DEF SimSpec

-----------------------------------------------------------------------------
\* Test cases in memory.

\* Where the instructions of a test case start.
LEMMA StartIs ==
  ASSUME NEW prog, Len(prog) \in Nat, NEW k \in 1 .. Len(prog) + 1
  PROVE  Start(prog, k) = IF k = 1 THEN 0 ELSE Start(prog, k - 1) + GetSize(prog[k - 1])
<1> DEFINE c == [j \in 1 .. Len(prog) |-> GetSize(prog[j])]
           IsStart(f) == f = [j \in 1 .. Len(prog) + 1 |->
                                IF j = 1 THEN 0 ELSE f[j - 1] + GetSize(prog[j - 1])]
           start == CHOOSE f : IsStart(f)
<1>1. PICK f : f = [j \in 1 .. Len(prog) + 1 |-> IF j = 1 THEN 0 ELSE f[j - 1] + c[j - 1]]
  <2> HIDE DEF c
  <2> QED  BY SumsExist
<1>2. \A j \in 1 .. Len(prog) + 1 : j # 1 => j - 1 \in 1 .. Len(prog)  BY SMT
<1>3. \A j \in 1 .. Len(prog) + 1 : j # 1 => c[j - 1] = GetSize(prog[j - 1])  BY <1>2
<1>4. IsStart(f)
  <2> HIDE DEF c
  <2> QED  BY <1>1, <1>3
<1>5. IsStart(start)
  <2> HIDE DEF IsStart
  <2> QED  BY <1>4
<1>6. \A j : Start(prog, j) = start[j]  BY DEF Start
<1>7. start[k] = IF k = 1 THEN 0 ELSE start[k - 1] + GetSize(prog[k - 1])
  <2> HIDE DEF start
  <2> QED  BY <1>5
<1> HIDE DEF start
<1>8. QED  BY <1>6, <1>7

\* What is loaded from the halfword after i on, when f is what is loaded from later ones.
LoadStep(mem, f, i) ==
  IF i = Len(mem) THEN << >>
  ELSE LET long == mem[i + 1] % 4 = 3
       IN  IF ~long THEN << [lo |-> mem[i + 1], hi |-> 0] >> \o f[i + 1]
           ELSE IF i + 1 = Len(mem) THEN << >>
           ELSE << [lo |-> mem[i + 1], hi |-> mem[i + 2]] >> \o f[i + 2]

Loads(mem) == CHOOSE f : f = [i \in 0 .. Len(mem) |-> LoadStep(mem, f, i)]

\* A step depends on later ones only.
LEMMA LoadStepLocal ==
  ASSUME NEW mem, Len(mem) \in Nat, NEW f, NEW g, NEW i \in 0 .. Len(mem),
         \A j \in i + 1 .. Len(mem) : f[j] = g[j]
  PROVE  LoadStep(mem, f, i) = LoadStep(mem, g, i)
<1>1. i # Len(mem) => i + 1 \in i + 1 .. Len(mem)  BY SMT
<1>2. i # Len(mem) /\ i + 1 # Len(mem) => i + 2 \in i + 1 .. Len(mem)  BY SMT
<1>3. i # Len(mem) => f[i + 1] = g[i + 1]  BY <1>1
<1>4. i # Len(mem) /\ i + 1 # Len(mem) => f[i + 2] = g[i + 2]  BY <1>2
<1>5. QED  BY <1>3, <1>4 DEF LoadStep

LEMMA LoadIs ==
  ASSUME NEW mem, Len(mem) \in Nat
  PROVE  /\ LoadFrom(mem) = Loads(mem)[0]
         /\ \A i \in 0 .. Len(mem) : Loads(mem)[i] = LoadStep(mem, Loads(mem), i)
<1> DEFINE n == Len(mem)
           IsLoad(f, k) == f = [i \in k .. n |-> LoadStep(mem, f, i)]
           T == {k \in 0 .. n : \E f : IsLoad(f, k)}
<1>1. ASSUME NEW k \in 0 .. n, \A j \in k + 1 .. n : j \in T
      PROVE  k \in T
  <2>1. PICK f : \A i \in k + 1 .. n : f[i] = LoadStep(mem, f, i)
    <3>1. CASE k = n
      <4>1. k + 1 .. n = {}  BY <3>1, SMT
      <4> QED  BY <4>1
    <3>2. CASE k # n
      <4>1. k + 1 \in k + 1 .. n  BY <3>2, SMT
      <4>2. PICK f : IsLoad(f, k + 1)  BY <1>1, <4>1
      <4>3. \A i \in k + 1 .. n : f[i] = LoadStep(mem, f, i)  BY <4>2
      <4> QED  BY <4>3
    <3> QED  BY <3>1, <3>2
  <2> DEFINE g == [i \in k .. n |-> IF i = k THEN LoadStep(mem, f, k) ELSE f[i]]
  <2>2. \A i \in k + 1 .. n : g[i] = f[i]
    <3>1. \A i \in k + 1 .. n : i \in k .. n /\ i # k  BY SMT
    <3> QED  BY <3>1
  <2>3. ASSUME NEW i \in k .. n  PROVE g[i] = LoadStep(mem, g, i)
    <3>1. i \in 0 .. n /\ \A j \in i + 1 .. n : j \in k + 1 .. n  BY SMT
    <3>2. LoadStep(mem, f, i) = LoadStep(mem, g, i)
      <4>1. \A j \in i + 1 .. n : f[j] = g[j]  BY <2>2, <3>1
      <4> HIDE DEF g
      <4> QED  BY <3>1, <4>1, LoadStepLocal
    <3>3. i # k => i \in k + 1 .. n  BY SMT
    <3>4. i = k => g[i] = LoadStep(mem, f, i)  OBVIOUS
    <3> HIDE DEF g
    <3> QED  BY <2>1, <2>2, <3>2, <3>3, <3>4
  <2>4. g = [i \in k .. n |-> g[i]]  OBVIOUS
  <2>5. IsLoad(g, k)
    <3> HIDE DEF g
    <3> QED  BY <2>3, <2>4
  <2> HIDE DEF g, IsLoad
  <2> QED  BY <2>5
<1>2. 0 .. n \subseteq T
  <2> HIDE DEF T
  <2> QED  BY <1>1, Downward
<1>3. \E f : IsLoad(f, 0)
  <2>1. 0 \in 0 .. n  BY SMT
  <2> HIDE DEF IsLoad
  <2> QED  BY <1>2, <2>1
<1>4. Loads(mem) = CHOOSE f : IsLoad(f, 0)  BY DEF Loads
<1>5. IsLoad(Loads(mem), 0)
  <2> HIDE DEF IsLoad
  <2> QED  BY <1>3, <1>4
<1>6. LoadFrom(mem) = Loads(mem)[0]  BY DEF LoadFrom, Loads, LoadStep
<1>7. QED  BY <1>5, <1>6

\* Instructions of any width.
AnyInstr == [lo : Nat, hi : Nat]

LEMMA Cons ==
  ASSUME NEW S, NEW e \in S, NEW s \in Seq(S)
  PROVE  LET t == << e >> \o s
         IN  /\ t \in Seq(S) /\ Len(t) = Len(s) + 1 /\ t[1] = e
             /\ \A j \in 1 .. Len(s) : t[j + 1] = s[j]
  OBVIOUS

\* One step of load, by what it finds: nothing, a short instruction, or a long one.
LEMMA LoadCases ==
  ASSUME NEW mem \in Seq(Nat), NEW i \in 0 .. Len(mem)
  PROVE  LET l == Loads(mem)
         IN  \/ l[i] = << >>
             \/ /\ i < Len(mem) /\ mem[i + 1] % 4 # 3
                /\ l[i] = << [lo |-> mem[i + 1], hi |-> 0] >> \o l[i + 1]
             \/ /\ i + 1 < Len(mem) /\ mem[i + 1] % 4 = 3
                /\ l[i] = << [lo |-> mem[i + 1], hi |-> mem[i + 2]] >> \o l[i + 2]
<1>1. Len(mem) \in Nat  OBVIOUS
<1>2. Loads(mem)[i] = LoadStep(mem, Loads(mem), i)  BY <1>1, LoadIs
<1>3. i # Len(mem) => i < Len(mem)  BY <1>1, SMT
<1>4. i # Len(mem) /\ i + 1 # Len(mem) => i + 1 < Len(mem)  BY <1>1, SMT
<1>5. QED  BY <1>2, <1>3, <1>4 DEF LoadStep

\* What is loaded is a sequence of instructions.
LEMMA LoadsType ==
  ASSUME NEW mem \in Seq(Nat), NEW i \in 0 .. Len(mem)
  PROVE  Loads(mem)[i] \in Seq(AnyInstr)
<1> DEFINE n == Len(mem)
           l == Loads(mem)
           T == {k \in 0 .. n : l[k] \in Seq(AnyInstr)}
<1>1. n \in Nat  OBVIOUS
<1>2. ASSUME NEW k \in 0 .. n, \A j \in k + 1 .. n : j \in T
      PROVE  k \in T
  <2> SUFFICES l[k] \in Seq(AnyInstr)
    OBVIOUS
  <2>0. \A j \in k + 1 .. n : l[j] \in Seq(AnyInstr)  BY <1>2
  <2> HIDE DEF l, T, n
  <2>1. CASE l[k] = << >>
    BY <2>1
  <2>2. CASE /\ k < n
             /\ l[k] = << [lo |-> mem[k + 1], hi |-> 0] >> \o l[k + 1]
    <3>1. k + 1 \in k + 1 .. n /\ k + 1 \in 1 .. n  BY <1>1, <2>2, SMT
    <3>2. l[k + 1] \in Seq(AnyInstr) /\ mem[k + 1] \in Nat  BY <2>0, <3>1 DEF n
    <3>3. [lo |-> mem[k + 1], hi |-> 0] \in AnyInstr  BY <3>2 DEF AnyInstr
    <3>4. << [lo |-> mem[k + 1], hi |-> 0] >> \o l[k + 1] \in Seq(AnyInstr)
      BY <3>2, <3>3, Cons
    <3> QED  BY <2>2, <3>4
  <2>3. CASE /\ k + 1 < n
             /\ l[k] = << [lo |-> mem[k + 1], hi |-> mem[k + 2]] >> \o l[k + 2]
    <3>1. k + 2 \in k + 1 .. n /\ k + 1 \in 1 .. n /\ k + 2 \in 1 .. n  BY <1>1, <2>3, SMT
    <3>2. l[k + 2] \in Seq(AnyInstr) /\ mem[k + 1] \in Nat /\ mem[k + 2] \in Nat  BY <2>0, <3>1 DEF n
    <3>3. [lo |-> mem[k + 1], hi |-> mem[k + 2]] \in AnyInstr  BY <3>2 DEF AnyInstr
    <3>4. << [lo |-> mem[k + 1], hi |-> mem[k + 2]] >> \o l[k + 2] \in Seq(AnyInstr)
      BY <3>2, <3>3, Cons
    <3> QED  BY <2>3, <3>4
  <2> QED  BY <2>1, <2>2, <2>3, LoadCases DEF l, n
<1>3. 0 .. n \subseteq T
  <2> HIDE DEF T, n
  <2> QED  BY <1>1, <1>2, Downward
<1>4. QED  BY <1>3

\* From where the k-th instruction of the loaded test case starts on, the instructions from
\* the k-th on are loaded.
LEMMA CaseInMemory ==
  ASSUME NEW mem \in Seq(Nat), NEW tc, tc = LoadFrom(mem), NEW k \in 1 .. Len(tc) + 1
  PROVE  LET p == Start(tc, k)
         IN  /\ p \in 0 .. Len(mem) /\ Len(Loads(mem)[p]) = Len(tc) + 1 - k
             /\ \A j \in 1 .. Len(tc) + 1 - k : Loads(mem)[p][j] = tc[k - 1 + j]
<1> DEFINE n == Len(mem)
           m == Len(tc)
           l == Loads(mem)
           st(i) == Start(tc, i)
           Here(i) == /\ st(i) \in 0 .. n /\ Len(l[st(i)]) = m + 1 - i
                      /\ \A j \in 1 .. m + 1 - i : l[st(i)][j] = tc[i - 1 + j]
           T == {i \in 1 .. m + 1 : Here(i)}
<1>0. n \in Nat  OBVIOUS
<1>1. n \in Nat /\ tc = l[0] /\ tc \in Seq(AnyInstr) /\ m \in Nat
  <2>1. n \in Nat  OBVIOUS
  <2>2. 0 \in 0 .. n  BY <2>1, SMT
  <2>3. tc = l[0]  BY <2>1, LoadIs
  <2>4. tc \in Seq(AnyInstr)  BY <2>2, <2>3, LoadsType
  <2> QED  BY <2>1, <2>3, <2>4
<1>m. m \in Nat  BY <1>1
<1>2. 1 \in T
  <2>1. 1 \in 1 .. m + 1  BY <1>1, SMT
  <2>2. st(1) = 0  BY <1>1, <2>1, StartIs
  <2>3. \A j \in 1 .. m + 1 - 1 : 1 - 1 + j = j  BY SMT
  <2>4. m = m + 1 - 1 /\ 0 \in 0 .. n  BY <1>1, SMT
  <2> HIDE DEF st, l, m, n
  <2>5. Here(1)  BY <1>1, <2>2, <2>3, <2>4 DEF m
  <2> QED  BY <2>1, <2>5
<1>3. ASSUME NEW i \in 1 .. m, i \in T  PROVE i + 1 \in T
  <2>1. Here(i) /\ i \in 1 .. m + 1 /\ i + 1 \in 1 .. m + 1 /\ i + 1 # 1 /\ i + 1 - 1 = i
    BY <1>1, <1>3, SMT
  <2>2. st(i + 1) = st(i) + GetSize(tc[i])  BY <1>1, <2>1, StartIs
  <2> DEFINE p == st(i)
  <2>3. p \in 0 .. n /\ Len(l[p]) = m + 1 - i /\ \A j \in 1 .. m + 1 - i : l[p][j] = tc[i - 1 + j]
    BY <2>1
  <2>4. 1 \in 1 .. m + 1 - i /\ i - 1 + 1 = i /\ m + 1 - i # 0  BY <1>1, SMT
  <2>5. l[p][1] = tc[i] /\ Len(l[p]) # 0
    <3> HIDE DEF p, l, m, n, st
    <3> QED  BY <2>3, <2>4
  <2>6. ASSUME NEW e \in AnyInstr, NEW q \in 0 .. n, l[p] = << e >> \o l[q], st(i + 1) = q
        PROVE  Here(i + 1)
    <3>1. l[q] \in Seq(AnyInstr)  BY <2>6, LoadsType
    <3>2. Len(l[p]) = Len(l[q]) + 1 /\ \A j \in 1 .. Len(l[q]) : l[p][j + 1] = l[q][j]
      BY <2>6, <3>1, Cons
    <3>3. Len(l[q]) \in Nat  BY <3>1
    <3> DEFINE r == Len(l[q])
    <3>4. r = m + 1 - (i + 1)
      <4>1. r \in Nat /\ r + 1 = m + 1 - i  BY <2>3, <3>2, <3>3
      <4> HIDE DEF r, m
      <4> QED  BY <1>m, <4>1, SMT
    <3>5. ASSUME NEW j \in 1 .. r  PROVE l[q][j] = tc[i + 1 - 1 + j]
      <4>1. j + 1 \in 1 .. m + 1 - i /\ i - 1 + (j + 1) = i + 1 - 1 + j
        <5> HIDE DEF r, m
        <5> QED  BY <1>m, <3>4, SMT
      <4>2. l[p][j + 1] = tc[i - 1 + (j + 1)]
        <5> HIDE DEF p, l, m, n, st, r
        <5> QED  BY <2>3, <4>1
      <4> QED  BY <3>2, <4>1, <4>2
    <3> HIDE DEF p, l, st
    <3> QED  BY <2>6, <3>4, <3>5
  <2>7. CASE /\ p < n /\ mem[p + 1] % 4 # 3
             /\ l[p] = << [lo |-> mem[p + 1], hi |-> 0] >> \o l[p + 1]
    <3> DEFINE e == [lo |-> mem[p + 1], hi |-> 0]
    <3> HIDE DEF p, l, st
    <3>1. p + 1 \in 0 .. n /\ p + 1 \in 1 .. n
      <4>1. p < n /\ p \in 0 .. n  BY <2>3, <2>7
      <4> HIDE DEF n
      <4> QED  BY <1>0, <4>1, SMT
    <3>2. mem[p + 1] \in Nat  BY <3>1
    <3>3. e \in AnyInstr /\ e.lo = mem[p + 1]  BY <3>2 DEF AnyInstr
    <3>4. l[p + 1] \in Seq(AnyInstr)  BY <3>1, LoadsType DEF l
    <3> HIDE DEF e
    <3>5. l[p] = << e >> \o l[p + 1]  BY <2>7 DEF e
    <3>6. l[p][1] = e  BY <3>3, <3>4, <3>5, Cons
    <3>7. GetSize(tc[i]) = 1  BY <2>5, <2>7, <3>3, <3>6 DEF GetSize, IsLong
    <3>8. st(i + 1) = p + 1  BY <2>2, <3>7 DEF p
    <3> QED  BY <2>1, <2>6, <3>1, <3>3, <3>5, <3>8
  <2>8. CASE /\ p + 1 < n /\ mem[p + 1] % 4 = 3
             /\ l[p] = << [lo |-> mem[p + 1], hi |-> mem[p + 2]] >> \o l[p + 2]
    <3> DEFINE e == [lo |-> mem[p + 1], hi |-> mem[p + 2]]
    <3> HIDE DEF p, l, st
    <3>1. p + 2 \in 0 .. n /\ p + 1 \in 1 .. n /\ p + 2 \in 1 .. n
      <4>1. p + 1 < n /\ p \in 0 .. n  BY <2>3, <2>8
      <4> HIDE DEF n
      <4> QED  BY <1>0, <4>1, SMT
    <3>2. mem[p + 1] \in Nat /\ mem[p + 2] \in Nat  BY <3>1
    <3>3. e \in AnyInstr /\ e.lo = mem[p + 1]  BY <3>2 DEF AnyInstr
    <3>4. l[p + 2] \in Seq(AnyInstr)  BY <3>1, LoadsType DEF l
    <3> HIDE DEF e
    <3>5. l[p] = << e >> \o l[p + 2]  BY <2>8 DEF e
    <3>6. l[p][1] = e  BY <3>3, <3>4, <3>5, Cons
    <3>7. GetSize(tc[i]) = 2  BY <2>5, <2>8, <3>3, <3>6 DEF GetSize, IsLong
    <3>8. st(i + 1) = p + 2  BY <2>2, <3>7 DEF p
    <3> QED  BY <2>1, <2>6, <3>1, <3>3, <3>5, <3>8
  <2>9. l[p] # << >>
    <3> HIDE DEF l, p
    <3> QED  BY <2>5
  <2> HIDE DEF Here
  <2>10. Here(i + 1)  BY <2>3, <2>7, <2>8, <2>9, LoadCases
  <2> QED  BY <2>1, <2>10
<1>4. 1 .. m + 1 \subseteq T
  <2> HIDE DEF T, m
  <2>1. PICK x : x = m + 1  OBVIOUS
  <2>2. x \in Int /\ 1 \in Int /\ x - 1 = m  BY <1>m, <2>1, SMT
  <2>3. \A i \in 1 .. x - 1 : i \in T => i + 1 \in T  BY <1>3, <2>2
  <2>4. 1 .. x \subseteq T  BY <1>2, <2>2, <2>3, Upward
  <2> QED  BY <2>1, <2>4
<1>5. QED  BY <1>4

\* The k-th instruction of the loaded test case is what is in memory at its place.
LEMMA CaseIsRead ==
  ASSUME NEW mem \in Seq(Nat), NEW tc, tc = LoadFrom(mem), NEW k \in 1 .. Len(tc)
  PROVE  LET p == Start(tc, k)
         IN  /\ p \in Nat /\ p < Len(mem) /\ Start(tc, k + 1) = p + GetSize(tc[k])
             /\ Start(tc, k + 1) <= Len(mem)
             /\ tc[k] = IF IsLong(tc[k]) THEN [lo |-> mem[p + 1], hi |-> mem[p + 2]]
                        ELSE [lo |-> mem[p + 1], hi |-> 0]
<1> DEFINE n == Len(mem)
           l == Loads(mem)
           p == Start(tc, k)
<1>1. tc \in Seq(AnyInstr) /\ n \in Nat
  <2>1. n \in Nat  OBVIOUS
  <2>2. 0 \in 0 .. n  BY <2>1, SMT
  <2>3. tc = l[0]  BY <2>1, LoadIs
  <2> QED  BY <2>1, <2>2, <2>3, LoadsType
<1>m. PICK m \in Nat : m = Len(tc)  BY <1>1
<1>2. /\ k \in 1 .. m + 1 /\ k + 1 \in 1 .. m + 1 /\ k + 1 # 1 /\ k + 1 - 1 = k
      /\ 1 \in 1 .. m + 1 - k /\ k - 1 + 1 = k /\ m + 1 - k # 0
  <2>1. k \in 1 .. m  BY <1>m
  <2> QED  BY <2>1, SMT
<1>3. p \in 0 .. n /\ Len(l[p]) = m + 1 - k /\ \A j \in 1 .. m + 1 - k : l[p][j] = tc[k - 1 + j]
  BY <1>2, <1>m, CaseInMemory
<1>4. l[p][1] = tc[k] /\ l[p] # << >>
  <2> HIDE DEF l, p, n
  <2>1. l[p][1] = tc[k] /\ Len(l[p]) # 0  BY <1>2, <1>3
  <2> QED  BY <2>1
<1>5. Start(tc, k + 1) = p + GetSize(tc[k])
  <2>1. PICK i : i = k + 1  OBVIOUS
  <2>2. i \in 1 .. m + 1 /\ i # 1 /\ i - 1 = k  BY <1>2, <2>1
  <2>3. Len(tc) \in Nat /\ i \in 1 .. Len(tc) + 1  BY <1>m, <2>2
  <2>4. Start(tc, i) = Start(tc, i - 1) + GetSize(tc[i - 1])  BY <2>2, <2>3, StartIs
  <2> QED  BY <2>1, <2>2, <2>4
<1>6. Start(tc, k + 1) \in 0 .. n  BY <1>2, <1>m, CaseInMemory
<1>7. Start(tc, k + 1) <= n /\ p \in Nat
  <2> HIDE DEF p, n
  <2> QED  BY <1>3, <1>6, SMT
<1> HIDE DEF p, l, n
<1>8. CASE /\ p < n /\ mem[p + 1] % 4 # 3
           /\ l[p] = << [lo |-> mem[p + 1], hi |-> 0] >> \o l[p + 1]
  <2> DEFINE e == [lo |-> mem[p + 1], hi |-> 0]
  <2>0. n \in Nat  BY <1>1
  <2>1. p + 1 \in 0 .. n /\ p + 1 \in 1 .. n  BY <2>0, <1>3, <1>8, SMT
  <2>2. mem[p + 1] \in Nat  BY <2>1 DEF n
  <2>3. e \in AnyInstr /\ e.lo = mem[p + 1]  BY <2>2 DEF AnyInstr
  <2>4. l[p + 1] \in Seq(AnyInstr)  BY <2>1, LoadsType DEF l, n
  <2> HIDE DEF e
  <2>5. l[p] = << e >> \o l[p + 1]  BY <1>8 DEF e
  <2>6. tc[k] = e  BY <1>4, <2>3, <2>4, <2>5, Cons
  <2>7. ~IsLong(tc[k])  BY <1>8, <2>3, <2>6 DEF IsLong
  <2> QED  BY <1>5, <1>7, <1>8, <2>6, <2>7 DEF e, p, n
<1>9. CASE /\ p + 1 < n /\ mem[p + 1] % 4 = 3
           /\ l[p] = << [lo |-> mem[p + 1], hi |-> mem[p + 2]] >> \o l[p + 2]
  <2> DEFINE e == [lo |-> mem[p + 1], hi |-> mem[p + 2]]
  <2>0. n \in Nat  BY <1>1
  <2>1. p + 2 \in 0 .. n /\ p + 1 \in 1 .. n /\ p + 2 \in 1 .. n /\ p < n  BY <2>0, <1>3, <1>9, SMT
  <2>2. mem[p + 1] \in Nat /\ mem[p + 2] \in Nat  BY <2>1 DEF n
  <2>3. e \in AnyInstr /\ e.lo = mem[p + 1]  BY <2>2 DEF AnyInstr
  <2>4. l[p + 2] \in Seq(AnyInstr)  BY <2>1, LoadsType DEF l, n
  <2> HIDE DEF e
  <2>5. l[p] = << e >> \o l[p + 2]  BY <1>9 DEF e
  <2>6. tc[k] = e  BY <1>4, <2>3, <2>4, <2>5, Cons
  <2>7. IsLong(tc[k])  BY <1>9, <2>3, <2>6 DEF IsLong
  <2> QED  BY <1>5, <1>7, <2>1, <2>6, <2>7 DEF e, p, n
<1>10. QED  BY <1>3, <1>4, <1>8, <1>9, LoadCases DEF l, n

\* Later instructions start later.
LEMMA StartGrows ==
  ASSUME NEW prog, Len(prog) \in Nat, NEW i \in 1 .. Len(prog) + 1, NEW j \in i .. Len(prog) + 1
  PROVE  Start(prog, i) \in Nat /\ Start(prog, j) \in Nat /\ Start(prog, i) <= Start(prog, j)
<1> PICK m \in Nat : m = Len(prog)  OBVIOUS
<1> DEFINE st(x) == Start(prog, x)
<1>1. ASSUME NEW x \in 1 .. m, st(x) \in Nat
      PROVE  st(x + 1) \in Nat /\ st(x) <= st(x + 1)
  <2>1. x + 1 \in 1 .. m + 1 /\ x + 1 # 1 /\ x + 1 - 1 = x  BY SMT
  <2>2. st(x + 1) = st(x) + GetSize(prog[x])  BY <2>1, StartIs
  <2>3. GetSize(prog[x]) \in {1, 2}  BY DEF GetSize
  <2> HIDE DEF st
  <2> QED  BY <1>1, <2>2, <2>3, SMT
<1>2. st(1) \in Nat
  <2>1. 1 \in 1 .. m + 1  BY SMT
  <2> QED  BY <2>1, StartIs
<1> HIDE DEF st
<1>3. PICK z : z = m + 1 /\ z \in Int /\ 1 \in Int /\ z - 1 = m /\ i \in Int  BY SMT
<1>4. \A x \in 1 .. z : st(x) \in Nat
  <2> DEFINE T == {x \in 1 .. z : st(x) \in Nat}
  <2>1. ASSUME NEW x \in 1 .. z - 1, x \in T  PROVE x + 1 \in T
    <3>1. x \in 1 .. m /\ x + 1 \in 1 .. z  BY <1>3, SMT
    <3> QED  BY <1>1, <2>1, <3>1
  <2>2. 1 \in T
    <3>1. 1 \in 1 .. z  BY <1>3, SMT
    <3> QED  BY <1>2, <3>1
  <2>3. 1 .. z \subseteq T
    <3> HIDE DEF T
    <3> QED  BY <1>3, <2>1, <2>2, Upward
  <2> QED  BY <2>3
<1>5. \A x \in i .. z : x \in 1 .. z
  <2>1. i \in 1 .. z  BY <1>3
  <2> QED  BY <2>1, SMT
<1>6. \A x \in i .. z : st(i) <= st(x)
  <2> DEFINE T == {x \in i .. z : st(i) <= st(x)}
  <2>0. i \in 1 .. z  BY <1>3
  <2>1. ASSUME NEW x \in i .. z - 1, x \in T  PROVE x + 1 \in T
    <3>1. x \in i .. z /\ x \in 1 .. m /\ x + 1 \in i .. z  BY <1>3, <2>0, SMT
    <3>2. st(x) \in Nat /\ st(i) \in Nat  BY <1>4, <1>5, <2>0, <3>1
    <3>3. st(x + 1) \in Nat /\ st(x) <= st(x + 1)  BY <1>1, <3>1, <3>2
    <3>4. st(i) <= st(x)  BY <2>1
    <3>5. st(i) <= st(x + 1)  BY <3>2, <3>3, <3>4, SMT
    <3> QED  BY <3>1, <3>5
  <2>2. i \in T
    <3>1. i \in i .. z /\ st(i) \in Nat  BY <1>3, <1>4, <2>0, SMT
    <3> QED  BY <3>1, SMT
  <2>3. i .. z \subseteq T
    <3> HIDE DEF T
    <3> QED  BY <1>3, <2>1, <2>2, Upward
  <2> QED  BY <2>3
<1>7. j \in i .. z /\ i \in 1 .. z  BY <1>3
<1>8. QED  BY <1>4, <1>5, <1>6, <1>7 DEF st

\* A halfword that belongs to the k-th instruction is written by it.
LEMMA UnpackIs ==
  ASSUME NEW prog, NEW S, prog \in Seq(S), NEW mem \in Seq(Nat),
         NEW k \in 1 .. Len(prog), \A j \in 1 .. k : Start(prog, j + 1) <= Len(mem),
         NEW a \in 1 .. Len(mem), Start(prog, k) < a, a <= Start(prog, k + 1)
  PROVE  Unpack(prog, mem)[a] = IF a = Start(prog, k) + 1 THEN prog[k].lo ELSE prog[k].hi
<1> DEFINE K == {i \in DOMAIN prog : /\ Start(prog, i) < a /\ a <= Start(prog, i + 1)
                                     /\ \A j \in 1 .. i : Start(prog, j + 1) <= Len(mem)}
<1>1. DOMAIN prog = 1 .. Len(prog) /\ DOMAIN mem = 1 .. Len(mem) /\ Len(prog) \in Nat /\ Len(mem) \in Nat
  OBVIOUS
<1>2. k \in K  BY <1>1
<1>3. ASSUME NEW i \in K  PROVE i = k
  <2>1. i \in 1 .. Len(prog) /\ Start(prog, i) < a /\ a <= Start(prog, i + 1)  BY <1>1
  <2>2. PICK m \in Nat : m = Len(prog)  BY <1>1
  <2>3. i \in 1 .. m /\ k \in 1 .. m  BY <2>1, <2>2
  <2>4. a \in Int  BY <1>1, SMT
  <2>5. ASSUME NEW x \in 1 .. m, NEW y \in 1 .. m, x < y, Start(prog, y) < a, a <= Start(prog, x + 1)
        PROVE  FALSE
    <3>1. x + 1 \in 1 .. m + 1 /\ y \in x + 1 .. m + 1  BY <2>5, SMT
    <3>2. Start(prog, x + 1) \in Nat /\ Start(prog, y) \in Nat /\ Start(prog, x + 1) <= Start(prog, y)
      BY <1>1, <2>2, <3>1, StartGrows
    <3> QED  BY <2>4, <2>5, <3>2, SMT
  <2>6. ~(i < k) /\ ~(k < i)  BY <2>1, <2>3, <2>5
  <2> QED  BY <2>3, <2>6, SMT
<1>4. (CHOOSE i \in K : TRUE) = k
  <2> HIDE DEF K
  <2> QED  BY <1>2, <1>3
<1>5. Unpack(prog, mem)[a] = IF K = {} THEN mem[a]
                             ELSE LET i == CHOOSE i \in K : TRUE
                                  IN  IF a = Start(prog, i) + 1 THEN prog[i].lo ELSE prog[i].hi
  BY <1>1 DEF Unpack
<1> HIDE DEF K
<1>6. QED  BY <1>2, <1>4, <1>5

LEMMA UnpackType ==
  ASSUME NEW prog \in Seq(AnyInstr), NEW mem \in Seq(Nat)
  PROVE  Unpack(prog, mem) \in Seq(Nat) /\ Len(Unpack(prog, mem)) = Len(mem)
<1> DEFINE m == Unpack(prog, mem)
<1>1. DOMAIN m = 1 .. Len(mem) /\ m = [a \in DOMAIN m |-> m[a]]
  BY DEF Unpack
<1>2. ASSUME NEW a \in 1 .. Len(mem)  PROVE m[a] \in Nat
  <2> DEFINE K == {i \in DOMAIN prog : /\ Start(prog, i) < a /\ a <= Start(prog, i + 1)
                                       /\ \A j \in 1 .. i : Start(prog, j + 1) <= Len(mem)}
  <2>1. m[a] = IF K = {} THEN mem[a]
               ELSE LET i == CHOOSE i \in K : TRUE
                    IN  IF a = Start(prog, i) + 1 THEN prog[i].lo ELSE prog[i].hi
    BY DEF Unpack
  <2>2. ASSUME NEW i \in K  PROVE prog[i].lo \in Nat /\ prog[i].hi \in Nat
    <3>1. prog[i] \in AnyInstr  OBVIOUS
    <3> QED  BY <3>1 DEF AnyInstr
  <2>3. mem[a] \in Nat  OBVIOUS
  <2> HIDE DEF K, m
  <2> QED  BY <2>1, <2>2, <2>3
<1>3. Len(mem) \in Nat  OBVIOUS
<1> HIDE DEF m
<1>4. m \in [1 .. Len(mem) -> Nat]  BY <1>1, <1>2
<1>5. QED  BY <1>3, <1>4 DEF m

\* What was unpacked is loaded again, whatever memory of the same size holds behind it.
LEMMA Reload ==
  ASSUME NEW from \in Seq(Nat), NEW mem \in Seq(Nat), Len(mem) = Len(from),
         NEW tc, tc = LoadFrom(from)
  PROVE  SubSeq(LoadFrom(Unpack(tc, mem)), 1, Len(tc)) = tc
<1> DEFINE new == Unpack(tc, mem)
           n == Len(from)
           l == Loads(new)
           st(i) == Start(tc, i)
<1>1. tc \in Seq(AnyInstr)
  <2>1. n \in Nat  OBVIOUS
  <2>2. 0 \in 0 .. n  BY <2>1, SMT
  <2>3. tc = Loads(from)[0]  BY <2>1, LoadIs
  <2> QED  BY <2>2, <2>3, LoadsType
<1>2. PICK m \in Nat : m = Len(tc)  BY <1>1
<1>3. new \in Seq(Nat) /\ Len(new) = n  BY <1>1, UnpackType
<1>n. n \in Nat  OBVIOUS
<1> HIDE DEF l, new, n
<1>4. ASSUME NEW k \in 1 .. m
      PROVE  /\ st(k) \in Nat /\ st(k) < n /\ st(k + 1) = st(k) + GetSize(tc[k])
             /\ st(k + 1) <= n /\ tc[k] \in AnyInstr
             /\ (IsLong(tc[k]) \/ tc[k].hi = 0)
  <2>1. k \in 1 .. Len(tc)  BY <1>2
  <2>2. /\ st(k) \in Nat /\ st(k) < n /\ st(k + 1) = st(k) + GetSize(tc[k]) /\ st(k + 1) <= n
        /\ tc[k] = IF IsLong(tc[k]) THEN [lo |-> from[st(k) + 1], hi |-> from[st(k) + 2]]
                   ELSE [lo |-> from[st(k) + 1], hi |-> 0]
    BY <2>1, CaseIsRead DEF n
  <2>3. tc[k] \in AnyInstr  BY <1>1, <2>1
  <2> HIDE DEF st
  <2>4. IsLong(tc[k]) \/ tc[k].hi = 0  BY <2>2
  <2> QED  BY <2>2, <2>3, <2>4
<1>5. ASSUME NEW k \in 1 .. m, NEW a \in 1 .. n, st(k) < a, a <= st(k + 1)
      PROVE  new[a] = IF a = st(k) + 1 THEN tc[k].lo ELSE tc[k].hi
  <2>1. ASSUME NEW j \in 1 .. k  PROVE Start(tc, j + 1) <= Len(mem)
    <3>1. j \in 1 .. m  BY SMT
    <3> QED  BY <1>4, <3>1 DEF n
  <2>2. k \in 1 .. Len(tc) /\ a \in 1 .. Len(mem)  BY <1>2 DEF n
  <2> QED  BY <1>1, <1>5, <2>1, <2>2, UnpackIs DEF new
<1> DEFINE Here(k) == /\ st(k) \in 0 .. n /\ l[st(k)] \in Seq(AnyInstr)
                      /\ Len(l[st(k)]) >= m + 1 - k
                      /\ \A j \in 1 .. m + 1 - k : l[st(k)][j] = tc[k - 1 + j]
<1>6. ASSUME NEW k \in 1 .. m, Here(k + 1)  PROVE Here(k)
  <2> DEFINE p == st(k)
             q == st(k + 1)
  <2>1. /\ p \in Nat /\ p < n /\ q = p + GetSize(tc[k]) /\ q <= n /\ tc[k] \in AnyInstr
        /\ (IsLong(tc[k]) \/ tc[k].hi = 0)
    BY <1>4
  <2>2. q \in 0 .. n /\ l[q] \in Seq(AnyInstr) /\ Len(l[q]) >= m + 1 - (k + 1)
        /\ \A j \in 1 .. m + 1 - (k + 1) : l[q][j] = tc[k + 1 - 1 + j]
    BY <1>6
  <2> HIDE DEF p, q, st, Here
  <2>3. GetSize(tc[k]) \in {1, 2} /\ (GetSize(tc[k]) = 2 <=> IsLong(tc[k]))  BY DEF GetSize
  <2>4. /\ p \in 0 .. n /\ p + 1 \in 1 .. n /\ p < p + 1 /\ p + 1 <= q
        /\ (q = p + 2 => p + 2 \in 1 .. n /\ p < p + 2 /\ p + 2 <= q /\ p + 2 # p + 1 /\ p + 1 # n)
        /\ p # n
    BY <1>n, <2>1, <2>3, SMT
  <2>5. new[p + 1] = tc[k].lo /\ (q = p + 2 => new[p + 2] = tc[k].hi)
    BY <1>5, <2>4 DEF p, q
  <2>6. new[p + 1] % 4 = 3 <=> IsLong(tc[k])  BY <2>5 DEF IsLong
  <2>7. l[p] = LoadStep(new, l, p)  BY <1>3, <1>n, <2>4, LoadIs DEF l
  <2>8. tc[k] = [lo |-> tc[k].lo, hi |-> tc[k].hi]  BY <2>1 DEF AnyInstr
  <2>9. l[p] = << tc[k] >> \o l[q]
    <3>1. CASE IsLong(tc[k])
      <4>1. q = p + 2  BY <2>1, <2>3, <3>1
      <4>2. l[p] = << [lo |-> new[p + 1], hi |-> new[p + 2]] >> \o l[p + 2]
        BY <1>3, <2>4, <2>6, <2>7, <3>1, <4>1 DEF LoadStep
      <4> QED  BY <2>5, <2>8, <4>1, <4>2
    <3>2. CASE ~IsLong(tc[k])
      <4>1. q = p + 1 /\ tc[k].hi = 0  BY <2>1, <2>3, <3>2
      <4>2. l[p] = << [lo |-> new[p + 1], hi |-> 0] >> \o l[p + 1]
        BY <1>3, <2>4, <2>6, <2>7, <3>2 DEF LoadStep
      <4> QED  BY <2>5, <2>8, <4>1, <4>2
    <3> QED  BY <3>1, <3>2
  <2>10. /\ l[p] \in Seq(AnyInstr) /\ Len(l[p]) = Len(l[q]) + 1 /\ l[p][1] = tc[k]
         /\ \A j \in 1 .. Len(l[q]) : l[p][j + 1] = l[q][j]
    BY <2>1, <2>2, <2>9, Cons
  <2>11. PICK r \in Nat : r = Len(l[q])  BY <2>2
  <2>12. r >= m + 1 - (k + 1) /\ Len(l[p]) = r + 1  BY <2>2, <2>10, <2>11
  <2>13. Len(l[p]) >= m + 1 - k
    <3>1. r + 1 >= m + 1 - k  BY <2>12, SMT
    <3> QED  BY <2>12, <3>1
  <2>14. ASSUME NEW j \in 1 .. m + 1 - k  PROVE l[p][j] = tc[k - 1 + j]
    <3>1. CASE j = 1
      <4>1. k - 1 + j = k  BY <3>1, SMT
      <4> QED  BY <2>10, <3>1, <4>1
    <3>2. CASE j # 1
      <4>1. PICK i : i = j - 1  OBVIOUS
      <4>2. i \in 1 .. r /\ i \in 1 .. m + 1 - (k + 1) /\ i + 1 = j /\ k + 1 - 1 + i = k - 1 + j
        BY <2>12, <3>2, <4>1, SMT
      <4>3. l[p][i + 1] = l[q][i]  BY <2>10, <2>11, <4>2
      <4>4. l[q][i] = tc[k + 1 - 1 + i]  BY <2>2, <4>2
      <4> QED  BY <4>2, <4>3, <4>4
    <3> QED  BY <3>1, <3>2
  <2> QED  BY <2>4, <2>10, <2>13, <2>14 DEF Here, p
<1>7. Here(m + 1)
  <2>1. m + 1 \in 1 .. Len(tc) + 1  BY <1>2, SMT
  <2>2. st(m + 1) \in 0 .. n  BY <1>2, <2>1, CaseInMemory DEF n
  <2>3. l[st(m + 1)] \in Seq(AnyInstr)
    <3> HIDE DEF st
    <3> QED  BY <1>3, <2>2, LoadsType DEF l
  <2> HIDE DEF st
  <2>4. PICK r \in Nat : r = Len(l[st(m + 1)])  BY <2>3
  <2>5. r >= m + 1 - (m + 1)  BY SMT
  <2>6. 1 .. m + 1 - (m + 1) = {}  BY SMT
  <2> QED  BY <2>2, <2>3, <2>4, <2>5, <2>6
<1> HIDE DEF Here
<1>8. Here(1)
  <2> DEFINE T == {d \in 0 .. m : Here(m + 1 - d)}
  <2>1. 0 \in T
    <3>1. 0 \in 0 .. m /\ m + 1 - 0 = m + 1  BY SMT
    <3> QED  BY <1>7, <3>1
  <2>2. ASSUME NEW d \in 0 .. m - 1, d \in T  PROVE d + 1 \in T
    <3>1. PICK k : k = m + 1 - (d + 1)  OBVIOUS
    <3>2. k \in 1 .. m /\ k + 1 = m + 1 - d /\ d + 1 \in 0 .. m  BY <3>1, SMT
    <3>3. Here(k + 1)  BY <2>2, <3>2
    <3>4. Here(k)  BY <1>6, <3>2, <3>3
    <3> QED  BY <3>1, <3>2, <3>4
  <2>3. 0 \in Int /\ m \in Int /\ m \in 0 .. m /\ m + 1 - m = 1  BY SMT
  <2>4. 0 .. m \subseteq T
    <3> HIDE DEF T
    <3> QED  BY <2>1, <2>2, <2>3, Upward
  <2>5. m \in T  BY <2>3, <2>4
  <2> QED  BY <2>3, <2>5
<1>9. st(1) = 0
  <2>1. 1 \in 1 .. Len(tc) + 1  BY <1>2, SMT
  <2> QED  BY <1>2, <2>1, StartIs
<1>10. LoadFrom(new) = l[0]  BY <1>3, <1>n, LoadIs DEF l
<1>11. l[0] \in Seq(AnyInstr) /\ Len(l[0]) >= m /\ \A j \in 1 .. m : l[0][j] = tc[j]
  <2> HIDE DEF st
  <2>1. /\ l[0] \in Seq(AnyInstr) /\ Len(l[0]) >= m + 1 - 1
        /\ \A j \in 1 .. m + 1 - 1 : l[0][j] = tc[1 - 1 + j]
    BY <1>8, <1>9 DEF Here
  <2>2. m + 1 - 1 = m /\ \A j \in 1 .. m : 1 - 1 + j = j  BY SMT
  <2> QED  BY <2>1, <2>2
<1>12. SubSeq(l[0], 1, m) = tc
  <2>1. SubSeq(l[0], 1, m) = [j \in 1 .. m |-> l[0][j]]
    <3>1. PICK s : s = l[0]  OBVIOUS
    <3>2. s \in Seq(AnyInstr) /\ m <= Len(s)  BY <1>11, <3>1
    <3>3. SubSeq(s, 1, m) = [j \in 1 .. m |-> s[j]]  BY <3>2
    <3> QED  BY <3>1, <3>3
  <2>2. tc = [j \in 1 .. m |-> tc[j]]  BY <1>1, <1>2
  <2> QED  BY <1>11, <2>1, <2>2
<1>13. QED  BY <1>2, <1>10, <1>12 DEF new

-----------------------------------------------------------------------------
\* A fuzzing run starts with the program that was loaded.

\* Memory keeps its size.  While a run lasts it begins with the test case; a fuzzer writes no
\* backups it could be restored from.
CaseInv ==
  args.fuzz =>
    /\ pram \in Seq(Nat) /\ \E m \in Memories : testCase = LoadFrom(m) /\ Len(pram) = Len(m)
    /\ ~modelFile.full /\ at \notin {"save", "model", "cosim", "state"}
    /\ at = "loop" => SubSeq(LoadFrom(pram), 1, Len(testCase)) = testCase

LEMMA MemoryType ==
  ASSUME NEW m \in Memories
  PROVE  m \in Seq(Nat) /\ \A k \in Memories : Len(k) = Len(m)
<1>1. m \in Seq(Halfword) /\ \A k \in Memories : Len(k) = Len(m)  BY MemoriesAssumption
<1>2. Halfword \subseteq Nat  BY SMT DEF Halfword
<1>3. Len(m) \in Nat /\ m \in [1 .. Len(m) -> Halfword]  BY <1>1
<1>4. m \in [1 .. Len(m) -> Nat]
  <2> HIDE DEF Halfword
  <2> QED  BY <1>2, <1>3
<1>5. m \in Seq(Nat)  BY <1>3, <1>4
<1>6. QED  BY <1>1, <1>5

LEMMA InitCase ==
  ASSUME SimInit  PROVE CaseInv
<1>1. /\ at = "start" /\ ~modelFile.full
      /\ args.fuzz => pram \in Memories
      /\ testCase = LoadFrom(pram)
  BY DEF SimInit, NoFile
<1>2. QED  BY <1>1, MemoryType DEF CaseInv

LEMMA NextCase ==
  ASSUME SimTypeOK, CaseInv, [SimNext]_simVars
  PROVE  CaseInv'
<1>1. args' = args
  BY DEF SimNext, Process, Boot, Restore, Iteration, Save, Halt, Drain, Finish, Kill, Restart, simVars
<1>2. SUFFICES ASSUME args.fuzz  PROVE CaseInv'
  BY <1>1 DEF CaseInv
<1>3. ~args.backup  BY <1>2 DEF SimTypeOK, Args
<1> DEFINE Rest == UNCHANGED <<modelFile, testCase>>
<1>4. PICK m \in Memories : testCase = LoadFrom(m) /\ Len(pram) = Len(m)
  BY <1>2 DEF CaseInv
<1>5. pram \in Seq(Nat) /\ ~modelFile.full /\ at \notin {"save", "model", "cosim", "state"}
      /\ m \in Seq(Nat)
  BY <1>2, MemoryType DEF CaseInv
<1>6. testCase \in Seq(AnyInstr)
  <2>1. Len(m) \in Nat  BY <1>5
  <2>2. 0 \in 0 .. Len(m)  BY <2>1, SMT
  <2>3. Loads(m)[0] \in Seq(AnyInstr)  BY <1>5, <2>2, LoadsType
  <2> QED  BY <1>4, <2>1, <2>3, LoadIs
<1>7. CASE Boot
  <2>1. at' = "loop" /\ UNCHANGED <<modelFile, testCase>> /\ pram' = Unpack(testCase, pram)
    BY <1>2, <1>7 DEF Boot
  <2>2. pram' \in Seq(Nat) /\ Len(pram') = Len(pram)  BY <1>5, <1>6, <2>1, UnpackType
  <2>3. SubSeq(LoadFrom(pram'), 1, Len(testCase)) = testCase  BY <1>4, <1>5, <2>1, Reload
  <2> QED  BY <1>4, <1>5, <2>1, <2>2, <2>3 DEF CaseInv
<1>8. ~Restore /\ ~Save /\ ~Kill
  BY <1>3, <1>5 DEF Restore, Save, Kill
<1>9. CASE Iteration
  <2>1. at = "loop" /\ UNCHANGED <<modelFile, testCase, pram>> /\ at' \in {"drain", "hang", "loop"}
    BY <1>3, <1>9 DEF Iteration, SaveDue, fileVars, fuzzVars
  <2> QED  BY <1>2, <2>1 DEF CaseInv
<1>10. CASE Halt \/ Drain
  <2>1. at' = "drain" /\ UNCHANGED <<modelFile, testCase, pram>>
    BY <1>10 DEF Halt, Drain, fileVars, fuzzVars
  <2> QED  BY <1>2, <2>1 DEF CaseInv
<1>11. CASE Finish
  <2>1. at' \in {"start", "done"} /\ UNCHANGED <<modelFile, testCase>> /\ pram' \in Memories
    BY <1>2, <1>11 DEF Finish, fileVars
  <2>2. pram' \in Seq(Nat) /\ Len(pram') = Len(m)  BY <2>1, MemoryType
  <2> QED  BY <1>4, <1>5, <2>1, <2>2 DEF CaseInv
<1>12. CASE Restart
  <2>1. at' = "start" /\ UNCHANGED <<modelFile, testCase, pram>>  BY <1>12 DEF Restart, fileVars, fuzzVars
  <2> QED  BY <1>2, <2>1 DEF CaseInv
<1>13. CASE UNCHANGED simVars
  BY <1>13 DEF CaseInv, simVars, runVars, fileVars, fuzzVars
<1>14. QED  BY <1>7, <1>8, <1>9, <1>10, <1>11, <1>12, <1>13 DEF SimNext, Process

\* A fuzzing run starts with the program that was loaded: as unpack writes a test case, load
\* reads it again, instruction by instruction of either size, from memory of any length that may hold
\* anything, and nothing writes to memory before the run (TestCase::load, unpack, Fuzzer::fuzz).
THEOREM LoadedCaseRuns == SimSpec => []RunsLoadedCase
<1>1. SimInit => CaseInv  BY InitCase
<1>2. SimTypeOK /\ CaseInv /\ [SimNext]_simVars => CaseInv'  BY NextCase
<1>3. CaseInv => RunsLoadedCase  BY DEF CaseInv, RunsLoadedCase
<1>4. QED  BY <1>1, <1>2, <1>3, SimTypeCorrect, PTL DEF SimSpec

=============================================================================
