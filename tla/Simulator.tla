----------------------------- MODULE Simulator -----------------------------
(***************************************************************************)
(* The simulator as a process (run_sim, Save and Restore, run_fuzz in      *)
(* src/sim/Top_tb.cpp, src/sim/TopWrapper.hpp): it clocks the core, lets   *)
(* the testbench look at it, decides that the core hangs, writes backups,  *)
(* and may be killed and started again from a backup.                      *)
(*                                                                         *)
(* Time is counted in half cycles of the clock.  What the core does in a   *)
(* cycle is left open, except what the loop depends on: it may retire an   *)
(* instruction, sleep, halt, or do nothing for ever.                       *)
(***************************************************************************)
EXTENDS Fuzzer

CONSTANTS
  HangInterval, BackupInterval,  \* half cycles between two checks, two backups
  TimeMod,       \* main_time is an uint64_t: it counts modulo this
  WFI_DELAY, RESET_DELAY,        \* cycles the core sleeps at most
  RunOn,         \* half cycles after the loop
  FuzzTimeout, FuzzRuns,         \* half cycles of a fuzzing run, runs
  Memories,      \* the contents memory can have: sequences of halfwords
  MaxMinstret,   \* bound: a program retires this many instructions
  MaxKills       \* bound: the process is killed this often

ASSUME SimulatorAssumption ==
  /\ HangInterval \in Nat /\ HangInterval > 4 /\ HangInterval % 2 = 0
  /\ BackupInterval \in Nat \ {0} /\ BackupInterval % HangInterval = 0
  /\ TimeMod \in Nat \ {0} /\ TimeMod % BackupInterval = 0
  /\ WFI_DELAY \in Nat /\ RESET_DELAY \in Nat /\ RunOn \in Nat
  /\ FuzzTimeout \in Nat \ {0} /\ FuzzRuns \in Nat \ {0}
  /\ MaxMinstret \in Nat /\ MaxKills \in Nat

ASSUME MemoriesAssumption ==
  Memories \subseteq Seq(Halfword) /\ \A m, n \in Memories : Len(m) = Len(n)

VARIABLES
  args,          \* the command line: whether backups are written, whether it is fuzzing
  at,            \* where the process is
  mainTime, clk, restoreSave, lastMInstret,
  core,          \* the core
  tb,            \* state: how many cycles the testbench has logged
  modelFile, cosimFile,  \* <NAME>.backup and <NAME>.backup_cosim
  pram, testCase, curCase, runs,  \* memory, and the fuzzer
  left,          \* half cycles left to run on
  kills,         \* how often the process was killed
  quiet,         \* history: half cycles in which no instruction has retired
  tampered,      \* history: minstret was not one higher after an instruction
  torn           \* history: the files, the run come from two different backups

runVars  == <<at, left, mainTime, clk, restoreSave, lastMInstret, core, tb, quiet, tampered>>
fileVars == <<modelFile, cosimFile, torn>>
fuzzVars == <<pram, testCase, curCase, runs>>
simVars  == <<args, runVars, fileVars, fuzzVars, kills>>

Args  == {a \in [backup : BOOLEAN, fuzz : BOOLEAN] : ~(a.backup /\ a.fuzz)}
Where == {"start", "loop", "save", "model", "cosim", "state", "drain", "done", "hang", "dead"}

\* Files that are not there, and those that are not written to their end.
NoFile  == [full |-> FALSE]
Partial == [full |-> FALSE]

\* Cycles are counted as long as main_time does not wrap around.
CycleMod == TimeMod \div 2
Core == [cycle : 0 .. CycleMod - 1, minstret : 0 .. MaxMinstret, sleep : Nat,
         retired : BOOLEAN, halt : BOOLEAN, stuck : BOOLEAN]

\* The core after reset: it sleeps for RESET_DELAY cycles.
ResetCore == [cycle |-> 0, minstret |-> 0, sleep |-> RESET_DELAY, retired |-> FALSE,
              halt |-> FALSE, stuck |-> FALSE]

SimInit ==
  /\ args \in Args
  /\ at = "start" /\ left = 0 /\ mainTime = 0 /\ clk = 0 /\ restoreSave = FALSE /\ lastMInstret = 0
  /\ core = ResetCore /\ tb = 0
  /\ modelFile = NoFile /\ cosimFile = NoFile
  /\ pram \in IF args.fuzz THEN Memories ELSE {<< >>}   \* nothing else depends on it
  /\ testCase = LoadFrom(pram) /\ curCase = testCase
  /\ runs = 0 /\ kills = 0
  /\ quiet = 0 /\ tampered = FALSE /\ torn = [files |-> FALSE, run |-> FALSE]

-----------------------------------------------------------------------------
\* The core, one clock cycle.

\* What an instruction that retires may do besides being counted: it may be a WFI,
\* or write minstret, or not be counted because of mcountinhibit.
Retirements(c) ==
  LET counted == [c EXCEPT !.minstret = @ + 1, !.retired = TRUE]
  IN  (IF c.minstret < MaxMinstret THEN {counted, [counted EXCEPT !.sleep = WFI_DELAY]} ELSE {})
      \cup {[c EXCEPT !.minstret = v, !.retired = TRUE] : v \in 0 .. MaxMinstret}

CoreCycle(c) ==
  LET t == [c EXCEPT !.cycle = (@ + 1) % CycleMod, !.retired = FALSE]
  IN  {[t EXCEPT !.sleep = IF @ > 0 THEN @ - 1 ELSE 0]} \cup
      (IF c.sleep > 0 THEN {[t EXCEPT !.sleep = 0]}
       ELSE IF c.stuck \/ c.halt THEN {}
       ELSE {[t EXCEPT !.stuck = TRUE], [t EXCEPT !.halt = TRUE]} \cup Retirements(t))

\* HalfCycle: the registers of the core change when the clock rises.
HalfCycle ==
  /\ clk' = 1 - clk /\ mainTime' = (mainTime + 1) % TimeMod
  /\ IF clk = 0 THEN core' \in CoreCycle(core) ELSE core' = core

-----------------------------------------------------------------------------
\* run_sim up to the loop.

\* TopWrapper::Reset
ResetHalfCycles == 4

Boot ==
  /\ at = "start"
  /\ mainTime' = ResetHalfCycles /\ clk' = ResetHalfCycles % 2
  /\ core' = ResetCore
  /\ lastMInstret' = 0
  /\ tb' = 0 /\ quiet' = ResetHalfCycles /\ tampered' = FALSE
  /\ torn' = [torn EXCEPT !.run = FALSE]
  /\ IF args.fuzz
     THEN /\ curCase' \in IF testCase = << >> THEN {testCase} ELSE Mutations(testCase)
          /\ pram' = Unpack(testCase, pram)   \* not curCase
     ELSE UNCHANGED <<curCase, pram>>
  /\ at' = "loop" /\ left' = RunOn
  /\ UNCHANGED <<args, restoreSave, modelFile, cosimFile, testCase, runs, kills>>

\* Restore.  It aborts if a file is missing or too short.
Restore ==
  /\ at = "start" /\ modelFile.full /\ cosimFile.full
  /\ mainTime' = modelFile.mainTime /\ clk' = modelFile.clk /\ core' = modelFile.core
  /\ lastMInstret' = modelFile.core.minstret
  /\ tb' = cosimFile.tb /\ quiet' = 0 /\ tampered' = FALSE
  /\ torn' = [torn EXCEPT !.run = torn.files]
  /\ restoreSave' = TRUE
  /\ at' = "loop" /\ left' = RunOn
  /\ UNCHANGED <<args, modelFile, cosimFile, fuzzVars, kills>>

-----------------------------------------------------------------------------
\* The loop.

Timeout == IF args.fuzz THEN FuzzTimeout ELSE 0
TimedOut(time, level) == level = 1 /\ Timeout # 0 /\ time > Timeout

\* Fault: the check comes twice as often.
HangCheckTwice(time, c) == time % (HangInterval \div 2) = 0 /\ ~restoreSave /\ c.sleep = 0

HangCheck(time, c) == time % HangInterval = 0 /\ ~restoreSave /\ c.sleep = 0

\* Fault: a backup is written at the wrong time.
SaveDueLate(time) == args.backup /\ time % BackupInterval = 1

SaveDue(time) == args.backup /\ time % BackupInterval = 0

\* Faults: after a restore there is no check any more; every half cycle is logged.
StillRestored == restoreSave
LogAlways(level) == tb' = (tb + 1) % CycleMod

AfterIteration == FALSE
LogInstructions(level) == tb' = IF level = 1 THEN (tb + 1) % CycleMod ELSE tb

\* HalfCycle and what follows it in the loop.
Iteration ==
  /\ at = "loop" /\ ~core.halt
  /\ HalfCycle
  /\ LogInstructions(clk')
  /\ quiet' = IF clk' = 1 /\ core'.retired THEN 0
              ELSE IF quiet < HangInterval THEN quiet + 1 ELSE quiet
  /\ tampered' = (tampered \/ (clk' = 1 /\ core'.retired /\ core'.minstret # core.minstret + 1))
  /\ LET hung == HangCheck(mainTime', core') /\ core'.minstret = lastMInstret
     IN  \/ /\ TimedOut(mainTime', clk')
            /\ at' = "drain" /\ UNCHANGED <<lastMInstret, restoreSave>>
         \/ /\ ~TimedOut(mainTime', clk') /\ hung
            /\ at' = "hang" /\ UNCHANGED <<lastMInstret, restoreSave>>
         \/ /\ ~TimedOut(mainTime', clk') /\ ~hung
            /\ lastMInstret' = IF HangCheck(mainTime', core') THEN core'.minstret ELSE lastMInstret
            /\ at' = IF SaveDue(mainTime') THEN "save" ELSE "loop"
            /\ restoreSave' = AfterIteration
  /\ UNCHANGED <<args, left, fileVars, fuzzVars, kills>>

\* Fault: the time is not saved.
SnapshotWithoutTime == [full |-> TRUE, clk |-> clk, core |-> core]

\* save_model
Snapshot == [full |-> TRUE, mainTime |-> mainTime, clk |-> clk, core |-> core]

\* Save: each of the two files is emptied when it is opened.
Save ==
  /\ \/ /\ at = "save" /\ at' = "model" /\ modelFile' = Partial
        /\ UNCHANGED <<cosimFile, torn>>
     \/ /\ at = "model" /\ at' = "cosim"
        /\ modelFile' = Snapshot
        /\ UNCHANGED <<cosimFile, torn>>
     \/ /\ at = "cosim" /\ at' = "state" /\ cosimFile' = Partial
        /\ UNCHANGED <<modelFile, torn>>
     \/ /\ at = "state" /\ at' = "loop" /\ cosimFile' = [full |-> TRUE, tb |-> tb]
        /\ torn' = [torn EXCEPT !.files = torn.run]
        /\ UNCHANGED modelFile
  /\ UNCHANGED <<args, left, mainTime, clk, restoreSave, lastMInstret, core, tb, quiet, tampered,
                 fuzzVars, kills>>

\* OUT_halt: en = 0.
Halt ==
  /\ at = "loop" /\ core.halt /\ at' = "drain"
  /\ UNCHANGED <<args, left, mainTime, clk, restoreSave, lastMInstret, core, tb, quiet, tampered,
                 fileVars, fuzzVars, kills>>

\* A few more cycles, in which nobody looks.
Drain ==
  /\ at = "drain" /\ left > 0
  /\ left' = left - 1
  /\ HalfCycle
  /\ UNCHANGED <<args, at, restoreSave, lastMInstret, tb, quiet, tampered, fileVars,
                 fuzzVars, kills>>

\* The process ends, or the next run of the fuzzer begins; the program of the last one
\* leaves anything in memory.
Finish ==
  /\ at = "drain" /\ left = 0
  /\ IF args.fuzz
     THEN /\ runs' = runs + 1
          /\ at' = IF runs' < FuzzRuns THEN "start" ELSE "done"
          /\ pram' \in Memories
     ELSE at' = "done" /\ UNCHANGED <<runs, pram>>
  /\ UNCHANGED <<args, left, mainTime, clk, restoreSave, lastMInstret, core, tb, quiet,
                 tampered, fileVars, testCase, curCase, kills>>

\* The process is killed, or crashes; what it was given stays on the disk.
Kill ==
  /\ args.backup /\ kills < MaxKills /\ at \notin {"start", "done", "dead"}
  /\ at' = "dead" /\ kills' = kills + 1
  /\ torn' = [torn EXCEPT !.files = @ \/ at = "cosim"]
  /\ UNCHANGED <<args, left, mainTime, clk, restoreSave, lastMInstret, core, tb, quiet, tampered,
                 modelFile, cosimFile, fuzzVars>>

\* It is started again.
Restart ==
  /\ at = "dead" /\ at' = "start" /\ restoreSave' = FALSE
  /\ UNCHANGED <<args, left, mainTime, clk, lastMInstret, core, tb, quiet, tampered, fileVars,
                 fuzzVars, kills>>

Process == Boot \/ Restore \/ Iteration \/ Save \/ Halt \/ Drain \/ Finish
SimNext == Process \/ Kill \/ Restart

SimSpec == SimInit /\ [][SimNext]_simVars

\* The operating system runs the process.
FairSimSpec == SimSpec /\ WF_simVars(Process)

-----------------------------------------------------------------------------
(***************************************************************************)
(* Properties.                                                             *)
(***************************************************************************)

SimTypeOK ==
  /\ args \in Args /\ at \in Where /\ left \in 0 .. RunOn
  /\ mainTime \in 0 .. TimeMod - 1 /\ clk \in {0, 1} /\ restoreSave \in BOOLEAN
  /\ lastMInstret \in 0 .. MaxMinstret
  /\ core \in Core /\ tb \in 0 .. CycleMod - 1
  /\ modelFile \in {NoFile} \cup
       [full : {TRUE}, mainTime : 0 .. TimeMod - 1, clk : {0, 1}, core : Core]
  /\ cosimFile \in {NoFile} \cup [full : {TRUE}, tb : 0 .. CycleMod - 1]
  /\ quiet \in 0 .. HangInterval /\ tampered \in BOOLEAN
  /\ torn \in [files : BOOLEAN, run : BOOLEAN] /\ kills \in 0 .. MaxKills

\* "ERROR: Hang detected" is only printed for a core that is awake and has not retired
\* an instruction for the whole interval, also after a restart; unless the program has
\* changed minstret itself, by which the loop judges (run_sim, hang detection).
HangIsReal == at = "hang" => core.sleep = 0 /\ (quiet >= HangInterval \/ tampered)

\* The testbench has logged every cycle of the core exactly once, also after a restart
\* from a backup; unless the process was killed when one file of the backup was new and
\* the other one still old (run_sim, Save, Restore).
InStep == at \in {"loop", "save", "hang"} /\ ~torn.run => tb = core.cycle

\* A backup is taken while the clock is low: the next half cycle is a rising edge, which
\* is logged (run_sim; CoSim restarts between two cycles).
BackupAtLowClock == modelFile.full => modelFile.clk = 0 /\ modelFile.mainTime % BackupInterval = 0

\* A fuzzing run starts with the program that was loaded, whatever the runs before it
\* have left in memory (TestCase::load, unpack).
RunsLoadedCase ==
  args.fuzz /\ at = "loop" /\ core.cycle = 0 /\ clk = 0 =>
    SubSeq(LoadFrom(pram), 1, Len(testCase)) = testCase

\* A core that does nothing any more is found out: the process does not loop for ever,
\* not even after a restart from a backup of such a core.
StuckIsFound == (at = "loop" /\ core.stuck) ~> at \in {"hang", "drain", "dead"}

=============================================================================
