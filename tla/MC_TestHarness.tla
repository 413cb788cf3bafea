--------------------------- MODULE MC_TestHarness ---------------------------
(***************************************************************************)
(* Model-checking instance of TestHarness: four sorted test files of 0 to *)
(* 2 tests each, run by the one worker main starts (threadCount = 1).     *)
(* shouldRunTest accepts every index, as the lambda in main does.         *)
(***************************************************************************)
EXTENDS TestHarness, FiniteSets

MCShouldRunTest == 1 .. 4
MCFileSizes == [1 .. 4 -> 0 .. 2]
NoFailures == {{}}
MCUnparsableSets == {{}, {2}}
MCThrowingSets == {{}, {<<1, 2>>}, {<<3, 1>>, <<4, 1>>}}
FirstTestThrows == {{<<1, 1>>}}
OneSizing == {<<2, 0, 1, 2>>}

(* The file and test at which the run fails: the first accepted file, in *)
(* path order, that does not parse or has a test that throws.  The test   *)
(* is 0 for a file that does not parse.  <<NumFiles + 1, 0>> if none.     *)
FailFiles ==
  {f \in ShouldRunTest :
     f \in unparsable \/ \E k \in 1 .. size[f] : <<f, k>> \in throwing}
FailPoint ==
  IF FailFiles = {} THEN <<NumFiles + 1, 0>>
  ELSE LET f == CHOOSE g \in FailFiles : \A h \in FailFiles : g <= h
       IN  <<f, IF f \in unparsable THEN 0
                ELSE CHOOSE k \in 1 .. size[f] :
                       /\ <<f, k>> \in throwing
                       /\ \A j \in 1 .. k - 1 : <<f, j>> \notin throwing>>

(* The tests of file f that ran before the failure: all of an earlier    *)
(* file, those before the failing test of the failing file, none after. *)
RanBefore(f) ==
  IF f \notin ShouldRunTest THEN 0
  ELSE IF f < FailPoint[1] THEN size[f]
  ELSE IF f = FailPoint[1] THEN IF FailPoint[2] = 0 THEN 0 ELSE FailPoint[2] - 1
  ELSE 0

(* When an uncaught exception (json::parse at :190, execute at :266) has *)
(* ended the process, the tests that ran are exactly those before the     *)
(* failing one in path and test order: with one worker the files are      *)
(* taken in sorted order and each is run test by test, so the logs of a   *)
(* crashed run cover a prefix of the suite and no more.                   *)
AbortedPrefix ==
  aborted => \A f \in Files : ran[f] = RanBefore(f)

(* When main has joined the threads, every test of every accepted file  *)
(* has been run exactly once (WorkOnFile's loop over the tests of the     *)
(* file the mutex section handed out) and no other file was touched.     *)
WorkComplete ==
  joined => \A f \in Files :
              ran[f] = IF f \in ShouldRunTest THEN size[f] ELSE 0

(* main eventually joins every thread and prints totalCount: the run     *)
(* over all files ends.                                                  *)
Termination == <>joined
=============================================================================
