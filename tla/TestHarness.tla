---------------------------- MODULE TestHarness ----------------------------
(***************************************************************************)
(* The single-step test runner (src/test/m68k_full_test/                   *)
(* full_m68k_test.cpp, main, WorkOnFile and the outcome of WorkOnTest).   *)
(*                                                                         *)
(* main sorts the test file paths and starts threadCount threads.  Each    *)
(* thread owns a private TestCpu and loops: under the mutex it skips the  *)
(* files shouldRunTest rejects, returns when curIndex has passed the last  *)
(* path, and otherwise takes paths[curIndex - 1] and increments curIndex   *)
(* and totalCount.  Outside the mutex it parses the file and runs its     *)
(* tests one after the other.  main joins the threads and prints          *)
(* totalCount.                                                             *)
(*                                                                         *)
(* The critical section is one step: it holds the mutex from the first    *)
(* read of curIndex to the last write, and no other code touches         *)
(* curIndex or totalCount.  A test's verdict is printed, never used, so   *)
(* it is left out; what matters is whether WorkOnTest returns or throws.  *)
(* Nothing in a thread catches: an exception thrown by json::parse or by  *)
(* execute (a memory fault) leaves the thread function, and the C++       *)
(* runtime calls std::terminate, which ends every thread.                 *)
(*                                                                         *)
(* main fixes threadCount = 1 (the 10 is commented out), so the runs use  *)
(* one thread; the model keeps Threads a parameter because the lambda is  *)
(* written for several.  The directory's contents (how many tests each    *)
(* file has, which files do not parse, which tests throw) are inputs,     *)
(* chosen in Init and never changed.                                      *)
(***************************************************************************)
EXTENDS Naturals, Sequences, SequencesExt

CONSTANTS
  Threads,         \* the threads main starts (threadCount of them)
  NumFiles,        \* paths.size(): the sorted .json paths, indexed from 1
  ShouldRunTest,   \* the indices shouldRunTest accepts
  FileSizes,       \* the possible test counts of the files
  UnparsableSets,  \* the possible sets of files json::parse throws on
  ThrowingSets     \* the possible sets of <<file, test>> WorkOnTest throws on

Files == 1 .. NumFiles

VARIABLES
  curIndex,      \* the shared index of the next path (starts at 1)
  totalCount,    \* the shared count of files taken
  pc,            \* pc[t]: where thread t is in its loop
  file,          \* file[t]: the index of the path thread t took
  nTest,         \* nTest[t]: WorkOnFile's loop index (from 1 here)
  ran,           \* ran[f]: tests of file f that WorkOnTest completed
  size,          \* size[i]: the number of tests in file i
  unparsable,    \* the files on which json::parse throws
  throwing,      \* the pairs <<file, test>> on which WorkOnTest throws
  aborted,       \* std::terminate has ended the process
  joined         \* main has joined every thread

(* The directory's contents, fixed before main starts. *)
inputs == <<size, unparsable, throwing>>

vars == <<curIndex, totalCount, pc, file, nTest, ran, inputs, aborted,
          joined>>

Init ==
  /\ curIndex = 1
  /\ totalCount = 0
  /\ pc = [t \in Threads |-> "lock"]
  /\ file = [t \in Threads |-> 0]
  /\ nTest = [t \in Threads |-> 0]
  /\ ran = [f \in Files |-> 0]
  /\ size \in FileSizes
  /\ unparsable \in UnparsableSets
  /\ throwing \in ThrowingSets
  /\ aborted = FALSE
  /\ joined = FALSE

(* Mutant: the skip loop starts one past curIndex. *)
NextRunnableSkipFirst ==
  LET cands == {i \in curIndex + 1 .. NumFiles : i \in ShouldRunTest}
  IN  IF cands = {} THEN NumFiles + 1
      ELSE CHOOSE i \in cands : \A j \in cands : i <= j

(* The index the skip loop stops at: the first index from curIndex on    *)
(* that shouldRunTest accepts, or paths.size() + 1.                       *)
NextRunnable ==
  LET cands == {i \in curIndex .. NumFiles : i \in ShouldRunTest}
  IN  IF cands = {} THEN NumFiles + 1
      ELSE CHOOSE i \in cands : \A j \in cands : i <= j

(* The mutex section with a path left: take it, then ++curIndex and     *)
(* ++totalCount.                                                          *)
TakePath(t) ==
  /\ ~aborted
  /\ pc[t] = "lock"
  /\ NextRunnable <= NumFiles
  /\ curIndex' = NextRunnable + 1
  /\ totalCount' = totalCount + 1
  /\ file' = [file EXCEPT ![t] = NextRunnable]
  /\ pc' = [pc EXCEPT ![t] = "load"]
  /\ UNCHANGED <<nTest, ran, inputs, aborted, joined>>

(* Mutant: `continue` where the code returns; the thread spins.         *)
ExitContinue(t) ==
  /\ ~aborted
  /\ pc[t] = "lock"
  /\ NextRunnable > NumFiles
  /\ curIndex' = NextRunnable
  /\ UNCHANGED <<totalCount, pc, file, nTest, ran, inputs, aborted, joined>>

(* The mutex section with every path taken or skipped: the thread        *)
(* function returns.                                                      *)
Exit(t) ==
  /\ ~aborted
  /\ pc[t] = "lock"
  /\ NextRunnable > NumFiles
  /\ curIndex' = NextRunnable
  /\ pc' = [pc EXCEPT ![t] = "returned"]
  /\ UNCHANGED <<totalCount, file, nTest, ran, inputs, aborted, joined>>

(* LoadTestFile: json::parse of the file succeeds; WorkOnFile starts.    *)
LoadFile(t) ==
  /\ ~aborted
  /\ pc[t] = "load"
  /\ file[t] \notin unparsable
  /\ pc' = [pc EXCEPT ![t] = "work"]
  /\ nTest' = [nTest EXCEPT ![t] = 1]
  /\ UNCHANGED <<curIndex, totalCount, file, ran, inputs, aborted, joined>>

(* json::parse throws on a malformed file: std::terminate.               *)
ParseThrows(t) ==
  /\ ~aborted
  /\ pc[t] = "load"
  /\ file[t] \in unparsable
  /\ aborted' = TRUE
  /\ UNCHANGED <<curIndex, totalCount, pc, file, nTest, ran, inputs, joined>>

(* One iteration of WorkOnFile's loop: WorkOnTest returns a verdict.     *)
RunTest(t) ==
  /\ ~aborted
  /\ pc[t] = "work"
  /\ nTest[t] <= size[file[t]]
  /\ <<file[t], nTest[t]>> \notin throwing
  /\ ran' = [ran EXCEPT ![file[t]] = @ + 1]
  /\ nTest' = [nTest EXCEPT ![t] = @ + 1]
  /\ UNCHANGED <<curIndex, totalCount, pc, file, inputs, aborted, joined>>

(* WorkOnTest throws (execute raised a memory fault): nothing catches it *)
(* and std::terminate ends the process.                                   *)
TestThrows(t) ==
  /\ ~aborted
  /\ pc[t] = "work"
  /\ nTest[t] <= size[file[t]]
  /\ <<file[t], nTest[t]>> \in throwing
  /\ aborted' = TRUE
  /\ UNCHANGED <<curIndex, totalCount, pc, file, nTest, ran, inputs, joined>>

(* Mutant: the loop bound off by one, the last test is skipped.         *)
EndFileEarly(t) ==
  /\ ~aborted
  /\ pc[t] = "work"
  /\ nTest[t] >= size[file[t]]
  /\ pc' = [pc EXCEPT ![t] = "lock"]
  /\ UNCHANGED <<curIndex, totalCount, file, nTest, ran, inputs, aborted,
                 joined>>

(* WorkOnFile's loop ends; the thread goes back to the mutex.            *)
EndFile(t) ==
  /\ ~aborted
  /\ pc[t] = "work"
  /\ nTest[t] > size[file[t]]
  /\ pc' = [pc EXCEPT ![t] = "lock"]
  /\ UNCHANGED <<curIndex, totalCount, file, nTest, ran, inputs, aborted,
                 joined>>

(* main: every join has returned; totalCount is printed.                 *)
Join ==
  /\ ~aborted
  /\ ~joined
  /\ \A t \in Threads : pc[t] = "returned"
  /\ joined' = TRUE
  /\ UNCHANGED <<curIndex, totalCount, pc, file, nTest, ran, inputs,
                 aborted>>

ThreadStep(t) ==
  \/ TakePath(t) \/ Exit(t) \/ LoadFile(t) \/ ParseThrows(t)
  \/ RunTest(t) \/ TestThrows(t) \/ EndFile(t)

Next == Join \/ \E t \in Threads : ThreadStep(t)

(* Threads are OS threads: one that can run eventually runs.  The mutex *)
(* is held only inside one step, so a waiting thread's step stays        *)
(* enabled and weak fairness is enough.                                   *)
Spec ==
  /\ Init /\ [][Next]_vars
  /\ \A t \in Threads : WF_vars(ThreadStep(t))
  /\ WF_vars(Join)

TypeOK ==
  /\ curIndex \in 1 .. NumFiles + 1
  /\ totalCount \in 0 .. NumFiles
  /\ pc \in [Threads -> {"lock", "load", "work", "returned"}]
  /\ file \in [Threads -> 0 .. NumFiles]
  /\ nTest \in [Threads -> Nat]
  /\ ran \in [Files -> Nat]
  /\ size \in FileSizes
  /\ aborted \in BOOLEAN
  /\ joined \in BOOLEAN
=============================================================================
