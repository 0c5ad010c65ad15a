------------------------------- MODULE Traps -------------------------------
(***************************************************************************)
(* Traps, system calls and the registers they go through: the wrappers of  *)
(* src/syscall_c.cpp, src/trap.S, src/Riscv.cpp and contextSwitch.S.       *)
(*                                                                         *)
(* sepc and sstatus exist once in the processor.  A handler that yields is *)
(* suspended with the address and the status of its thread in two local    *)
(* variables while others trap, start and return.  Which thread runs next  *)
(* is the scheduler's affair (module Dispatcher); here it is any that can. *)
(*                                                                         *)
(* at[t] says where thread t stands:                                       *)
(*   "fresh"     at the start of threadWrapper, in supervisor mode         *)
(*   "body"      in its body, in user mode                                 *)
(*   "call", "timer", "console"   in a handler, before any switch          *)
(*   "yielded", "preempted"       in a handler, at a call of TCB::yield    *)
(*   "main"      in main(), in supervisor mode                             *)
(*   "gone"      finished                                                  *)
(***************************************************************************)
EXTENDS Integers

CONSTANTS
  Threads,   \* the threads other than main, the idle thread included
  Main,      \* the thread main() makes of itself
  Calls,     \* the functions of syscall_c.hpp that programs use
  Length     \* instructions of a body, which is a loop (a bound)

(* The code each wrapper puts in a0 before it traps. *)
Code ==
  [mem_alloc |-> "0x01", mem_free |-> "0x02", thread_create |-> "0x11",
   thread_exit |-> "0x12", thread_dispatch |-> "0x13", thread_start |-> "0x14",
   thread_create_only |-> "0x15", sem_open |-> "0x21", sem_close |-> "0x22",
   sem_wait |-> "0x23", sem_signal |-> "0x24", time_sleep |-> "0x31",
   getc |-> "0x41", putc |-> "0x42"]

ASSUME TrapsAssumption ==
  /\ Main \notin Threads
  /\ Calls \subseteq DOMAIN Code
  /\ Length \in Nat \ {0}

VARIABLES
  running,   \* TCB::running
  mode,      \* the privilege of the processor, "U" or "S"
  pc,        \* the next instruction of the running body; Kernel in the kernel
  a0,        \* the register for codes and results
  csr,       \* sepc, and sstatus as SPP, SPIE and SIE
  pending,   \* sip.SSIP
  at,        \* where each thread stands
  frame,     \* a0 among the registers trap.S saved on the stack of a thread
  local,     \* the variables sepc and sstatus of a handler
  due        \* the pc and a0 each body must go on with, and its last call (ghost)

vars == <<running, mode, pc, a0, csr, pending, at, frame, local, due>>

Kernel    == -1   \* an address of the kernel
AllThreads == Threads \cup {Main}
Addresses == 0 .. Length - 1
Codes     == {Code[c] : c \in DOMAIN Code}
Handling  == {"call", "timer", "console"}
Waiting   == {"fresh", "main", "yielded", "preempted"}   \* where a switch leads
Csr       == [sepc : Addresses \cup {Kernel}, spp : {"U", "S"}, spie : BOOLEAN, sie : BOOLEAN]
A0        == DOMAIN Code \cup Codes \cup {"own", "scratch"}

Unset     == [sepc |-> Kernel, spp |-> "U", spie |-> FALSE, sie |-> FALSE]

Following(p) == (p + 1) % Length

(* main() runs with interrupts off; SPP and SPIE are what the boot code     *)
(* left.                                                                   *)
Init ==
  /\ running = Main /\ mode = "S"
  /\ pc = Kernel /\ a0 = "scratch"
  /\ csr \in [sepc : {Kernel}, spp : {"U", "S"}, spie : BOOLEAN, sie : {FALSE}]
  /\ pending \in BOOLEAN
  /\ at = [t \in AllThreads |-> IF t = Main THEN "main" ELSE "fresh"]
  /\ frame = [t \in AllThreads |-> "scratch"]
  /\ local = [t \in AllThreads |-> Unset]
  /\ due = [t \in AllThreads |-> [pc |-> 0, a0 |-> "own", call |-> "none"]]

-----------------------------------------------------------------------------
(* The processor and trap.S. *)

(* An interrupt that is pending is taken before the next instruction. *)
InterruptsOn == mode = "U" \/ csr.sie

(* What the processor does in a trap at address p. *)
Trap(p) == [sepc |-> p, spp |-> mode, spie |-> csr.sie, sie |-> FALSE]

(* supervisorTrap saves the registers and calls the handler. *)
Enter(place) ==
  /\ csr' = Trap(pc)
  /\ mode' = "S"
  /\ frame' = [frame EXCEPT ![running] = a0]
  /\ at' = [at EXCEPT ![running] = place]
  /\ pc' = Kernel /\ a0' = "scratch"

(* The registers are loaded, with result in a0, and sret is executed with   *)
(* the values c in sepc and sstatus; the frame and the variables of the    *)
(* handler are no more.                                                    *)
Leave(c, result) ==
  /\ mode' = c.spp
  /\ pc' = c.sepc
  /\ csr' = [c EXCEPT !.spp = "U", !.spie = TRUE, !.sie = c.spie]
  /\ a0' = result
  /\ at' = [at EXCEPT ![running] = "body"]
  /\ frame' = [frame EXCEPT ![running] = "scratch"]
  /\ local' = [local EXCEPT ![running] = Unset]
  /\ UNCHANGED running

(* TCB::dispatch and contextSwitch: the thread is left at place, and       *)
(* another one goes on, or the same one.                                   *)
Switch(place) ==
  /\ at' = [at EXCEPT ![running] = place]
  /\ running' \in {u \in AllThreads : at'[u] \in Waiting}

-----------------------------------------------------------------------------
(* The body of a thread. *)

InBody == at[running] = "body" /\ ~(pending /\ InterruptsOn)

Continue(value, call) ==
  /\ pc' = Following(pc)
  /\ a0' = value
  /\ due' = [due EXCEPT ![running] = [pc |-> Following(pc), a0 |-> value, call |-> call]]
  /\ UNCHANGED <<running, mode, csr, pending, at, frame, local>>

Compute == InBody /\ a0 \notin Codes /\ Continue("own", "none")

(* A wrapper puts the code in a0, and traps with its next instruction. *)
Wrapper(c) == InBody /\ a0 \notin Codes /\ Continue(Code[c], c)

(* The functions that return nothing leave what happens to be in a0. *)
Answer(c) == IF c \in {"thread_dispatch", "putc"} THEN "scratch" ELSE c

(* Mutant: the address of the ecall itself is kept.                         *)
SavedSameAddress(p) == [Trap(p) EXCEPT !.sepc = p]

(* What the handler of a system call at address p reads into its variables: *)
(* the program goes on behind the ecall.                                   *)
Saved(p) == [Trap(p) EXCEPT !.sepc = Following(p)]

Ecall ==
  /\ InBody /\ a0 \in Codes
  /\ local' = [local EXCEPT ![running] = Saved(pc)]
  /\ due' = [due EXCEPT ![running] = [pc |-> Following(pc), a0 |-> Answer(due[running].call),
                                      call |-> "none"]]
  /\ Enter("call")
  /\ UNCHANGED <<running, pending>>

(* The body returns to threadWrapper, which calls thread_exit in user mode: *)
(* it traps with the code of thread_dispatch.                              *)
BodyReturns ==
  /\ InBody /\ a0 \notin Codes
  /\ csr' = Trap(pc)
  /\ mode' = "S" /\ pc' = Kernel /\ a0' = "scratch"
  /\ Switch("gone")
  /\ UNCHANGED <<pending, frame, local, due>>

-----------------------------------------------------------------------------
(* The system calls. *)

(* The function each case of syscallHandle calls. *)
Cases ==
  {<<"0x01", "mem_alloc">>, <<"0x02", "mem_free">>, <<"0x11", "thread_create">>,
   <<"0x12", "thread_exit">>, <<"0x13", "thread_dispatch">>, <<"0x14", "thread_start">>,
   <<"0x15", "thread_create_only">>, <<"0x21", "sem_open">>, <<"0x22", "sem_close">>,
   <<"0x23", "sem_wait">>, <<"0x24", "sem_signal">>, <<"0x31", "time_sleep">>,
   <<"0x41", "getc">>, <<"0x42", "putc">>}
Served(code) == CHOOSE c \in DOMAIN Code : <<code, c>> \in Cases

(* sem_wait yields if it blocks, thread_dispatch and time_sleep always.    *)
AlwaysYields == {"thread_dispatch", "time_sleep"}
MayYield     == AlwaysYields \cup {"sem_wait"}
Serving      == Served(frame[running])

CallYields ==
  /\ at[running] = "call"
  /\ Serving \in MayYield
  /\ Switch("yielded")
  /\ UNCHANGED <<mode, pc, a0, csr, pending, frame, local, due>>

(* Mutants: the status is not written back; the address is not.            *)
RestoredAddressOnly(c) == [csr EXCEPT !.sepc = c.sepc]
RestoredStatusOnly(c)  == [c EXCEPT !.sepc = csr.sepc]

(* sepc and sstatus once a handler that yielded has written back c.        *)
Restored(c) == c

(* The result is put in the saved a0, and the thread goes on.              *)
CallReturns ==
  /\ \/ at[running] = "call" /\ Serving \notin AlwaysYields \cup {"thread_exit"}
     \/ at[running] = "yielded"
  /\ Leave(Restored(local[running]), Answer(Serving))
  /\ UNCHANGED <<pending, due>>

(* thread_exit traps once more, from the handler, and never comes back.    *)
Exit ==
  /\ at[running] = "call"
  /\ Serving = "thread_exit"
  /\ csr' = Trap(Kernel)
  /\ Switch("gone")
  /\ UNCHANGED <<mode, pc, a0, pending, frame, local, due>>

-----------------------------------------------------------------------------
(* Threads that run without coming from a trap. *)

(* Mutant: popSppSpie leaves SPP as it is.                                 *)
StartStatusKept == [csr EXCEPT !.sepc = 0]

(* popSppSpie clears SPP and returns behind its own call.                  *)
StartStatus == [csr EXCEPT !.sepc = 0, !.spp = "U"]

Start ==
  /\ at[running] = "fresh"
  /\ Leave(StartStatus, "own")
  /\ UNCHANGED <<pending, due>>

MainYields ==
  /\ at[running] = "main"
  /\ Switch("main")
  /\ UNCHANGED <<mode, pc, a0, csr, pending, frame, local, due>>

-----------------------------------------------------------------------------
(* Interrupts. *)

TimerInterrupt ==
  /\ pending /\ InterruptsOn
  /\ Enter("timer")
  /\ UNCHANGED <<running, pending, local, due>>

(* The slice is not over: nothing was saved, and nothing has changed.      *)
TimerReturns ==
  /\ at[running] = "timer"
  /\ pending' = FALSE
  /\ Leave(csr, frame[running])
  /\ UNCHANGED due

TimerPreempts ==
  /\ at[running] = "timer"
  /\ local' = [local EXCEPT ![running] = csr]
  /\ Switch("preempted")
  /\ UNCHANGED <<mode, pc, a0, csr, pending, frame, due>>

TimerResumes ==
  /\ at[running] = "preempted"
  /\ pending' = FALSE
  /\ Leave(Restored(local[running]), frame[running])
  /\ UNCHANGED due

(* The external interrupt: console_handler of the console library.         *)
ConsoleInterrupt ==
  /\ InterruptsOn
  /\ Enter("console")
  /\ UNCHANGED <<running, pending, local, due>>

ConsoleReturns ==
  /\ at[running] = "console"
  /\ Leave(csr, frame[running])
  /\ UNCHANGED <<pending, due>>

TimerSets ==
  /\ ~pending
  /\ pending' = TRUE
  /\ UNCHANGED <<running, mode, pc, a0, csr, at, frame, local, due>>

-----------------------------------------------------------------------------
Next ==
  \/ Compute \/ (\E c \in Calls : Wrapper(c)) \/ Ecall \/ BodyReturns
  \/ CallYields \/ CallReturns \/ Exit
  \/ Start \/ MainYields
  \/ TimerInterrupt \/ TimerReturns \/ TimerPreempts \/ TimerResumes
  \/ ConsoleInterrupt \/ ConsoleReturns \/ TimerSets

Spec == Init /\ [][Next]_vars

-----------------------------------------------------------------------------
TypeOK ==
  /\ running \in AllThreads
  /\ mode \in {"U", "S"}
  /\ pc \in Addresses \cup {Kernel} /\ (mode = "U" => pc # Kernel)
  /\ a0 \in A0
  /\ csr \in Csr
  /\ pending \in BOOLEAN
  /\ at \in [AllThreads -> Handling \cup Waiting \cup {"body", "gone"}]
  /\ frame \in [AllThreads -> A0]
  /\ local \in [AllThreads -> Csr]
  /\ due \in [AllThreads -> [pc : Addresses, a0 : A0, call : DOMAIN Code \cup {"none"}]]

(* A body runs in user mode and everything else in supervisor mode, however *)
(* the thread that runs was left: main and the trap of thread_exit leave    *)
(* SPP set for whoever returns next.                                       *)
Privilege == mode = "U" <=> at[running] = "body"

(* No interrupt is taken in supervisor mode: the operations of the kernel   *)
(* are atomic, and main is left alone.                                     *)
KernelUninterrupted == mode = "S" => ~InterruptsOn

(* Whatever interrupts a body, and whoever ran meanwhile, it goes on with   *)
(* the instruction that is next, and finds in a0 what it left there, or    *)
(* the answer of the function it called and of no other.                   *)
GoesOnWhereItWas ==
  at[running] = "body" => pc = due[running].pc /\ a0 = due[running].a0
=============================================================================
