---------------------------- MODULE TrapsProofs ----------------------------
(***************************************************************************)
(* Proofs about Traps, for every set of threads, every set of calls and    *)
(* every length of the bodies.                                             *)
(***************************************************************************)
EXTENDS Traps, TLAPS

(* A handler that has yielded, or is about to, holds what its thread needs. *)
Holds(c, t) == c.sepc = due[t].pc /\ c.spp = "U" /\ ~c.sie

OneInside == \A t \in AllThreads : t # running => at[t] \notin Handling \cup {"body"}

CallsSaved ==
  \A t \in AllThreads : at[t] \in {"call", "yielded"} =>
    Holds(local[t], t) /\ due[t].a0 = Answer(Served(frame[t]))

InterruptsSaved ==
  /\ \A t \in AllThreads : at[t] = "preempted" => Holds(local[t], t)
  /\ at[running] \in {"timer", "console"} => Holds(csr, running)
  /\ \A t \in AllThreads : at[t] \in {"timer", "console", "preempted"} => frame[t] = due[t].a0

(* A body that is about to trap has in a0 the code of the call it makes.   *)
CodesAgree ==
  \A t \in AllThreads : due[t].a0 \in Codes =>
    due[t].call \in DOMAIN Code /\ due[t].a0 = Code[due[t].call]

FreshAtStart ==
  \A t \in AllThreads : at[t] = "fresh" => due[t].pc = 0 /\ due[t].a0 = "own"

Masked == mode = "S" => ~csr.sie

IInv ==
  /\ TypeOK /\ Privilege /\ Masked /\ GoesOnWhereItWas
  /\ OneInside /\ CallsSaved /\ InterruptsSaved /\ CodesAgree /\ FreshAtStart

(* The wrappers and the handler number the calls alike, and no number is    *)
(* the answer of a function.                                               *)
LEMMA CodesServed ==
  /\ \A c \in DOMAIN Code : Code[c] \in Codes /\ Served(Code[c]) = c
  /\ \A x \in Codes : Served(x) \in DOMAIN Code
  /\ \A c \in DOMAIN Code : Answer(c) \in A0 \ Codes
  /\ "own" \in A0 \ Codes /\ "scratch" \in A0 \ Codes /\ Codes \subseteq A0
  /\ DOMAIN Code \subseteq A0
<1>1. \A c \in DOMAIN Code : Code[c] \in Codes
  BY DEF Codes
<1>2. \A c \in DOMAIN Code : Served(Code[c]) = c
  <2>1. \A c \in DOMAIN Code : <<Code[c], c>> \in Cases
    BY DEF Code, Cases
  <2>2. \A x, c, d : <<x, c>> \in Cases /\ <<x, d>> \in Cases => c = d
    BY DEF Cases
  <2> QED
    BY <2>1, <2>2, Zenon DEF Served
<1>3. \A x \in Codes : Served(x) \in DOMAIN Code
  BY <1>2 DEF Codes
<1>4. \A c, d \in DOMAIN Code : c # Code[d]
  BY DEF Code
<1>5. \A c \in DOMAIN Code : "own" # Code[c] /\ "scratch" # Code[c]
  BY DEF Code
<1> QED
  BY <1>1, <1>2, <1>3, <1>4, <1>5 DEF A0, Answer, Codes

LEMMA FollowingType == \A p \in Addresses : Following(p) \in Addresses
  BY TrapsAssumption DEF Addresses, Following

LEMMA InitInv == Init => IInv
<1> SUFFICES ASSUME Init PROVE IInv
  OBVIOUS
<1>1. 0 \in Addresses
  BY TrapsAssumption DEF Addresses
<1>2. csr \in Csr /\ Unset \in Csr /\ csr.sepc = Kernel /\ ~csr.sie
  BY DEF Init, Csr, Unset
<1>3. TypeOK
  BY <1>1, <1>2, CodesServed DEF Init, TypeOK, AllThreads, Waiting
<1> QED
  BY <1>2, <1>3, CodesServed
  DEF Init, IInv, Privilege, Masked, GoesOnWhereItWas, OneInside, CallsSaved,
      InterruptsSaved, CodesAgree, FreshAtStart, AllThreads, Handling

LEMMA ContinueInv ==
  ASSUME IInv, at[running] = "body", NEW value \in A0, NEW call \in DOMAIN Code \cup {"none"},
         value \in Codes => call \in DOMAIN Code /\ value = Code[call],
         Continue(value, call)
  PROVE  IInv'
<1>1. running \in AllThreads /\ pc \in Addresses
  BY DEF IInv, TypeOK, Privilege
<1>2. Following(pc) \in Addresses
  BY <1>1, FollowingType
<1>3. due' = [due EXCEPT ![running] = [pc |-> Following(pc), a0 |-> value, call |-> call]]
  BY DEF Continue
<1>4. TypeOK'
  <2>1. due' \in [AllThreads -> [pc : Addresses, a0 : A0, call : DOMAIN Code \cup {"none"}]]
    BY <1>1, <1>2, <1>3 DEF IInv, TypeOK
  <2>2. pc' \in Addresses \cup {Kernel} /\ (mode' = "U" => pc' # Kernel)
    BY <1>2, TrapsAssumption DEF Continue, Addresses, Kernel
  <2> QED
    BY <2>1, <2>2 DEF Continue, IInv, TypeOK
<1>5. Privilege' /\ Masked' /\ OneInside'
  BY DEF Continue, IInv, Privilege, Masked, OneInside
<1>6. GoesOnWhereItWas' /\ CodesAgree'
  BY <1>1, <1>3 DEF Continue, IInv, TypeOK, GoesOnWhereItWas, CodesAgree
<1>7. CallsSaved' /\ InterruptsSaved' /\ FreshAtStart'
  BY <1>1, <1>3 DEF Continue, IInv, TypeOK, CallsSaved, InterruptsSaved, FreshAtStart, Holds
<1> QED
  BY <1>4, <1>5, <1>6, <1>7 DEF IInv

LEMMA ComputeInv == IInv /\ Compute => IInv'
  BY ContinueInv, CodesServed DEF Compute, InBody

LEMMA WrapperInv == IInv /\ (\E c \in Calls : Wrapper(c)) => IInv'
  BY ContinueInv, CodesServed, TrapsAssumption DEF Wrapper, InBody

LEMMA EcallInv == IInv /\ Ecall => IInv'
<1> SUFFICES ASSUME IInv, Ecall PROVE IInv'
  OBVIOUS
<1> DEFINE t == running
<1>1. t \in AllThreads /\ pc \in Addresses /\ mode = "U" /\ at[t] = "body"
  BY DEF IInv, TypeOK, Privilege, Ecall, InBody
<1>2. a0 \in Codes /\ a0 = due[t].a0 /\ due[t].call \in DOMAIN Code /\ a0 = Code[due[t].call]
  BY <1>1 DEF IInv, Ecall, GoesOnWhereItWas, CodesAgree
<1>3. Answer(Served(a0)) = Answer(due[t].call) /\ Answer(due[t].call) \in A0 \ Codes
  BY <1>2, CodesServed
<1>4. Following(pc) \in Addresses
  BY <1>1, FollowingType
<1>5. /\ Saved(pc) \in Csr /\ Trap(pc) \in Csr
      /\ Saved(pc).sepc = Following(pc) /\ Saved(pc).spp = "U" /\ ~Saved(pc).sie /\ ~Trap(pc).sie
  BY <1>1, <1>4 DEF Saved, Trap, Csr, IInv, TypeOK
<1>6. /\ due' = [due EXCEPT ![t] = [pc |-> Following(pc), a0 |-> Answer(due[t].call), call |-> "none"]]
      /\ local' = [local EXCEPT ![t] = Saved(pc)] /\ frame' = [frame EXCEPT ![t] = a0]
      /\ at' = [at EXCEPT ![t] = "call"] /\ csr' = Trap(pc) /\ mode' = "S"
      /\ pc' = Kernel /\ a0' = "scratch" /\ UNCHANGED <<running, pending>>
  BY DEF Ecall, Enter
<1>7. TypeOK'
  <2>1. due' \in [AllThreads -> [pc : Addresses, a0 : A0, call : DOMAIN Code \cup {"none"}]]
    BY <1>1, <1>3, <1>4, <1>6 DEF IInv, TypeOK
  <2> QED
    BY <2>1, <1>1, <1>2, <1>5, <1>6, CodesServed DEF IInv, TypeOK, Handling
<1>8. Privilege' /\ Masked' /\ OneInside' /\ GoesOnWhereItWas'
  BY <1>1, <1>5, <1>6 DEF IInv, TypeOK, Privilege, Masked, OneInside, GoesOnWhereItWas
<1>9. CallsSaved'
  BY <1>1, <1>3, <1>5, <1>6 DEF IInv, TypeOK, CallsSaved, Holds
<1>10. InterruptsSaved' /\ CodesAgree' /\ FreshAtStart'
  BY <1>1, <1>3, <1>6 DEF IInv, TypeOK, InterruptsSaved, CodesAgree, FreshAtStart, OneInside,
                          Holds, Handling
<1> QED
  BY <1>7, <1>8, <1>9, <1>10 DEF IInv

LEMMA BodyReturnsInv == IInv /\ BodyReturns => IInv'
  BY CodesServed, FollowingType, TrapsAssumption
  DEF BodyReturns, InBody, Switch, Trap, Kernel, InterruptsOn,
      IInv, TypeOK, Privilege, Masked, GoesOnWhereItWas, OneInside,
       CallsSaved, InterruptsSaved, CodesAgree, FreshAtStart, Holds, Csr, Handling, Waiting

LEMMA CallYieldsInv == IInv /\ CallYields => IInv'
  BY CodesServed, FollowingType, TrapsAssumption
  DEF CallYields, Switch, Kernel, InterruptsOn,
      IInv, TypeOK, Privilege, Masked, GoesOnWhereItWas, OneInside,
       CallsSaved, InterruptsSaved, CodesAgree, FreshAtStart, Holds, Csr, Handling, Waiting

(* Returning with the status and the address of its own thread, and with    *)
(* the a0 that is due, keeps the invariant.                                *)
LEMMA LeaveInv ==
  ASSUME IInv, at[running] # "body",
         NEW c \in Csr, Holds(c, running), Leave(c, due[running].a0), UNCHANGED due,
         pending' \in BOOLEAN
  PROVE  IInv'
<1> DEFINE t == running
<1>1. t \in AllThreads /\ c.sepc \in Addresses /\ c.sepc = due[t].pc
  BY DEF IInv, TypeOK, Holds
<1>2. /\ csr' \in Csr /\ mode' = "U" /\ pc' = due[t].pc /\ a0' = due[t].a0
      /\ at' = [at EXCEPT ![t] = "body"] /\ frame' = [frame EXCEPT ![t] = "scratch"]
      /\ local' = [local EXCEPT ![t] = Unset] /\ UNCHANGED <<running, due>>
  BY <1>1 DEF Leave, Holds, Csr
<1>3. TypeOK'
  <2>1. pc' \in Addresses \cup {Kernel} /\ pc' # Kernel
    BY <1>1, <1>2, TrapsAssumption DEF Addresses, Kernel
  <2>2. Unset \in Csr
    BY DEF Unset, Csr
  <2> QED
    BY <1>1, <1>2, <2>1, <2>2, CodesServed DEF IInv, TypeOK
<1>4. Privilege' /\ Masked' /\ OneInside' /\ GoesOnWhereItWas'
  BY <1>1, <1>2 DEF IInv, TypeOK, Privilege, Masked, OneInside, GoesOnWhereItWas
<1>5. CallsSaved' /\ InterruptsSaved' /\ CodesAgree' /\ FreshAtStart'
  BY <1>1, <1>2 DEF IInv, TypeOK, CallsSaved, InterruptsSaved, CodesAgree, FreshAtStart, Holds
<1> QED
  BY <1>3, <1>4, <1>5 DEF IInv

LEMMA CallReturnsInv == IInv /\ CallReturns => IInv'
<1> SUFFICES ASSUME IInv, CallReturns PROVE IInv'
  OBVIOUS
<1>1. /\ at[running] \in {"call", "yielded"} /\ running \in AllThreads
      /\ local[running] \in Csr /\ pending \in BOOLEAN
  BY DEF IInv, TypeOK, CallReturns
<1>2. Holds(local[running], running) /\ Answer(Serving) = due[running].a0
  BY <1>1 DEF IInv, CallsSaved, Serving
<1>3. Leave(local[running], due[running].a0) /\ UNCHANGED <<pending, due>>
  BY <1>2 DEF CallReturns, Restored
<1> QED
  BY <1>1, <1>2, <1>3, LeaveInv

LEMMA TimerResumesInv == IInv /\ TimerResumes => IInv'
<1> SUFFICES ASSUME IInv, TimerResumes PROVE IInv'
  OBVIOUS
<1>1. at[running] = "preempted" /\ running \in AllThreads /\ local[running] \in Csr
  BY DEF IInv, TypeOK, TimerResumes
<1>2. Holds(local[running], running) /\ frame[running] = due[running].a0
  BY <1>1 DEF IInv, InterruptsSaved
<1>3. Leave(local[running], due[running].a0) /\ UNCHANGED due /\ pending' \in BOOLEAN
  BY <1>2 DEF TimerResumes, Restored
<1> QED
  BY <1>1, <1>2, <1>3, LeaveInv

(* A handler that did not yield finds the registers as the trap set them.  *)
LEMMA InterruptReturnsInv == IInv /\ (TimerReturns \/ ConsoleReturns) => IInv'
<1> SUFFICES ASSUME IInv, TimerReturns \/ ConsoleReturns PROVE IInv'
  OBVIOUS
<1>1. at[running] \in {"timer", "console"} /\ running \in AllThreads /\ csr \in Csr
  BY DEF IInv, TypeOK, TimerReturns, ConsoleReturns
<1>2. Holds(csr, running) /\ frame[running] = due[running].a0
  BY <1>1 DEF IInv, InterruptsSaved
<1>3. Leave(csr, due[running].a0) /\ UNCHANGED due /\ pending' \in BOOLEAN
  BY <1>2 DEF TimerReturns, ConsoleReturns, IInv, TypeOK
<1> QED
  BY <1>1, <1>2, <1>3, LeaveInv

LEMMA StartInv == IInv /\ Start => IInv'
<1> SUFFICES ASSUME IInv, Start PROVE IInv'
  OBVIOUS
<1>1. /\ at[running] = "fresh" /\ running \in AllThreads /\ mode = "S" /\ ~csr.sie
      /\ csr \in Csr /\ pending \in BOOLEAN
  BY DEF IInv, TypeOK, Privilege, Masked, Start
<1>2. due[running].pc = 0 /\ due[running].a0 = "own" /\ 0 \in Addresses
  BY <1>1, TrapsAssumption DEF IInv, FreshAtStart, Addresses
<1>3. StartStatus \in Csr /\ Holds(StartStatus, running)
  BY <1>1, <1>2 DEF StartStatus, Csr, Holds
<1>4. Leave(StartStatus, due[running].a0) /\ UNCHANGED <<pending, due>>
  BY <1>2 DEF Start
<1> QED
  BY <1>1, <1>3, <1>4, LeaveInv

LEMMA ExitInv == IInv /\ Exit => IInv'
  BY CodesServed, FollowingType, TrapsAssumption
  DEF Exit, Switch, Trap, Kernel, InterruptsOn,
      IInv, TypeOK, Privilege, Masked, GoesOnWhereItWas, OneInside,
       CallsSaved, InterruptsSaved, CodesAgree, FreshAtStart, Holds, Csr, Handling, Waiting

LEMMA MainYieldsInv == IInv /\ MainYields => IInv'
  BY CodesServed, FollowingType, TrapsAssumption
  DEF MainYields, Switch, Kernel, InterruptsOn,
      IInv, TypeOK, Privilege, Masked, GoesOnWhereItWas, OneInside,
       CallsSaved, InterruptsSaved, CodesAgree, FreshAtStart, Holds, Csr, Handling, Waiting

LEMMA TimerInterruptInv == IInv /\ TimerInterrupt => IInv'
  BY CodesServed, FollowingType, TrapsAssumption
  DEF TimerInterrupt, Enter, Trap, Kernel, InterruptsOn,
      IInv, TypeOK, Privilege, Masked, GoesOnWhereItWas, OneInside,
       CallsSaved, InterruptsSaved, CodesAgree, FreshAtStart, Holds, Csr, Handling, Waiting

LEMMA TimerPreemptsInv == IInv /\ TimerPreempts => IInv'
  BY CodesServed, FollowingType, TrapsAssumption
  DEF TimerPreempts, Switch, Kernel, InterruptsOn,
      IInv, TypeOK, Privilege, Masked, GoesOnWhereItWas, OneInside,
       CallsSaved, InterruptsSaved, CodesAgree, FreshAtStart, Holds, Csr, Handling, Waiting

LEMMA ConsoleInterruptInv == IInv /\ ConsoleInterrupt => IInv'
  BY CodesServed, FollowingType, TrapsAssumption
  DEF ConsoleInterrupt, Enter, Trap, Kernel, InterruptsOn,
      IInv, TypeOK, Privilege, Masked, GoesOnWhereItWas, OneInside,
       CallsSaved, InterruptsSaved, CodesAgree, FreshAtStart, Holds, Csr, Handling, Waiting

LEMMA TimerSetsInv == IInv /\ TimerSets => IInv'
  BY CodesServed, FollowingType, TrapsAssumption
  DEF TimerSets, Kernel, InterruptsOn,
      IInv, TypeOK, Privilege, Masked, GoesOnWhereItWas, OneInside,
       CallsSaved, InterruptsSaved, CodesAgree, FreshAtStart, Holds, Csr, Handling, Waiting

LEMMA StepInv == IInv /\ [Next]_vars => IInv'
<1>1. IInv /\ UNCHANGED vars => IInv'
  BY DEF vars, IInv, TypeOK, Privilege, Masked, GoesOnWhereItWas, OneInside, CallsSaved,
         InterruptsSaved, CodesAgree, FreshAtStart, Holds
<1> QED
  BY <1>1, ComputeInv, WrapperInv, EcallInv, BodyReturnsInv, CallYieldsInv, CallReturnsInv,
     ExitInv, StartInv, MainYieldsInv, TimerInterruptInv, InterruptReturnsInv,
     TimerPreemptsInv, TimerResumesInv, ConsoleInterruptInv, TimerSetsInv
  DEF Next

LEMMA Invariance == Spec => []IInv
  BY InitInv, StepInv, PTL DEF Spec

-----------------------------------------------------------------------------
(* Every variable keeps its type, and no address of the kernel is executed  *)
(* in user mode.                                                           *)
THEOREM TypeCorrect == Spec => []TypeOK
<1>1. IInv => TypeOK
  BY DEF IInv
<1> QED
  BY <1>1, Invariance, PTL

(* Bodies run in user mode and nothing else does: popSppSpie, the saved     *)
(* status of each handler and the trap of thread_exit fit together.        *)
THEOREM PrivilegeKept == Spec => []Privilege
<1>1. IInv => Privilege
  BY DEF IInv
<1> QED
  BY <1>1, Invariance, PTL

(* The kernel is never interrupted.                                         *)
THEOREM KernelAtomic == Spec => []KernelUninterrupted
<1>1. IInv => KernelUninterrupted
  BY DEF IInv, Masked, KernelUninterrupted, InterruptsOn
<1> QED
  BY <1>1, Invariance, PTL

(* A body goes on where it was, with what it left in a0 or was answered,    *)
(* although sepc, sstatus and a0 are shared by all threads.                *)
THEOREM GoesOn == Spec => []GoesOnWhereItWas
<1>1. IInv => GoesOnWhereItWas
  BY DEF IInv
<1> QED
  BY <1>1, Invariance, PTL
=============================================================================
