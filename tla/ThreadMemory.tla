---------------------------- MODULE ThreadMemory ----------------------------
(***************************************************************************)
(* User programs over the C++ wrappers of src/syscall_cpp.cpp: operator    *)
(* new and delete, and Thread objects, which have two words, the pointer   *)
(* to the virtual functions and myHandle.  Each system call is one step,   *)
(* and other threads may come between two of them.                         *)
(***************************************************************************)
EXTENDS MemoryWords

CONSTANT Sizes   \* the sizes of other objects

VARIABLES
  mem,
  held   \* the objects programs have: where, how long, and which (ghost)

vars == <<mem, held>>

ThreadSize == 2
myHandle(thread) == thread.at + 1

Object(kind, at, size) == [kind |-> kind, at |-> at, size |-> size]

Init == mem = InitialMemory /\ held = {}

(* operator new; what the constructor and the client write is Junk.        *)
New(kind, size) ==
  LET result == mem_alloc(mem, sizeInBlocks(size)) IN
  /\ result.pointer # Null
  /\ mem'  = Written(result.mem, result.pointer, size)
  /\ held' = held \cup {Object(kind, result.pointer, size)}

NewFails(size) ==
  /\ mem_alloc(mem, sizeInBlocks(size)).pointer = Null
  /\ UNCHANGED vars

(* operator delete of an object without a destructor, or whose destructor  *)
(* has run.                                                                *)
Delete(object) ==
  /\ object.kind # "thread"
  /\ mem'  = mem_free(mem, object.at)
  /\ held' = held \ {object}

(* ~Thread: delete &myHandle.                                              *)
DestroyThread(thread) ==
  /\ thread.kind = "thread"
  /\ mem'  = mem_free(mem, myHandle(thread))
  /\ held' = (held \ {thread}) \cup {[thread EXCEPT !.kind = "destroyed"]}

Next ==
  \/ \E size \in Sizes : New("data", size) \/ NewFails(size)
  \/ New("thread", ThreadSize) \/ NewFails(ThreadSize)
  \/ \E object \in held : Delete(object) \/ DestroyThread(object)

Spec == Init /\ [][Next]_vars

-----------------------------------------------------------------------------
(* Two objects that programs hold, created with new and not yet deleted,   *)
(* share no memory: what one program writes into its object, no other      *)
(* finds in its own.                                                       *)
ObjectsDisjoint ==
  \A o, p \in held : o # p => o.at + o.size <= p.at \/ p.at + p.size <= o.at
=============================================================================
