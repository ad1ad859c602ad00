------------------------- MODULE NativePublication -------------------------
(***************************************************************************)
(* The life of executable memory: RuntimeFunction::compileBaselineNative,  *)
(* NativeCodeHandle and CodeBuffer.  A compilation lowers, optimizes and   *)
(* emits, then allocates writable pages, writes, protects and flushes      *)
(* them, hands them from owner to owner, and publishes; any stage may fail *)
(* (the system refuses, memory runs out, or a test failpoint says so).     *)
(*                                                                         *)
(* Every virtual machine runs on a thread of its own.  They share the      *)
(* address space of the process, so a block released by one may be         *)
(* allocated by another at once, and the counter of live allocations,      *)
(* which changes after the call to the system, never with it.              *)
(***************************************************************************)
EXTENDS Integers, FiniteSets

CONSTANTS
  Vms,      \* virtual machines, each on its thread
  Fns,      \* the user functions of each
  Blocks,   \* addresses VirtualAlloc may return
  Null      \* nullptr

VARIABLES
  nativeCode,      \* nativeCode_ of every function: the block, or Null
  nativeSource,    \* the functions that retain nativeSource_
  stage,           \* nativeCompilationStageForTesting_
  work,            \* what each thread is doing, with the owners in its frames
  memory,          \* the pages of the process
  liveExecutableAllocationCount

vars == <<nativeCode, nativeSource, stage, work, memory, liveExecutableAllocationCount>>

Functions == Vms \X Fns

\* stuck: the system once refused to free the page, and nothing owns it now.
Page == [access : {"rw", "rx"}, content : Functions \cup {Null},
         flushed : BOOLEAN, stuck : BOOLEAN]
Unmapped == Null

ASSUME NullAssumption == Null \notin Blocks \cup Page

\* A process has finitely many threads, and its address space finitely many places.
ASSUME FiniteAssumption == IsFiniteSet(Vms) /\ IsFiniteSet(Blocks)

Allocated == {b \in Blocks : memory[b] # Unmapped}

Stages == {"none", "lowered", "compilerFailure", "emitted", "executableAllocated",
           "executableWritten", "executableProtected", "published"}

\* The control points of a thread, and the objects that may own a block: the
\* raw pointer of CodeBuffer::create, the CodeBuffer, and the handle.
Points == {"idle", "lower", "optimize", "emit", "allocate", "count", "write", "protect",
           "flush", "return", "share", "leave", "release", "uncount", "destroy", "gone"}

Idle == [at |-> "idle", then |-> "idle", fn |-> Null, observed |-> "none",
         memory |-> Null, buffer |-> Null, handle |-> Null]

Init ==
  /\ nativeCode = [f \in Functions |-> Null]
  /\ nativeSource = Functions
  /\ stage = [f \in Functions |-> "none"]
  /\ work = [v \in Vms |-> Idle]
  /\ memory = [b \in Blocks |-> Unmapped]
  /\ liveExecutableAllocationCount = 0

At(v, point) == work[v].at = point
Function(v) == <<v, work[v].fn>>
Goto(v, point) == work' = [work EXCEPT ![v].at = point]

functions == <<nativeCode, nativeSource, stage>>
pages == <<memory, liveExecutableAllocationCount>>

-----------------------------------------------------------------------------
(* compileBaselineNative up to the machine code.                           *)

\* A function with code, or without a retained source, is left as it is.
Compile(v, f) ==
  /\ At(v, "idle")
  /\ nativeCode[<<v, f>>] = Null
  /\ <<v, f>> \in nativeSource
  /\ work' = [work EXCEPT ![v] = [Idle EXCEPT !.at = "lower", !.fn = f]]
  /\ UNCHANGED <<functions, pages>>

\* Any failure, an exception included, ends the compilation here.
Abandon(v) ==
  /\ \E point \in {"lower", "optimize", "emit"} : At(v, point)
  /\ Goto(v, "leave")
  /\ UNCHANGED <<functions, pages>>

Lower(v) ==
  /\ At(v, "lower")
  /\ stage' = [stage EXCEPT ![Function(v)] = "lowered"]
  /\ Goto(v, "optimize") \/ Goto(v, "emit")     \* or optimization is disabled
  /\ UNCHANGED <<nativeCode, nativeSource, pages>>

Optimize(v) ==
  /\ At(v, "optimize")
  /\ Goto(v, "emit")
  /\ UNCHANGED <<functions, pages>>

Emit(v) ==
  /\ At(v, "emit")
  /\ stage' = [stage EXCEPT ![Function(v)] = "emitted"]
  /\ Goto(v, "allocate") \/ Goto(v, "leave")    \* a failpoint stops after it
  /\ UNCHANGED <<nativeCode, nativeSource, pages>>

\* The failure a test forces on the compiler is the only one it records.
CompilerFails(v) ==
  /\ At(v, "emit")
  /\ stage' = [stage EXCEPT ![Function(v)] = "compilerFailure"]
  /\ Goto(v, "leave")
  /\ UNCHANGED <<nativeCode, nativeSource, pages>>

-----------------------------------------------------------------------------
(* CodeBuffer::create.                                                     *)

Allocate(v) ==
  /\ At(v, "allocate")
  /\ \E b \in Blocks \ Allocated :
       /\ memory' = [memory EXCEPT ![b] = [access |-> "rw", content |-> Null,
                                            flushed |-> FALSE, stuck |-> FALSE]]
       /\ work' = [work EXCEPT ![v].at = "count", ![v].memory = b]
  /\ UNCHANGED <<functions, liveExecutableAllocationCount>>

\* The caller of create learns how far it came, and keeps it when it failed.
CreationFailed(v, observed) ==
  stage' = [stage EXCEPT ![Function(v)] = IF observed = "none" THEN @ ELSE observed]

AllocateFails(v) ==
  /\ At(v, "allocate")
  /\ CreationFailed(v, "none")
  /\ Goto(v, "leave")
  /\ UNCHANGED <<nativeCode, nativeSource, pages>>

\* Seeded fault: the allocation is not counted.
CountForgotten(v) ==
  /\ At(v, "count")
  /\ work' = [work EXCEPT ![v].at = "write", ![v].observed = "executableAllocated"]
  /\ UNCHANGED <<functions, pages>>

Count(v) ==
  /\ At(v, "count")
  /\ liveExecutableAllocationCount' = liveExecutableAllocationCount + 1
  /\ work' = [work EXCEPT ![v].at = "write", ![v].observed = "executableAllocated"]
  /\ UNCHANGED <<functions, memory>>

Write(v) ==
  /\ At(v, "write")
  /\ memory' = [memory EXCEPT ![work[v].memory].content = Function(v)]
  /\ work' = [work EXCEPT ![v].at = "protect", ![v].observed = "executableWritten"]
  /\ UNCHANGED <<functions, liveExecutableAllocationCount>>

Protect(v) ==
  /\ At(v, "protect")
  /\ memory' = [memory EXCEPT ![work[v].memory].access = "rx"]
  /\ work' = [work EXCEPT ![v].at = "flush", ![v].observed = "executableProtected"]
  /\ UNCHANGED <<functions, liveExecutableAllocationCount>>

Flush(v) ==
  /\ At(v, "flush")
  /\ memory' = [memory EXCEPT ![work[v].memory].flushed = TRUE]
  /\ work' = [work EXCEPT ![v].at = "return", ![v].buffer = work[v].memory, ![v].memory = Null]
  /\ UNCHANGED <<functions, liveExecutableAllocationCount>>

\* Seeded fault: a failure after the protection changed forgets the pages.
ReleasedOnFailureBeforeFlush(v) ==
  IF At(v, "flush") THEN [work[v] EXCEPT !.at = "leave"]
  ELSE [work[v] EXCEPT !.at = "release", !.then = "leave"]

\* Whatever fails between the allocation and the flush releases the pages.
ReleasedOnFailure(v) == [work[v] EXCEPT !.at = "release", !.then = "leave"]

CreateFails(v) ==
  /\ \E point \in {"write", "protect", "flush"} : At(v, point)
  /\ CreationFailed(v, work[v].observed)
  /\ work' = [work EXCEPT ![v] = ReleasedOnFailure(v)]
  /\ UNCHANGED <<nativeCode, nativeSource, pages>>

-----------------------------------------------------------------------------
(* The pages change hands: CodeBuffer, NativeCodeHandle, shared_ptr.       *)

\* Seeded fault: a moved-from owner keeps its pointer.
MovedFromKept(b) == b

\* std::exchange in the move constructor.
MovedFrom(b) == Null

ReturnHandle(v) ==
  /\ At(v, "return")
  /\ work' = [work EXCEPT ![v].at = "share",
                          ![v].handle = work[v].buffer,
                          ![v].buffer = MovedFrom(work[v].buffer)]
  /\ UNCHANGED <<functions, pages>>

\* Seeded fault: the retained source is given up before the code is shared.
ShareThrowsSourceless(v) ==
  /\ At(v, "share")
  /\ nativeSource' = nativeSource \ {Function(v)}
  /\ Goto(v, "leave")
  /\ UNCHANGED <<nativeCode, stage, pages>>

\* make_shared allocates before it moves the handle: nothing is lost.
ShareThrows(v) ==
  /\ At(v, "share")
  /\ Goto(v, "leave")
  /\ UNCHANGED <<functions, pages>>

\* The last stage cannot fail: requirements, code, source and tier together.
Publish(v) ==
  /\ At(v, "share")
  /\ nativeCode' = [nativeCode EXCEPT ![Function(v)] = work[v].handle]
  /\ nativeSource' = nativeSource \ {Function(v)}
  /\ stage' = [stage EXCEPT ![Function(v)] = "published"]
  /\ work' = [work EXCEPT ![v].at = "leave", ![v].handle = MovedFrom(work[v].handle)]
  /\ UNCHANGED pages

\* The end of compileBaselineNative destroys the owners that are left.
Leave(v) ==
  LET w == work[v]
      ReleaseOf(block, rest) ==
        [rest EXCEPT !.at = "release", !.then = "leave", !.memory = block]
  IN /\ At(v, "leave")
     /\ work' = [work EXCEPT ![v] =
          IF w.buffer # Null THEN ReleaseOf(w.buffer, [w EXCEPT !.buffer = Null])
          ELSE IF w.handle # Null THEN ReleaseOf(w.handle, [w EXCEPT !.handle = Null])
          ELSE Idle]
     /\ UNCHANGED <<functions, pages>>

-----------------------------------------------------------------------------
(* releaseExecutableAllocation, and the destruction of a machine.          *)

Release(v) ==
  /\ At(v, "release")
  /\ memory' = [memory EXCEPT ![work[v].memory] = Unmapped]
  /\ work' = [work EXCEPT ![v].at = "uncount", ![v].memory = Null]
  /\ UNCHANGED <<functions, liveExecutableAllocationCount>>

\* Seeded fault: the allocation is uncounted though the system kept it.
CountedAfterRefusalDropped(n) == n - 1

CountedAfterRefusal(n) == n

\* VirtualFree refuses: the pages stay allocated, and counted, for good.
ReleaseFails(v) ==
  /\ At(v, "release")
  /\ work' = [work EXCEPT ![v].at = work[v].then, ![v].memory = Null]
  /\ liveExecutableAllocationCount' = CountedAfterRefusal(liveExecutableAllocationCount)
  /\ memory' = [memory EXCEPT ![work[v].memory].stuck = TRUE]
  /\ UNCHANGED functions

Uncount(v) ==
  /\ At(v, "uncount")
  /\ liveExecutableAllocationCount' = liveExecutableAllocationCount - 1
  /\ Goto(v, work[v].then)
  /\ UNCHANGED <<functions, memory>>

Destroy(v) ==
  /\ At(v, "idle")
  /\ Goto(v, "destroy")
  /\ UNCHANGED <<functions, pages>>

\* Functions go one by one, each with its retained source and its code.
DestroyFunction(v) ==
  /\ At(v, "destroy")
  /\ \E f \in Fns :
       /\ nativeCode[<<v, f>>] # Null
       /\ nativeCode' = [nativeCode EXCEPT ![<<v, f>>] = Null]
       /\ work' = [work EXCEPT ![v].at = "release", ![v].then = "destroy",
                               ![v].memory = nativeCode[<<v, f>>]]
  /\ UNCHANGED <<nativeSource, stage, pages>>

Destroyed(v) ==
  /\ At(v, "destroy")
  /\ \A f \in Fns : nativeCode[<<v, f>>] = Null
  /\ nativeSource' = nativeSource \ ({v} \X Fns)
  /\ Goto(v, "gone")
  /\ UNCHANGED <<nativeCode, stage, pages>>

-----------------------------------------------------------------------------
Step(v) ==
  \/ \E f \in Fns : Compile(v, f)
  \/ Abandon(v) \/ Lower(v) \/ Optimize(v) \/ Emit(v) \/ CompilerFails(v)
  \/ Allocate(v) \/ AllocateFails(v) \/ Count(v) \/ Write(v) \/ Protect(v) \/ Flush(v)
  \/ CreateFails(v)
  \/ ReturnHandle(v) \/ ShareThrows(v) \/ Publish(v) \/ Leave(v)
  \/ Release(v) \/ ReleaseFails(v) \/ Uncount(v)
  \/ Destroy(v) \/ DestroyFunction(v) \/ Destroyed(v)

Next == \E v \in Vms : Step(v)

Spec == Init /\ [][Next]_vars

-----------------------------------------------------------------------------
(* Properties.                                                             *)

\* The values the state takes.
TypeOK ==
  /\ nativeCode \in [Functions -> Blocks \cup {Null}]
  /\ nativeSource \subseteq Functions
  /\ stage \in [Functions -> Stages]
  /\ work \in [Vms -> [at : Points, then : {"idle", "leave", "destroy"},
                       fn : Fns \cup {Null}, observed : Stages,
                       memory : Blocks \cup {Null}, buffer : Blocks \cup {Null},
                       handle : Blocks \cup {Null}]]
  /\ memory \in [Blocks -> Page \cup {Unmapped}]
  /\ liveExecutableAllocationCount \in 0 .. Cardinality(Blocks) + Cardinality(Vms)

\* A page that holds the code of f, ready to be entered.
Runnable(f) == [access |-> "rx", content |-> f, flushed |-> TRUE, stuck |-> FALSE]

\* Published code can be run: its pages are mapped, executable and not
\* writable, flushed, and hold the code of that function and no other, while
\* other threads allocate and release (the claim of the comment on CodeBuffer).
PublishedIsRunnable ==
  \A f \in Functions :
    nativeCode[f] # Null => memory[nativeCode[f]] = Runnable(f)

\* The objects that would release block b.
Owners(b) ==
  {<<"nativeCode", f>> : f \in {g \in Functions : nativeCode[g] = b}}
    \cup {<<"memory", v>> : v \in {w \in Vms : work[w].memory = b}}
    \cup {<<"buffer", v>> : v \in {w \in Vms : work[w].buffer = b}}
    \cup {<<"handle", v>> : v \in {w \in Vms : work[w].handle = b}}

Live(b) == memory[b] # Unmapped /\ ~memory[b].stuck

\* No leak, no double release, no dangling owner: on every failure path, a
\* block that is mapped has exactly one owner, and an unmapped one has none
\* (nor has one that the system once refused to free).
OwnedOnce ==
  \A b \in Blocks :
    /\ Live(b) <=> Owners(b) # {}
    /\ \A o1, o2 \in Owners(b) : o1 = o2

\* The counter differs from the mapped blocks by the threads that are between
\* the call to the system and the change of the counter, and by nothing else.
LiveCountExact ==
  liveExecutableAllocationCount =
    Cardinality(Allocated) - Cardinality({v \in Vms : At(v, "count")})
                           + Cardinality({v \in Vms : At(v, "uncount")})

\* A failed compilation changes nothing a later call depends on: the function
\* is either wholly published, or in the VM with its source to compile again.
AllOrNothing ==
  \A v \in Vms, f \in Fns :
    work[v].at \notin {"destroy", "gone"} /\ work[v].then # "destroy" =>
      /\ nativeCode[<<v, f>>] # Null <=> <<v, f>> \notin nativeSource
      /\ nativeCode[<<v, f>>] # Null <=> stage[<<v, f>>] = "published"

\* The comment on NativeCompilationStage: the observation is the furthest
\* completed stage of the compilation.  Compared with how far CodeBuffer came.
StageIsFurthestCompleted ==
  \A v \in Vms :
    At(v, "leave") /\ work[v].observed # "none" =>
      stage[Function(v)] \in {work[v].observed, "published"}
=============================================================================
