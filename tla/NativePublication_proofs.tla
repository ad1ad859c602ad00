---------------------- MODULE NativePublication_proofs ----------------------
(***************************************************************************)
(* For any number of threads, functions and blocks: executable memory has  *)
(* one owner, and published code can be run.                               *)
(*                                                                         *)
(* The three fields of a thread that may own a block never do so together  *)
(* (Phase), so that each thread holds at most one block (Held), and moving *)
(* it from owner to owner changes nothing.  What is left is that no block  *)
(* is held or published twice (Exclusive).                                 *)
(***************************************************************************)
EXTENDS NativePublication, TLAPS, FiniteSetTheorems

Thread == [at : Points, then : {"idle", "leave", "destroy"},
           fn : Fns \cup {Null}, observed : Stages,
           memory : Blocks \cup {Null}, buffer : Blocks \cup {Null},
           handle : Blocks \cup {Null}]

Types ==
  /\ nativeCode \in [Functions -> Blocks \cup {Null}]
  /\ nativeSource \subseteq Functions
  /\ stage \in [Functions -> Stages]
  /\ work \in [Vms -> Thread]
  /\ memory \in [Blocks -> Page \cup {Unmapped}]

Creating == {"count", "write", "protect", "flush"}
Compiling == {"lower", "optimize", "emit", "allocate"} \cup Creating \cup {"return", "share"}

\* What a thread owns, and how far its pages are, at each point.
Phase(v) ==
  /\ work[v].memory # Null <=> work[v].at \in Creating \cup {"release"}
  /\ work[v].buffer # Null <=> work[v].at = "return"
  /\ work[v].handle # Null => work[v].at \in {"share", "leave"}
  /\ work[v].at = "share" => work[v].handle # Null
  /\ work[v].at \in {"release", "uncount"} => work[v].then \in {"leave", "destroy"}
  /\ work[v].at \in Compiling => work[v].fn \in Fns /\ nativeCode[<<v, work[v].fn>>] = Null
  /\ work[v].at \in {"protect", "flush"} => memory[work[v].memory].content = Function(v)
  /\ work[v].at = "flush" => memory[work[v].memory].access = "rx"
  /\ work[v].at = "return" => memory[work[v].buffer] = Runnable(Function(v))
  /\ work[v].at = "share" => memory[work[v].handle] = Runnable(Function(v))

\* The block a thread owns, if any.
Held(v) ==
  IF work[v].memory # Null THEN work[v].memory
  ELSE IF work[v].buffer # Null THEN work[v].buffer
  ELSE work[v].handle

Exclusive ==
  /\ \A f, g \in Functions : nativeCode[f] = nativeCode[g] /\ nativeCode[f] # Null => f = g
  /\ \A f \in Functions, v \in Vms : nativeCode[f] = Held(v) => nativeCode[f] = Null
  /\ \A v, w \in Vms : Held(v) = Held(w) /\ Held(v) # Null => v = w
  /\ \A b \in Blocks :
       Live(b) <=> (\E f \in Functions : nativeCode[f] = b) \/ (\E v \in Vms : Held(v) = b)

IInv ==
  /\ Types
  /\ \A v \in Vms : Phase(v)
  /\ Exclusive
  /\ PublishedIsRunnable

-----------------------------------------------------------------------------
(* The steps by what they do to ownership.  Each changes the pages of one   *)
(* block only, the one that thread v owns or takes.                         *)

OthersKeep(v) == \A w \in Vms \ {v} : work'[w] = work[w]

OnlyPage(b) == \A c \in Blocks \ {b} : memory'[c] = memory[c]

Keeps(v) ==
  /\ Held(v)' = Held(v)
  /\ nativeCode' = nativeCode
  /\ OnlyPage(Held(v))
  /\ \A b \in Blocks : b = Held(v) => Live(b)'

Takes(v, b) ==
  /\ Held(v) = Null /\ Held(v)' = b
  /\ nativeCode' = nativeCode
  /\ memory[b] = Unmapped /\ Live(b)'
  /\ OnlyPage(b)

GivesToFunction(v) ==
  /\ Held(v) # Null /\ Held(v)' = Null
  /\ nativeCode[Function(v)] = Null
  /\ work[v].fn \in Fns
  /\ nativeCode' = [nativeCode EXCEPT ![Function(v)] = Held(v)]
  /\ memory' = memory
  /\ memory[Held(v)] = Runnable(Function(v))

TakesFromFunction(v, f) ==
  /\ Held(v) = Null /\ Held(v)' = nativeCode[<<v, f>>]
  /\ nativeCode[<<v, f>>] # Null
  /\ nativeCode' = [nativeCode EXCEPT ![<<v, f>>] = Null]
  /\ memory' = memory

Frees(v) ==
  /\ Held(v) # Null /\ Held(v)' = Null
  /\ nativeCode' = nativeCode
  /\ \A b \in Blocks : b = Held(v) => ~Live(b)'
  /\ OnlyPage(Held(v))

LEMMA HeldType ==
  ASSUME Types, NEW v \in Vms
  PROVE  /\ work[v] \in Thread
         /\ Held(v) \in Blocks \cup {Null}
         /\ \A f \in Fns : <<v, f>> \in Functions /\ nativeCode[<<v, f>>] \in Blocks \cup {Null}
PROOF BY DEF Types, Held, Functions, Thread

LEMMA HeldTypeNext ==
  ASSUME Types', NEW v \in Vms
  PROVE  Held(v)' \in Blocks \cup {Null}
PROOF BY DEF Types, Held, Thread

\* Each effect leaves every block with at most one owner, and the others alone.
LEMMA KeepsInv ==
  ASSUME IInv, Types', NEW v \in Vms, OthersKeep(v), Keeps(v)
  PROVE  Exclusive' /\ PublishedIsRunnable'
PROOF
  <1>1. \A w \in Vms : Held(w)' = Held(w)
    BY DEF OthersKeep, Keeps, Held
  <1>2. \A b \in Blocks : Live(b)' <=> Live(b)
    BY DEF Keeps, OnlyPage, IInv, Exclusive, Live
  <1>3. Exclusive'
    BY <1>1, <1>2 DEF Keeps, IInv, Exclusive, Functions
  <1>4. \A f \in Functions : nativeCode[f] # Null =>
           nativeCode[f] \in Blocks /\ memory'[nativeCode[f]] = memory[nativeCode[f]]
    BY DEF Keeps, OnlyPage, IInv, Exclusive, Types
  <1>5. PublishedIsRunnable'
    BY <1>4 DEF Keeps, IInv, PublishedIsRunnable, Functions, Runnable
  <1> QED
    BY <1>3, <1>5

LEMMA TakesInv ==
  ASSUME IInv, Types', NEW v \in Vms, NEW b \in Blocks, OthersKeep(v), Takes(v, b)
  PROVE  Exclusive' /\ PublishedIsRunnable'
PROOF
  <1>1. \A w \in Vms \ {v} : Held(w)' = Held(w)
    BY DEF OthersKeep, Held
  <1>2. /\ \A f \in Functions : nativeCode[f] # b
        /\ \A w \in Vms : Held(w) # b
    BY DEF Takes, IInv, Exclusive, Live
  <1>3. \A c \in Blocks \ {b} : Live(c)' <=> Live(c)
    BY DEF Takes, OnlyPage, Live
  <1>4. Exclusive'
    BY <1>1, <1>2, <1>3, NullAssumption DEF Takes, IInv, Exclusive, Functions
  <1>5. \A f \in Functions : nativeCode[f] # Null =>
           nativeCode[f] \in Blocks /\ memory'[nativeCode[f]] = memory[nativeCode[f]]
    BY <1>2 DEF Takes, OnlyPage, IInv, Types
  <1>6. PublishedIsRunnable'
    BY <1>5 DEF Takes, IInv, PublishedIsRunnable, Functions, Runnable
  <1> QED
    BY <1>4, <1>6

LEMMA GivesInv ==
  ASSUME IInv, Types', NEW v \in Vms, OthersKeep(v), GivesToFunction(v)
  PROVE  Exclusive' /\ PublishedIsRunnable'
PROOF
  <1> DEFINE g == Function(v)
  <1>1. \A w \in Vms \ {v} : Held(w)' = Held(w)
    BY DEF OthersKeep, Held
  <1>2. g \in Functions
    BY DEF GivesToFunction, Function, Functions
  <1>3. /\ nativeCode'[g] = Held(v)
        /\ \A f \in Functions \ {g} : nativeCode'[f] = nativeCode[f]
    BY <1>2 DEF GivesToFunction, IInv, Types
  <1>4. \A c \in Blocks : Live(c)' <=> Live(c)
    BY DEF GivesToFunction, Live
  <1> HIDE DEF g
  <1>5. Functions' = Functions /\ nativeCode[g] = Null /\ Held(v) # Null /\ Held(v)' = Null
    BY DEF GivesToFunction, Functions, g
  <1>6. Exclusive'
    <2>1. \A f, h \in Functions : nativeCode'[f] = nativeCode'[h] /\ nativeCode'[f] # Null => f = h
      BY <1>3, <1>5 DEF IInv, Exclusive
    <2>2. \A f \in Functions, w \in Vms : nativeCode'[f] = Held(w)' => nativeCode'[f] = Null
      BY <1>1, <1>3, <1>5 DEF IInv, Exclusive
    <2>3. \A u, w \in Vms : Held(u)' = Held(w)' /\ Held(u)' # Null => u = w
      BY <1>1, <1>5 DEF IInv, Exclusive
    <2>4. ASSUME NEW b \in Blocks
          PROVE  Live(b)' <=> (\E f \in Functions : nativeCode'[f] = b) \/ (\E w \in Vms : Held(w)' = b)
      BY <1>1, <1>2, <1>3, <1>4, <1>5, NullAssumption DEF IInv, Exclusive
    <2> QED
      BY <1>5, <2>1, <2>2, <2>3, <2>4 DEF Exclusive
  <1>7. PublishedIsRunnable'
    BY <1>2, <1>3, <1>5 DEF GivesToFunction, IInv, PublishedIsRunnable, Runnable, g
  <1> QED
    BY <1>6, <1>7

LEMMA TakesFromInv ==
  ASSUME IInv, Types', NEW v \in Vms, NEW f \in Fns, OthersKeep(v), TakesFromFunction(v, f)
  PROVE  Exclusive' /\ PublishedIsRunnable'
PROOF
  <1> DEFINE g == <<v, f>>
  <1>1. \A w \in Vms \ {v} : Held(w)' = Held(w)
    BY DEF OthersKeep, Held
  <1>2. g \in Functions
    BY DEF Functions
  <1>3. /\ nativeCode'[g] = Null
        /\ \A h \in Functions \ {g} : nativeCode'[h] = nativeCode[h]
    BY <1>2 DEF TakesFromFunction, IInv, Types
  <1>4. \A c \in Blocks : Live(c)' <=> Live(c)
    BY DEF TakesFromFunction, Live
  <1>5. /\ Functions' = Functions /\ nativeCode[g] # Null
        /\ Held(v)' = nativeCode[g] /\ Held(v) = Null /\ memory' = memory
    BY DEF TakesFromFunction, Functions
  <1> HIDE DEF g
  <1>6. Exclusive'
    <2>1. \A k, h \in Functions : nativeCode'[k] = nativeCode'[h] /\ nativeCode'[k] # Null => k = h
      BY <1>3, <1>5 DEF IInv, Exclusive
    <2>2. \A k \in Functions, w \in Vms : nativeCode'[k] = Held(w)' => nativeCode'[k] = Null
      BY <1>1, <1>2, <1>3, <1>5 DEF IInv, Exclusive
    <2>3. \A u, w \in Vms : Held(u)' = Held(w)' /\ Held(u)' # Null => u = w
      BY <1>1, <1>2, <1>5 DEF IInv, Exclusive
    <2>4. ASSUME NEW b \in Blocks
          PROVE  Live(b)' <=> (\E h \in Functions : nativeCode'[h] = b) \/ (\E w \in Vms : Held(w)' = b)
      BY <1>1, <1>2, <1>3, <1>4, <1>5, NullAssumption DEF IInv, Exclusive
    <2> QED
      BY <1>5, <2>1, <2>2, <2>3, <2>4 DEF Exclusive
  <1>7. PublishedIsRunnable'
    BY <1>3, <1>5 DEF IInv, PublishedIsRunnable, Runnable
  <1> QED
    BY <1>6, <1>7

LEMMA FreesInv ==
  ASSUME IInv, Types', NEW v \in Vms, OthersKeep(v), Frees(v)
  PROVE  Exclusive' /\ PublishedIsRunnable'
PROOF
  <1>1. \A w \in Vms \ {v} : Held(w)' = Held(w)
    BY DEF OthersKeep, Held
  <1>2. Held(v) \in Blocks
    BY HeldType DEF Frees, IInv
  <1>3. /\ \A f \in Functions : nativeCode[f] # Held(v)
        /\ \A w \in Vms \ {v} : Held(w) # Held(v)
    BY <1>2, NullAssumption DEF Frees, IInv, Exclusive
  <1>4. \A c \in Blocks \ {Held(v)} : Live(c)' <=> Live(c)
    BY DEF Frees, OnlyPage, Live
  <1>5. Exclusive'
    BY <1>1, <1>2, <1>3, <1>4, NullAssumption DEF Frees, IInv, Exclusive, Functions
  <1>6. \A f \in Functions : nativeCode[f] # Null =>
           nativeCode[f] \in Blocks /\ memory'[nativeCode[f]] = memory[nativeCode[f]]
    BY <1>3 DEF Frees, OnlyPage, IInv, Types
  <1>7. PublishedIsRunnable'
    BY <1>6 DEF Frees, IInv, PublishedIsRunnable, Functions, Runnable
  <1> QED
    BY <1>5, <1>7

\* A step of another thread disturbs neither the thread w nor its pages.
LEMMA OtherPhases ==
  ASSUME IInv, Types', NEW v \in Vms, OthersKeep(v),
         \/ Keeps(v) \/ GivesToFunction(v) \/ Frees(v)
         \/ \E b \in Blocks : Takes(v, b)
         \/ \E f \in Fns : TakesFromFunction(v, f),
         NEW w \in Vms \ {v}
  PROVE  Phase(w)'
PROOF
  <1>1. work'[w] = work[w] /\ Held(w) \in Blocks \cup {Null}
    BY HeldType DEF OthersKeep, IInv
  <1>2. \A f \in Fns : nativeCode'[<<w, f>>] = nativeCode[<<w, f>>]
    BY DEF Keeps, GivesToFunction, Frees, Takes, TakesFromFunction, Functions, Function, IInv, Types
  <1>3. Held(w) # Null => memory'[Held(w)] = memory[Held(w)]
    <2>1. CASE Keeps(v) \/ Frees(v)
      BY <1>1, <2>1 DEF Keeps, Frees, OnlyPage, IInv, Exclusive
    <2>2. CASE GivesToFunction(v) \/ \E f \in Fns : TakesFromFunction(v, f)
      BY <2>2 DEF GivesToFunction, TakesFromFunction
    <2>3. CASE \E b \in Blocks : Takes(v, b)
      <3>1. PICK b \in Blocks : Takes(v, b)
        BY <2>3
      <3>2. Held(w) # b
        BY <3>1 DEF Takes, IInv, Exclusive, Live
      <3> QED
        BY <1>1, <3>1, <3>2 DEF Takes, OnlyPage
    <2> QED
      BY <2>1, <2>2, <2>3
  <1>4. Phase(w)
    BY DEF IInv
  <1>5. /\ work[w].memory # Null => Held(w) = work[w].memory
        /\ work[w].at = "return" => Held(w) = work[w].buffer /\ Held(w) # Null
        /\ work[w].at = "share" => Held(w) = work[w].handle /\ Held(w) # Null
    BY <1>4 DEF Phase, Held, Creating
  <1> QED
    BY <1>1, <1>2, <1>3, <1>4, <1>5 DEF Phase, Creating, Compiling, Function, Runnable

-----------------------------------------------------------------------------
(* Every action has one of these effects, and leaves its thread in phase.   *)

Fields(v, w) ==
  /\ work' \in [Vms -> Thread]
  /\ OthersKeep(v)
  /\ work'[v].at = w.at /\ work'[v].then = w.then /\ work'[v].fn = w.fn
  /\ work'[v].memory = w.memory /\ work'[v].buffer = w.buffer /\ work'[v].handle = w.handle

LEMMA Updated ==
  ASSUME Types, NEW v \in Vms, NEW w \in Thread, work' = [work EXCEPT ![v] = w]
  PROVE  Fields(v, w)
PROOF BY DEF Types, Fields, OthersKeep

LEMMA Moved ==
  ASSUME Types, NEW v \in Vms, NEW p \in Points, Goto(v, p)
  PROVE  Fields(v, [work[v] EXCEPT !.at = p])
PROOF
  <1> DEFINE w == [work[v] EXCEPT !.at = p]
  <1>1. w \in Thread
    BY DEF Types, Thread
  <1>2. work' = [work EXCEPT ![v] = w]
    BY DEF Goto
  <1> HIDE DEF w
  <1>3. Fields(v, w)
    BY <1>1, <1>2, Updated
  <1> QED
    BY <1>3 DEF w

Effect(v) ==
  \/ Keeps(v) \/ GivesToFunction(v) \/ Frees(v)
  \/ \E b \in Blocks : Takes(v, b)
  \/ \E f \in Fns : TakesFromFunction(v, f)

Good(v) == Types' /\ OthersKeep(v) /\ Effect(v) /\ Phase(v)'

LEMMA GoodSteps ==
  ASSUME IInv, NEW v \in Vms, Good(v)
  PROVE  IInv'
PROOF
  <1>1. Types' /\ OthersKeep(v) /\ Effect(v) /\ Phase(v)'
    BY DEF Good
  <1>2. Exclusive' /\ PublishedIsRunnable'
    <2>1. CASE Keeps(v)
      BY <1>1, <2>1, KeepsInv
    <2>2. CASE GivesToFunction(v)
      BY <1>1, <2>2, GivesInv
    <2>3. CASE Frees(v)
      BY <1>1, <2>3, FreesInv
    <2>4. CASE \E b \in Blocks : Takes(v, b)
      BY <1>1, <2>4, TakesInv
    <2>5. CASE \E f \in Fns : TakesFromFunction(v, f)
      BY <1>1, <2>5, TakesFromInv
    <2> QED
      BY <1>1, <2>1, <2>2, <2>3, <2>4, <2>5 DEF Effect
  <1>3. \A w \in Vms \ {v} : Phase(w)'
    BY <1>1, OtherPhases DEF Effect
  <1>4. \A w \in Vms : Phase(w)'
    BY <1>1, <1>3
  <1> QED
    BY <1>1, <1>2, <1>4 DEF IInv

\* The actions that change no page and no owner.
LEMMA QuietSteps ==
  ASSUME IInv, NEW v \in Vms, NEW p \in Points,
         Fields(v, [work[v] EXCEPT !.at = p]),
         UNCHANGED <<nativeCode, memory>>,
         nativeSource' \subseteq Functions, stage' \in [Functions -> Stages],
         work[v].at \in {"lower", "optimize", "emit", "allocate", "uncount", "share", "idle", "destroy"},
         p \in {"lower", "optimize", "emit", "allocate", "leave", "destroy", "gone"},
         p \in Compiling => work[v].at \in Compiling,
         work[v].at = "share" => p = "leave"
  PROVE  Good(v)
PROOF
  <1>1. Types'
    BY DEF IInv, Types, Fields
  <1>2. OthersKeep(v)
    BY DEF Fields
  <1>3. /\ work'[v].at = p /\ work'[v].then = work[v].then /\ work'[v].fn = work[v].fn
        /\ work'[v].memory = work[v].memory /\ work'[v].buffer = work[v].buffer
        /\ work'[v].handle = work[v].handle
    BY HeldType DEF Fields, IInv, Thread
  <1>4. Phase(v)
    BY DEF IInv
  <1>5. Keeps(v)
    BY <1>3 DEF Keeps, Held, OnlyPage, IInv, Exclusive, Live
  <1>6. Phase(v)'
    BY <1>3, <1>4 DEF Phase, Creating, Compiling
  <1> QED
    BY <1>1, <1>2, <1>5, <1>6 DEF Good, Effect

LEMMA Stays ==
  ASSUME IInv, NEW v \in Vms,
         \/ Abandon(v) \/ Lower(v) \/ Optimize(v) \/ Emit(v) \/ CompilerFails(v)
         \/ AllocateFails(v) \/ ShareThrows(v) \/ Uncount(v) \/ Destroy(v) \/ Destroyed(v)
  PROVE  Good(v)
PROOF
  <1>1. Types /\ Phase(v)
    BY DEF IInv
  <1>2. UNCHANGED <<nativeCode, memory>> /\ nativeSource' \subseteq Functions
    BY <1>1 DEF Abandon, Lower, Optimize, Emit, CompilerFails, AllocateFails, ShareThrows, Uncount,
                Destroy, Destroyed, functions, pages, Types, CreationFailed
  <1>3. stage' \in [Functions -> Stages]
    BY <1>1 DEF Abandon, Lower, Optimize, Emit, CompilerFails, AllocateFails, ShareThrows, Uncount,
                Destroy, Destroyed, functions, pages, Types, CreationFailed, Stages
  <1>4. PICK p \in {"lower", "optimize", "emit", "allocate", "leave", "destroy", "gone"} :
          /\ Goto(v, p)
          /\ work[v].at \in {"lower", "optimize", "emit", "allocate", "uncount", "share", "idle", "destroy"}
          /\ p \in Compiling => work[v].at \in Compiling
          /\ work[v].at = "share" => p = "leave"
    <2>1. CASE Uncount(v)
      <3>1. work[v].then \in {"leave", "destroy"} /\ work[v].at = "uncount"
        BY <1>1, <2>1 DEF Uncount, At, Phase
      <3> QED
        BY <2>1, <3>1 DEF Uncount, Compiling, Creating
    <2>2. CASE ~Uncount(v)
      BY <2>2 DEF Abandon, Lower, Optimize, Emit, CompilerFails, AllocateFails, ShareThrows,
                  Destroy, Destroyed, At, Compiling, Creating
    <2> QED
      BY <2>1, <2>2
  <1>5. p \in Points
    BY <1>4 DEF Points
  <1>6. Fields(v, [work[v] EXCEPT !.at = p])
    BY <1>1, <1>4, <1>5, Moved
  <1> QED
    BY <1>2, <1>3, <1>4, <1>5, <1>6, QuietSteps

LEMMA CompileGood ==
  ASSUME IInv, NEW v \in Vms, NEW f \in Fns, Compile(v, f)
  PROVE  Good(v)
PROOF
  <1> DEFINE w == [Idle EXCEPT !.at = "lower", !.fn = f]
  <1>1. Types /\ Phase(v) /\ work[v].at = "idle" /\ nativeCode[<<v, f>>] = Null
    BY DEF IInv, Compile, At
  <1>2. w \in Thread
    BY DEF Idle, Thread, Points, Stages
  <1>3. work' = [work EXCEPT ![v] = w]
    BY DEF Compile
  <1>4. /\ w.at = "lower" /\ w.fn = f /\ w.memory = Null /\ w.buffer = Null /\ w.handle = Null
    BY DEF Idle
  <1> HIDE DEF w
  <1>5. Fields(v, w)
    BY <1>1, <1>2, <1>3, Updated
  <1>6. UNCHANGED <<nativeCode, nativeSource, stage, memory>>
    BY DEF Compile, functions, pages
  <1>7. Types'
    BY <1>1, <1>5, <1>6 DEF Types, Fields
  <1>8. Held(v) = Null /\ Held(v)' = Null
    BY <1>1, <1>4, <1>5 DEF Held, Phase, Fields, Creating
  <1>9. Keeps(v)
    BY <1>6, <1>8, NullAssumption DEF Keeps, OnlyPage
  <1>10. Phase(v)'
    BY <1>1, <1>4, <1>5, <1>6 DEF Phase, Fields, Creating, Compiling
  <1> QED
    BY <1>5, <1>7, <1>9, <1>10 DEF Good, Effect, Fields

LEMMA AllocateGood ==
  ASSUME IInv, NEW v \in Vms, Allocate(v)
  PROVE  Good(v)
PROOF
  <1>1. Types /\ Phase(v) /\ work[v].at = "allocate" /\ work[v] \in Thread
    BY HeldType DEF IInv, Allocate, At
  <1>2. PICK b \in Blocks \ Allocated :
          /\ memory' = [memory EXCEPT ![b] = [access |-> "rw", content |-> Null,
                                               flushed |-> FALSE, stuck |-> FALSE]]
          /\ work' = [work EXCEPT ![v].at = "count", ![v].memory = b]
    BY DEF Allocate
  <1> DEFINE w == [work[v] EXCEPT !.at = "count", !.memory = b]
             page == [access |-> "rw", content |-> Null, flushed |-> FALSE, stuck |-> FALSE]
  <1>3. w \in Thread
    BY <1>1 DEF Thread, Points
  <1>4. work' = [work EXCEPT ![v] = w]
    BY <1>2
  <1>5. /\ w.at = "count" /\ w.memory = b /\ w.buffer = work[v].buffer
        /\ w.handle = work[v].handle /\ w.fn = work[v].fn
    BY <1>1 DEF Thread
  <1>6. page \in Page /\ ~page.stuck
    BY DEF Page
  <1>7. memory' = [memory EXCEPT ![b] = page]
    BY <1>2
  <1> HIDE DEF w, page
  <1>8. Fields(v, w)
    BY <1>1, <1>3, <1>4, Updated
  <1>9. UNCHANGED <<nativeCode, nativeSource, stage>>
    BY DEF Allocate, functions
  <1>10. Types'
    BY <1>1, <1>6, <1>7, <1>8, <1>9 DEF Types, Fields
  <1>11. Held(v) = Null /\ Held(v)' = b
    BY <1>1, <1>2, <1>5, <1>8, NullAssumption DEF Held, Phase, Fields, Creating
  <1>12. memory'[b] = page /\ memory[b] = Unmapped
    BY <1>1, <1>2, <1>7 DEF Types, Allocated
  <1>13. Live(b)'
    BY <1>6, <1>12, NullAssumption DEF Live, Unmapped
  <1>14. Takes(v, b)
    BY <1>1, <1>7, <1>9, <1>11, <1>12, <1>13 DEF Takes, OnlyPage, Types
  <1>15. Phase(v)'
    BY <1>1, <1>2, <1>5, <1>8, <1>9, NullAssumption DEF Phase, Fields, Creating, Compiling
  <1> QED
    BY <1>2, <1>8, <1>10, <1>14, <1>15 DEF Good, Effect, Fields

\* A step of CodeBuffer::create on the pages that the thread is filling.
LEMMA FillingSteps ==
  ASSUME IInv, NEW v \in Vms, NEW w \in Thread, NEW page \in Page,
         work' = [work EXCEPT ![v] = w],
         memory' = [memory EXCEPT ![work[v].memory] = page],
         work[v].memory # Null, w.memory = work[v].memory \/ w.memory = Null,
         w.memory # Null => w.buffer = work[v].buffer,
         w.memory = Null => w.buffer = work[v].memory,
         w.handle = work[v].handle,
         ~page.stuck,
         UNCHANGED <<nativeCode, nativeSource, stage>>
  PROVE  /\ Types' /\ OthersKeep(v) /\ Effect(v) /\ Fields(v, w)
         /\ memory'[work[v].memory] = page
PROOF
  <1>1. Types /\ Phase(v)
    BY DEF IInv
  <1>2. Fields(v, w)
    BY <1>1, Updated
  <1>3. work[v].memory \in Blocks
    BY <1>1, HeldType DEF Thread
  <1>4. memory'[work[v].memory] = page
    BY <1>1, <1>3 DEF Types
  <1>5. Types'
    BY <1>1, <1>2 DEF Types, Fields
  <1>6. Held(v) = work[v].memory /\ Held(v)' = work[v].memory
    BY <1>2 DEF Held, Fields
  <1>7. Live(work[v].memory)
    BY <1>3, <1>6 DEF IInv, Exclusive
  <1>8. \A b \in Blocks : b = Held(v) => Live(b)'
    BY <1>4, <1>6, NullAssumption DEF Live, Unmapped
  <1>9. OnlyPage(Held(v))
    BY <1>1, <1>6 DEF OnlyPage, Types
  <1>10. Keeps(v)
    BY <1>6, <1>8, <1>9 DEF Keeps
  <1> QED
    BY <1>2, <1>4, <1>5, <1>10 DEF Effect, Fields

LEMMA FlushedPage ==
  ASSUME NEW old \in Page, NEW f, old.content = f, old.access = "rx", old.stuck = FALSE
  PROVE  [old EXCEPT !.flushed = TRUE] = Runnable(f)
PROOF
  <1>1. PICK a, c, t, u : old = [access |-> a, content |-> c, flushed |-> t, stuck |-> u]
    BY DEF Page
  <1>2. a = "rx" /\ c = f /\ u = FALSE
    BY <1>1
  <1>3. old = [access |-> "rx", content |-> f, flushed |-> t, stuck |-> FALSE]
    BY <1>1, <1>2
  <1> DEFINE new == [old EXCEPT !.flushed = TRUE]
  <1>4. new.access = "rx" /\ new.content = f /\ new.flushed = TRUE /\ new.stuck = FALSE
    BY DEF Page
  <1>5. PICK b, d, v, w : new = [access |-> b, content |-> d, flushed |-> v, stuck |-> w]
    <2>1. new \in Page
      BY DEF Page
    <2> HIDE DEF new
    <2> QED
      BY <2>1 DEF Page
  <1> HIDE DEF new
  <1>6. new = [access |-> "rx", content |-> f, flushed |-> TRUE, stuck |-> FALSE]
    BY <1>4, <1>5
  <1> QED
    BY <1>6 DEF Runnable, new

LEMMA FillGood ==
  ASSUME IInv, NEW v \in Vms, Count(v) \/ Write(v) \/ Protect(v) \/ Flush(v)
  PROVE  Good(v)
PROOF
  <1> DEFINE b == work[v].memory
             old == memory[b]
  <1>1. Types /\ Phase(v) /\ work[v] \in Thread /\ work[v].at \in Creating
    BY HeldType DEF IInv, Count, Write, Protect, Flush, At, Creating
  <1>2. b \in Blocks /\ b # Null /\ work[v].buffer = Null /\ work[v].handle = Null
    BY <1>1 DEF Phase, Creating, Thread
  <1>3. Held(v) = b
    BY <1>2 DEF Held
  <1>4. Live(b)
    BY <1>2, <1>3 DEF IInv, Exclusive
  <1>5. old \in Page /\ ~old.stuck
    BY <1>1, <1>2, <1>4 DEF Live, Types
  <1>6. /\ work[v].fn \in Fns /\ nativeCode[<<v, work[v].fn>>] = Null
        /\ Function(v) \in Functions
    BY <1>1 DEF Phase, Compiling, Function, Functions
  <1>7. UNCHANGED <<nativeCode, nativeSource, stage>>
    BY DEF Count, Write, Protect, Flush, functions
  <1>8. CASE Count(v)
    <2> DEFINE w == [work[v] EXCEPT !.at = "write", !.observed = "executableAllocated"]
    <2>1. w \in Thread
      BY <1>1 DEF Thread, Points, Stages
    <2>2. work' = [work EXCEPT ![v] = w]
      BY <1>8 DEF Count
    <2>3. memory' = [memory EXCEPT ![b] = old]
      BY <1>1, <1>2, <1>8 DEF Count, Types
    <2>4. /\ w.at = "write" /\ w.memory = b /\ w.buffer = work[v].buffer
          /\ w.handle = work[v].handle /\ w.fn = work[v].fn
      BY <1>1 DEF Thread
    <2> HIDE DEF w, old
    <2>5. Types' /\ OthersKeep(v) /\ Effect(v) /\ Fields(v, w)
      BY <1>2, <1>5, <1>7, <2>1, <2>2, <2>3, <2>4, FillingSteps
    <2>6. Phase(v)'
      BY <1>2, <1>6, <1>7, <2>4, <2>5 DEF Phase, Fields, Creating, Compiling
    <2> QED
      BY <2>5, <2>6 DEF Good
  <1>9. CASE Write(v)
    <2> DEFINE w == [work[v] EXCEPT !.at = "protect", !.observed = "executableWritten"]
               page == [old EXCEPT !.content = Function(v)]
    <2>1. w \in Thread
      BY <1>1 DEF Thread, Points, Stages
    <2>2. work' = [work EXCEPT ![v] = w]
      BY <1>9 DEF Write
    <2>3. memory' = [memory EXCEPT ![b] = page]
      BY <1>9 DEF Write
    <2>4. /\ w.at = "protect" /\ w.memory = b /\ w.buffer = work[v].buffer
          /\ w.handle = work[v].handle /\ w.fn = work[v].fn
      BY <1>1 DEF Thread
    <2>5. page \in Page /\ ~page.stuck /\ page.content = Function(v)
      BY <1>5, <1>6 DEF Page
    <2> HIDE DEF w, old, page
    <2>6. Types' /\ OthersKeep(v) /\ Effect(v) /\ Fields(v, w) /\ memory'[b] = page
      BY <1>2, <1>7, <2>1, <2>2, <2>3, <2>4, <2>5, FillingSteps
    <2>7. Function(v)' = Function(v) /\ work'[v].memory = b
      BY <2>4, <2>6 DEF Fields, Function
    <2>8. Phase(v)'
      BY <1>2, <1>6, <1>7, <2>4, <2>5, <2>6, <2>7 DEF Phase, Fields, Creating, Compiling
    <2> QED
      BY <2>6, <2>8 DEF Good
  <1>10. CASE Protect(v)
    <2> DEFINE w == [work[v] EXCEPT !.at = "flush", !.observed = "executableProtected"]
               page == [old EXCEPT !.access = "rx"]
    <2>1. w \in Thread
      BY <1>1 DEF Thread, Points, Stages
    <2>2. work' = [work EXCEPT ![v] = w]
      BY <1>10 DEF Protect
    <2>3. memory' = [memory EXCEPT ![b] = page]
      BY <1>10 DEF Protect
    <2>4. /\ w.at = "flush" /\ w.memory = b /\ w.buffer = work[v].buffer
          /\ w.handle = work[v].handle /\ w.fn = work[v].fn
      BY <1>1 DEF Thread
    <2>5. old.content = Function(v)
      BY <1>1, <1>10 DEF Phase, Protect, At
    <2>6. page \in Page /\ ~page.stuck /\ page.content = Function(v) /\ page.access = "rx"
      BY <1>5, <2>5 DEF Page
    <2> HIDE DEF w, old, page
    <2>7. Types' /\ OthersKeep(v) /\ Effect(v) /\ Fields(v, w) /\ memory'[b] = page
      BY <1>2, <1>7, <2>1, <2>2, <2>3, <2>4, <2>6, FillingSteps
    <2>8. Function(v)' = Function(v) /\ work'[v].memory = b
      BY <2>4, <2>7 DEF Fields, Function
    <2>9. Phase(v)'
      BY <1>2, <1>6, <1>7, <2>4, <2>6, <2>7, <2>8 DEF Phase, Fields, Creating, Compiling
    <2> QED
      BY <2>7, <2>9 DEF Good
  <1>11. CASE Flush(v)
    <2> DEFINE w == [work[v] EXCEPT !.at = "return", !.buffer = b, !.memory = Null]
               page == [old EXCEPT !.flushed = TRUE]
    <2>1. w \in Thread
      BY <1>1 DEF Thread, Points
    <2>2. work' = [work EXCEPT ![v] = w]
      BY <1>11 DEF Flush
    <2>3. memory' = [memory EXCEPT ![b] = page]
      BY <1>11 DEF Flush
    <2>4. /\ w.at = "return" /\ w.memory = Null /\ w.buffer = b
          /\ w.handle = work[v].handle /\ w.fn = work[v].fn
      BY <1>1 DEF Thread
    <2>5. old.content = Function(v) /\ old.access = "rx"
      BY <1>1, <1>11 DEF Phase, Flush, At
    <2>6. page \in Page /\ ~page.stuck
      BY <1>5 DEF Page
    <2>7. page = Runnable(Function(v))
      <3>1. old.stuck = FALSE
        BY <1>5 DEF Page
      <3> QED
        BY <1>5, <2>5, <3>1, FlushedPage
    <2> HIDE DEF w, old, page
    <2>8. Types' /\ OthersKeep(v) /\ Effect(v) /\ Fields(v, w) /\ memory'[b] = page
      BY <1>2, <1>7, <2>1, <2>2, <2>3, <2>4, <2>6, FillingSteps
    <2>9. Function(v)' = Function(v) /\ work'[v].buffer = b
      BY <2>4, <2>8 DEF Fields, Function
    <2>10. Phase(v)'
      BY <1>2, <1>6, <1>7, <2>4, <2>7, <2>8, <2>9 DEF Phase, Fields, Creating, Compiling, Runnable
    <2> QED
      BY <2>8, <2>10 DEF Good
  <1> QED
    BY <1>8, <1>9, <1>10, <1>11

\* A step that passes the pages from one owner in the thread to another.
LEMMA HandOver ==
  ASSUME IInv, NEW v \in Vms, NEW w \in Thread,
         work' = [work EXCEPT ![v] = w],
         Held(v)' = Held(v),
         UNCHANGED <<nativeCode, memory>>,
         nativeSource' \subseteq Functions, stage' \in [Functions -> Stages]
  PROVE  Types' /\ OthersKeep(v) /\ Effect(v) /\ Fields(v, w)
PROOF
  <1>1. Types /\ Fields(v, w)
    BY Updated DEF IInv
  <1>2. Types'
    BY <1>1 DEF Types, Fields
  <1>3. \A b \in Blocks : b = Held(v) => Live(b)'
    BY DEF IInv, Exclusive, Live
  <1>4. Keeps(v)
    BY <1>3 DEF Keeps, OnlyPage
  <1> QED
    BY <1>1, <1>2, <1>4 DEF Effect, Fields

LEMMA CreateFailsGood ==
  ASSUME IInv, NEW v \in Vms, CreateFails(v)
  PROVE  Good(v)
PROOF
  <1> DEFINE w == [work[v] EXCEPT !.at = "release", !.then = "leave"]
  <1>1. Types /\ Phase(v) /\ work[v] \in Thread /\ work[v].at \in Creating
    BY HeldType DEF IInv, CreateFails, At, Creating
  <1>2. w \in Thread
    BY <1>1 DEF Thread, Points
  <1>3. work' = [work EXCEPT ![v] = w]
    BY DEF CreateFails, ReleasedOnFailure
  <1>4. UNCHANGED <<nativeCode, nativeSource, memory>>
    BY DEF CreateFails, pages
  <1>5. stage' \in [Functions -> Stages]
    <2>1. work[v].observed \in Stages
      BY <1>1 DEF Thread
    <2> QED
      BY <1>1, <2>1 DEF CreateFails, CreationFailed, Types
  <1>6. /\ w.at = "release" /\ w.then = "leave" /\ w.memory = work[v].memory
        /\ w.buffer = work[v].buffer /\ w.handle = work[v].handle
    BY <1>1 DEF Thread
  <1> HIDE DEF w
  <1>7. Fields(v, w)
    BY <1>1, <1>2, <1>3, Updated
  <1>8. Held(v)' = Held(v)
    BY <1>6, <1>7 DEF Held, Fields
  <1>9. Types' /\ OthersKeep(v) /\ Effect(v)
    BY <1>1, <1>2, <1>3, <1>4, <1>5, <1>8, HandOver DEF Types
  <1>10. Phase(v)'
    BY <1>1, <1>6, <1>7 DEF Phase, Fields, Creating, Compiling
  <1> QED
    BY <1>9, <1>10 DEF Good

LEMMA ReturnHandleGood ==
  ASSUME IInv, NEW v \in Vms, ReturnHandle(v)
  PROVE  Good(v)
PROOF
  <1> DEFINE w == [work[v] EXCEPT !.at = "share", !.handle = work[v].buffer, !.buffer = Null]
  <1>1. Types /\ Phase(v) /\ work[v] \in Thread /\ work[v].at = "return"
    BY HeldType DEF IInv, ReturnHandle, At
  <1>2. w \in Thread
    BY <1>1 DEF Thread, Points
  <1>3. work' = [work EXCEPT ![v] = w]
    BY DEF ReturnHandle, MovedFrom
  <1>4. UNCHANGED <<nativeCode, nativeSource, stage, memory>>
    BY DEF ReturnHandle, functions, pages
  <1>5. /\ w.at = "share" /\ w.memory = work[v].memory /\ w.fn = work[v].fn
        /\ w.buffer = Null /\ w.handle = work[v].buffer
    BY <1>1 DEF Thread
  <1> HIDE DEF w
  <1>6. Fields(v, w)
    BY <1>1, <1>2, <1>3, Updated
  <1>7. Held(v)' = Held(v)
    BY <1>1, <1>5, <1>6 DEF Held, Fields, Phase, Creating
  <1>8. Types' /\ OthersKeep(v) /\ Effect(v)
    BY <1>1, <1>2, <1>3, <1>4, <1>7, HandOver DEF Types
  <1>9. Phase(v)'
    BY <1>1, <1>4, <1>5, <1>6 DEF Phase, Fields, Creating, Compiling, Function, Runnable
  <1> QED
    BY <1>8, <1>9 DEF Good

LEMMA LeaveGood ==
  ASSUME IInv, NEW v \in Vms, Leave(v)
  PROVE  Good(v)
PROOF
  <1>1. /\ Types /\ Phase(v) /\ work[v] \in Thread /\ work[v].at = "leave"
        /\ work[v].memory = Null /\ work[v].buffer = Null
    BY HeldType DEF IInv, Leave, At, Phase, Creating
  <1>2. UNCHANGED <<nativeCode, nativeSource, stage, memory>>
    BY DEF Leave, functions, pages
  <1>3. CASE work[v].handle # Null
    <2> DEFINE w == [work[v] EXCEPT !.handle = Null, !.at = "release", !.then = "leave",
                                    !.memory = work[v].handle]
    <2>1. w \in Thread
      BY <1>1 DEF Thread, Points
    <2>2. work' = [work EXCEPT ![v] = w]
      BY <1>1, <1>3 DEF Leave
    <2>3. /\ w.at = "release" /\ w.then = "leave" /\ w.memory = work[v].handle
          /\ w.buffer = Null /\ w.handle = Null
      BY <1>1 DEF Thread
    <2> HIDE DEF w
    <2>4. Fields(v, w)
      BY <1>1, <2>1, <2>2, Updated
    <2>5. Held(v)' = Held(v)
      BY <1>1, <1>3, <2>3, <2>4 DEF Held, Fields
    <2>6. Types' /\ OthersKeep(v) /\ Effect(v)
      BY <1>1, <1>2, <2>1, <2>2, <2>5, HandOver DEF Types
    <2>7. Phase(v)'
      BY <1>3, <2>3, <2>4 DEF Phase, Fields, Creating, Compiling
    <2> QED
      BY <2>6, <2>7 DEF Good
  <1>4. CASE work[v].handle = Null
    <2>1. Idle \in Thread
      BY DEF Idle, Thread, Points, Stages
    <2>2. work' = [work EXCEPT ![v] = Idle]
      BY <1>1, <1>4 DEF Leave
    <2>3. /\ Idle.at = "idle" /\ Idle.memory = Null /\ Idle.buffer = Null /\ Idle.handle = Null
      BY DEF Idle
    <2>4. Fields(v, Idle)
      BY <1>1, <2>1, <2>2, Updated
    <2>5. Held(v)' = Held(v)
      BY <1>1, <1>4, <2>3, <2>4 DEF Held, Fields
    <2>6. Types' /\ OthersKeep(v) /\ Effect(v)
      BY <1>1, <1>2, <2>1, <2>2, <2>5, HandOver DEF Types
    <2>7. Phase(v)'
      BY <2>3, <2>4 DEF Phase, Fields, Creating, Compiling
    <2> QED
      BY <2>6, <2>7 DEF Good
  <1> QED
    BY <1>3, <1>4

LEMMA PublishGood ==
  ASSUME IInv, NEW v \in Vms, Publish(v)
  PROVE  Good(v)
PROOF
  <1> DEFINE w == [work[v] EXCEPT !.at = "leave", !.handle = Null]
  <1>1. /\ Types /\ Phase(v) /\ work[v] \in Thread /\ work[v].at = "share"
    BY HeldType DEF IInv, Publish, At
  <1>2. /\ work[v].memory = Null /\ work[v].buffer = Null /\ work[v].handle # Null
        /\ work[v].fn \in Fns /\ nativeCode[Function(v)] = Null
        /\ memory[work[v].handle] = Runnable(Function(v))
    BY <1>1 DEF Phase, Creating, Compiling, Function
  <1>3. Held(v) = work[v].handle /\ Function(v) \in Functions /\ Held(v) \in Blocks \cup {Null}
    BY <1>1, <1>2 DEF Held, Function, Functions, Thread
  <1>4. w \in Thread
    BY <1>1 DEF Thread, Points
  <1>5. work' = [work EXCEPT ![v] = w]
    BY DEF Publish, MovedFrom
  <1>6. /\ w.at = "leave" /\ w.memory = Null /\ w.buffer = Null /\ w.handle = Null
    BY <1>1, <1>2 DEF Thread
  <1> HIDE DEF w
  <1>7. Fields(v, w)
    BY <1>1, <1>4, <1>5, Updated
  <1>8. /\ nativeCode' = [nativeCode EXCEPT ![Function(v)] = Held(v)]
        /\ memory' = memory
        /\ nativeSource' \subseteq Functions
        /\ stage' \in [Functions -> Stages]
    BY <1>1, <1>3 DEF Publish, pages, Types, Stages
  <1>9. Types'
    BY <1>1, <1>3, <1>7, <1>8 DEF Types, Fields
  <1>10. Held(v)' = Null
    BY <1>6, <1>7 DEF Held, Fields
  <1>11. GivesToFunction(v)
    BY <1>2, <1>3, <1>8, <1>10 DEF GivesToFunction
  <1>12. Phase(v)'
    BY <1>6, <1>7 DEF Phase, Fields, Creating, Compiling
  <1> QED
    BY <1>7, <1>9, <1>11, <1>12 DEF Good, Effect, Fields

LEMMA DestroyFunctionGood ==
  ASSUME IInv, NEW v \in Vms, DestroyFunction(v)
  PROVE  Good(v)
PROOF
  <1>1. PICK f \in Fns :
          /\ nativeCode[<<v, f>>] # Null
          /\ nativeCode' = [nativeCode EXCEPT ![<<v, f>>] = Null]
          /\ work' = [work EXCEPT ![v].at = "release", ![v].then = "destroy",
                                  ![v].memory = nativeCode[<<v, f>>]]
    BY DEF DestroyFunction
  <1> DEFINE b == nativeCode[<<v, f>>]
             w == [work[v] EXCEPT !.at = "release", !.then = "destroy", !.memory = b]
  <1>2. Types /\ Phase(v) /\ work[v] \in Thread /\ work[v].at = "destroy" /\ b \in Blocks \cup {Null}
    BY HeldType DEF IInv, DestroyFunction, At
  <1>3. work[v].memory = Null /\ work[v].buffer = Null /\ work[v].handle = Null
    BY <1>2 DEF Phase, Creating
  <1>4. w \in Thread
    BY <1>2 DEF Thread, Points
  <1>5. work' = [work EXCEPT ![v] = w]
    BY <1>1
  <1>6. /\ w.at = "release" /\ w.then = "destroy" /\ w.memory = b /\ w.buffer = Null
        /\ w.handle = Null
    BY <1>2, <1>3 DEF Thread
  <1> HIDE DEF w
  <1>7. Fields(v, w)
    BY <1>2, <1>4, <1>5, Updated
  <1>8. UNCHANGED <<nativeSource, stage, memory>>
    BY DEF DestroyFunction, pages
  <1>9. Types'
    BY <1>1, <1>2, <1>7, <1>8 DEF Types, Fields
  <1>10. Held(v) = Null /\ Held(v)' = b
    BY <1>1, <1>3, <1>6, <1>7 DEF Held, Fields
  <1>11. TakesFromFunction(v, f)
    BY <1>1, <1>8, <1>10 DEF TakesFromFunction
  <1>12. Phase(v)'
    BY <1>1, <1>6, <1>7 DEF Phase, Fields, Creating, Compiling
  <1> QED
    BY <1>7, <1>9, <1>11, <1>12 DEF Good, Effect, Fields

LEMMA ReleaseGood ==
  ASSUME IInv, NEW v \in Vms, Release(v) \/ ReleaseFails(v)
  PROVE  Good(v)
PROOF
  <1> DEFINE b == work[v].memory
             p == IF Release(v) THEN "uncount" ELSE work[v].then
             w == [work[v] EXCEPT !.at = p, !.memory = Null]
  <1>1. Types /\ Phase(v) /\ work[v] \in Thread /\ work[v].at = "release"
    BY HeldType DEF IInv, Release, ReleaseFails, At
  <1>2. /\ b # Null /\ b \in Blocks /\ work[v].buffer = Null /\ work[v].handle = Null
        /\ work[v].then \in {"leave", "destroy"}
    BY <1>1 DEF Phase, Creating, Thread
  <1>3. Held(v) = b
    BY <1>2 DEF Held
  <1>4. Live(b)
    BY <1>2, <1>3 DEF IInv, Exclusive
  <1>5. memory[b] \in Page
    BY <1>1, <1>2, <1>4 DEF Live, Types
  <1>6. w \in Thread
    BY <1>1, <1>2 DEF Thread, Points
  <1>7. work' = [work EXCEPT ![v] = w]
    BY <1>1 DEF Release, ReleaseFails
  <1>8. /\ w.at = p /\ w.then = work[v].then /\ w.memory = Null /\ w.buffer = Null
        /\ w.handle = Null /\ w.fn = work[v].fn
        /\ p \in {"uncount", "leave", "destroy"}
    BY <1>1, <1>2 DEF Thread
  <1> HIDE DEF w, p
  <1>9. Fields(v, w)
    BY <1>1, <1>6, <1>7, Updated
  <1>10. PICK page \in Page \cup {Unmapped} :
           /\ memory' = [memory EXCEPT ![b] = page]
           /\ page = Unmapped \/ page.stuck
    <2>1. CASE Release(v)
      BY <2>1 DEF Release
    <2>2. CASE ReleaseFails(v)
      <3> DEFINE page == [memory[b] EXCEPT !.stuck = TRUE]
      <3>1. page \in Page /\ page.stuck
        BY <1>5 DEF Page
      <3>2. memory' = [memory EXCEPT ![b] = page]
        BY <2>2 DEF ReleaseFails
      <3> HIDE DEF page
      <3> QED
        BY <3>1, <3>2
    <2> QED
      BY <2>1, <2>2
  <1>11. UNCHANGED <<nativeCode, nativeSource, stage>>
    BY DEF Release, ReleaseFails, functions
  <1>12. Types'
    BY <1>1, <1>9, <1>10, <1>11 DEF Types, Fields
  <1>13. Held(v)' = Null
    BY <1>8, <1>9 DEF Held, Fields
  <1>14. memory'[b] = page /\ OnlyPage(b)
    BY <1>1, <1>2, <1>10 DEF OnlyPage, Types
  <1>15. Frees(v)
    BY <1>2, <1>3, <1>10, <1>11, <1>13, <1>14 DEF Frees, Live
  <1>16. Phase(v)'
    BY <1>2, <1>8, <1>9 DEF Phase, Fields, Creating, Compiling
  <1> QED
    BY <1>9, <1>12, <1>15, <1>16 DEF Good, Effect, Fields

-----------------------------------------------------------------------------
LEMMA InitInv == Init => IInv
PROOF
  <1> SUFFICES ASSUME Init PROVE IInv
    OBVIOUS
  <1>1. \A v \in Vms : work[v] = Idle
    BY DEF Init
  <1>2. Idle \in Thread
    BY DEF Idle, Thread, Points, Stages
  <1>3. Types
    BY <1>2 DEF Init, Types, Stages
  <1>4. \A v \in Vms : /\ work[v].at = "idle" /\ work[v].memory = Null
                       /\ work[v].buffer = Null /\ work[v].handle = Null
    BY <1>1 DEF Idle
  <1>5. \A v \in Vms : Phase(v)
    BY <1>4 DEF Phase, Creating, Compiling
  <1>6. \A v \in Vms : Held(v) = Null
    BY <1>4 DEF Held
  <1>7. Exclusive
    BY <1>6, NullAssumption DEF Init, Exclusive, Live
  <1>8. PublishedIsRunnable
    BY DEF Init, PublishedIsRunnable
  <1> QED
    BY <1>3, <1>5, <1>7, <1>8 DEF IInv

LEMMA StepInv ==
  ASSUME IInv, NEW v \in Vms, Step(v)
  PROVE  IInv'
PROOF
  <1>1. Good(v)
    BY Stays, CompileGood, AllocateGood, FillGood, CreateFailsGood, ReturnHandleGood,
       PublishGood, LeaveGood, ReleaseGood, DestroyFunctionGood DEF Step
  <1> QED
    BY <1>1, GoodSteps

LEMMA StutterInv == IInv /\ UNCHANGED vars => IInv'
PROOF
  <1> SUFFICES ASSUME IInv, UNCHANGED vars PROVE IInv'
    OBVIOUS
  <1>1. UNCHANGED <<nativeCode, nativeSource, stage, work, memory>>
    BY DEF vars
  <1>2. Types'
    BY <1>1 DEF IInv, Types
  <1>3. \A v \in Vms : Phase(v)' <=> Phase(v)
    BY <1>1 DEF Phase, Function, Runnable
  <1>4. \A v \in Vms : Held(v)' = Held(v)
    BY <1>1 DEF Held
  <1>5. Exclusive'
    BY <1>1, <1>4 DEF IInv, Exclusive, Live, Functions
  <1>6. PublishedIsRunnable'
    BY <1>1 DEF IInv, PublishedIsRunnable, Functions, Runnable
  <1> QED
    BY <1>2, <1>3, <1>5, <1>6 DEF IInv

\* The inductive invariant holds in every state.
THEOREM Invariance == Spec => []IInv
PROOF
  <1>1. IInv /\ [Next]_vars => IInv'
    BY StepInv, StutterInv DEF Next
  <1> QED
    BY InitInv, <1>1, PTL DEF Spec

\* Published code can always be run, on any number of threads.
THEOREM PublicationCorrect == Spec => []PublishedIsRunnable
PROOF
  <1>1. IInv => PublishedIsRunnable
    BY DEF IInv
  <1> QED
    BY Invariance, <1>1, PTL

\* Whatever fails, a block has exactly one owner until it is released.
THEOREM OwnershipCorrect == Spec => []OwnedOnce
PROOF
  <1>1. IInv => OwnedOnce
    <2> SUFFICES ASSUME IInv, NEW b \in Blocks
                 PROVE  /\ Live(b) <=> Owners(b) # {}
                        /\ \A o1, o2 \in Owners(b) : o1 = o2
      BY DEF OwnedOnce
    <2>1. b # Null
      BY NullAssumption
    <2>2. \A v \in Vms :
            /\ Held(v) = b <=> work[v].memory = b \/ work[v].buffer = b \/ work[v].handle = b
            /\ work[v].memory = b => work[v].buffer # b /\ work[v].handle # b
            /\ work[v].buffer = b => work[v].handle # b
      BY <2>1 DEF IInv, Phase, Held, Creating
    <2>3. Owners(b) # {} <=> (\E f \in Functions : nativeCode[f] = b) \/ (\E v \in Vms : Held(v) = b)
      <3>1. Owners(b) # {} <=>
              \/ \E f \in Functions : nativeCode[f] = b
              \/ \E v \in Vms : work[v].memory = b \/ work[v].buffer = b \/ work[v].handle = b
        BY ZenonT(30) DEF Owners
      <3> QED
        BY <2>2, <3>1
    <2>4. Live(b) <=> Owners(b) # {}
      BY <2>3 DEF IInv, Exclusive
    <2>5. /\ \A f, g \in Functions : nativeCode[f] = b /\ nativeCode[g] = b => f = g
          /\ \A f \in Functions, v \in Vms : nativeCode[f] = b => Held(v) # b
          /\ \A v, w \in Vms : Held(v) = b /\ Held(w) = b => v = w
      BY <2>1 DEF IInv, Exclusive
    <2>6. \A o1, o2 \in Owners(b) : o1 = o2
      BY <2>2, <2>5 DEF Owners
    <2> QED
      BY <2>4, <2>6
  <1> QED
    BY Invariance, <1>1, PTL

-----------------------------------------------------------------------------
(* A compilation that fails leaves its function to be compiled again.       *)

Dying(v) == work[v].at \in {"destroy", "gone"} \/ work[v].then = "destroy"

Whole(v) ==
  /\ work[v].observed # "published"
  /\ work[v].then = "destroy" => work[v].at \in {"release", "uncount", "destroy", "gone"}
  /\ ~Dying(v) =>
       \A f \in Fns :
         /\ nativeCode[<<v, f>>] # Null <=> <<v, f>> \notin nativeSource
         /\ nativeCode[<<v, f>>] # Null <=> stage[<<v, f>>] = "published"

\* Only thread v writes the functions of its machine.
LEMMA OthersWhole ==
  ASSUME IInv, NEW v \in Vms, Step(v), NEW w \in Vms \ {v}, Whole(w)
  PROVE  Whole(w)'
PROOF
  <1>1. Good(v)
    BY Stays, CompileGood, AllocateGood, FillGood, CreateFailsGood, ReturnHandleGood,
       PublishGood, LeaveGood, ReleaseGood, DestroyFunctionGood DEF Step
  <1>2. work'[w] = work[w]
    BY <1>1 DEF Good, OthersKeep
  <1>3. \A f \in Fns : nativeCode'[<<w, f>>] = nativeCode[<<w, f>>]
    BY <1>1 DEF Good, Effect, Keeps, GivesToFunction, Frees, Takes, TakesFromFunction,
                Functions, Function, IInv, Types
  <1>4. \A f \in Fns : <<w, f>> \in nativeSource' <=> <<w, f>> \in nativeSource
    BY DEF Step, Compile, Abandon, Lower, Optimize, Emit, CompilerFails, Allocate, AllocateFails,
           Count, Write, Protect, Flush, CreateFails, ReturnHandle, ShareThrows, Publish, Leave,
           Release, ReleaseFails, Uncount, Destroy, DestroyFunction, Destroyed, functions, Function
  <1>5. \A f \in Fns : stage'[<<w, f>>] = stage[<<w, f>>]
    BY DEF Step, Compile, Abandon, Lower, Optimize, Emit, CompilerFails, Allocate, AllocateFails,
           Count, Write, Protect, Flush, CreateFails, ReturnHandle, ShareThrows, Publish, Leave,
           Release, ReleaseFails, Uncount, Destroy, DestroyFunction, Destroyed, functions, Function,
           CreationFailed, Functions, IInv, Types
  <1> QED
    BY <1>2, <1>3, <1>4, <1>5 DEF Whole, Dying

\* The steps that leave the functions of the machine alone.
LEMMA SameFunctions ==
  ASSUME NEW v \in Vms, Whole(v), UNCHANGED <<nativeCode, nativeSource, stage>>,
         work'[v].observed # "published",
         work'[v].then = "destroy" => work'[v].at \in {"release", "uncount", "destroy", "gone"},
         ~Dying(v)' => ~Dying(v)
  PROVE  Whole(v)'
PROOF BY DEF Whole

\* The four steps that record a stage short of the last.
LEMMA StageRecorded ==
  ASSUME IInv, NEW v \in Vms, Whole(v), NEW s, s # "published",
         work[v].at \in Compiling,
         UNCHANGED <<nativeCode, nativeSource>>,
         stage' = [stage EXCEPT ![Function(v)] = s],
         work'[v].observed # "published", work'[v].then # "destroy",
         work'[v].at \notin {"destroy", "gone"}
  PROVE  Whole(v)'
PROOF
  <1>1. ~Dying(v) /\ ~Dying(v)'
    BY DEF Dying, Whole, Compiling, Creating
  <1>2. work[v].fn \in Fns /\ nativeCode[Function(v)] = Null /\ Function(v) \in Functions
    BY DEF IInv, Phase, Function, Functions
  <1>3. /\ stage'[Function(v)] = s
        /\ \A g \in Functions \ {Function(v)} : stage'[g] = stage[g]
    BY <1>2 DEF IInv, Types
  <1>4. \A f \in Fns : <<v, f>> \in Functions
    BY DEF Functions
  <1> QED
    BY <1>1, <1>2, <1>3, <1>4 DEF Whole

LEMMA OwnWhole ==
  ASSUME IInv, NEW v \in Vms, Step(v), Whole(v)
  PROVE  Whole(v)'
PROOF
  <1>1. work \in [Vms -> Thread] /\ work[v] \in Thread /\ stage \in [Functions -> Stages]
    BY HeldType DEF IInv, Types
  <1>2. /\ work[v].observed # "published"
        /\ work[v].then = "destroy" => work[v].at \in {"release", "uncount", "destroy", "gone"}
    BY DEF Whole
  <1>3. CASE \/ Abandon(v) \/ Optimize(v) \/ Allocate(v) \/ Count(v) \/ Write(v) \/ Protect(v)
             \/ Flush(v) \/ ReturnHandle(v) \/ ShareThrows(v)
    <2>1. UNCHANGED <<nativeCode, nativeSource, stage>>
      BY <1>3 DEF Abandon, Optimize, Allocate, Count, Write, Protect, Flush, ReturnHandle,
                  ShareThrows, functions
    <2>2. work[v].at \in Compiling
      BY <1>3 DEF Abandon, Optimize, Allocate, Count, Write, Protect, Flush, ReturnHandle,
                  ShareThrows, At, Compiling, Creating
    <2>3. work'[v].then = work[v].then /\ work'[v].observed # "published"
      BY <1>1, <1>2, <1>3 DEF Abandon, Optimize, Allocate, Count, Write, Protect, Flush,
                              ReturnHandle, ShareThrows, Goto, Thread
    <2>4. ~Dying(v)
      BY <1>2, <2>2 DEF Dying, Compiling, Creating
    <2>5. work'[v].then # "destroy"
      BY <2>3, <2>4 DEF Dying
    <2> QED
      BY <2>1, <2>3, <2>4, <2>5, SameFunctions
  <1>4. CASE AllocateFails(v)
    <2>1. stage' = stage
      BY <1>1, <1>4 DEF AllocateFails, CreationFailed
    <2>2. work[v].at = "allocate" /\ UNCHANGED <<nativeCode, nativeSource>>
      BY <1>4 DEF AllocateFails, At
    <2>3. work'[v].then = work[v].then /\ work'[v].observed = work[v].observed
      BY <1>1, <1>4 DEF AllocateFails, Goto, Thread
    <2> QED
      BY <1>2, <2>1, <2>2, <2>3, SameFunctions DEF Dying
  <1>5. CASE Compile(v, work'[v].fn) \/ Leave(v)
    <2>1. UNCHANGED <<nativeCode, nativeSource, stage>>
      BY <1>5 DEF Compile, Leave, functions
    <2>2. /\ work'[v].then # "destroy" /\ work'[v].observed # "published"
          /\ ~Dying(v)
      <3>1. CASE Compile(v, work'[v].fn)
        <4>1. /\ work' = [work EXCEPT ![v] = [Idle EXCEPT !.at = "lower", !.fn = work'[v].fn]]
              /\ work[v].at = "idle"
          BY <3>1 DEF Compile, At
        <4>2. work'[v] = [Idle EXCEPT !.at = "lower", !.fn = work'[v].fn]
          BY <1>1, <4>1
        <4>3. work'[v].then = "idle" /\ work'[v].observed = "none"
          BY <4>2 DEF Idle
        <4> QED
          BY <1>2, <4>1, <4>3 DEF Dying
      <3>2. CASE Leave(v)
        <4>1. work[v].at = "leave"
          BY <3>2 DEF Leave, At
        <4>2. CASE work'[v] = Idle
          BY <1>2, <4>1, <4>2 DEF Dying, Idle
        <4>3. CASE work'[v].then = "leave" /\ work'[v].observed = work[v].observed
          BY <1>2, <4>1, <4>3 DEF Dying
        <4> QED
          BY <1>1, <3>2, <4>2, <4>3 DEF Leave, Thread
      <3> QED
        BY <1>5, <3>1, <3>2
    <2> QED
      BY <2>1, <2>2, SameFunctions
  <1>6. CASE Release(v) \/ ReleaseFails(v) \/ Uncount(v) \/ Destroy(v)
    <2>1. UNCHANGED <<nativeCode, nativeSource, stage>>
      BY <1>6 DEF Release, ReleaseFails, Uncount, Destroy, functions
    <2>2. work'[v].then = work[v].then /\ work'[v].observed = work[v].observed
      BY <1>1, <1>6 DEF Release, ReleaseFails, Uncount, Destroy, Goto, Thread
    <2>3. /\ work'[v].at \in {"uncount", "destroy"} \/ work'[v].at = work[v].then
          /\ work[v].at \in {"release", "uncount", "idle"}
      BY <1>1, <1>6 DEF Release, ReleaseFails, Uncount, Destroy, Goto, Thread, At
    <2>4. ~Dying(v)' => ~Dying(v)
      BY <2>2, <2>3 DEF Dying
    <2>5. work'[v].then = "destroy" => work'[v].at \in {"release", "uncount", "destroy", "gone"}
      BY <2>2, <2>3
    <2> QED
      BY <1>2, <2>1, <2>2, <2>4, <2>5, SameFunctions
  <1>7. CASE Lower(v) \/ Emit(v) \/ CompilerFails(v)
    <2>1. PICK s \in {"lowered", "emitted", "compilerFailure"} :
            stage' = [stage EXCEPT ![Function(v)] = s]
      BY <1>7 DEF Lower, Emit, CompilerFails
    <2>2. work[v].at \in Compiling /\ UNCHANGED <<nativeCode, nativeSource>>
      BY <1>7 DEF Lower, Emit, CompilerFails, At, Compiling
    <2>3. /\ work'[v].then = work[v].then /\ work'[v].observed = work[v].observed
          /\ work'[v].at \notin {"destroy", "gone"}
      BY <1>1, <1>7 DEF Lower, Emit, CompilerFails, Goto, Thread
    <2>4. work[v].then # "destroy"
      BY <1>2, <2>2 DEF Compiling, Creating
    <2> QED
      BY <1>2, <2>1, <2>2, <2>3, <2>4, StageRecorded
  <1>8. CASE CreateFails(v)
    <2>1. work[v].at \in Compiling /\ UNCHANGED <<nativeCode, nativeSource>>
      BY <1>8 DEF CreateFails, At, Compiling, Creating
    <2>2. /\ work'[v].then = "leave" /\ work'[v].observed = work[v].observed
          /\ work'[v].at = "release"
      BY <1>1, <1>8 DEF CreateFails, ReleasedOnFailure, Thread
    <2>3. CASE work[v].observed = "none"
      <3>1. stage' = stage
        BY <1>1, <1>8, <2>3 DEF CreateFails, CreationFailed
      <3>2. ~Dying(v)
        BY <1>2, <2>1 DEF Dying, Compiling, Creating
      <3> QED
        BY <1>2, <2>1, <2>2, <3>1, <3>2, SameFunctions
    <2>4. CASE work[v].observed # "none"
      <3>1. stage' = [stage EXCEPT ![Function(v)] = work[v].observed]
        BY <1>8, <2>4 DEF CreateFails, CreationFailed
      <3> QED
        BY <1>2, <2>1, <2>2, <3>1, StageRecorded
    <2> QED
      BY <2>3, <2>4
  <1>9. CASE Publish(v)
    <2>1. /\ work[v].at = "share" /\ work[v].fn \in Fns /\ work[v].handle # Null
          /\ Function(v) \in Functions /\ nativeCode \in [Functions -> Blocks \cup {Null}]
      BY <1>9 DEF Publish, At, IInv, Phase, Compiling, Function, Functions, Types
    <2>2. /\ nativeCode'[Function(v)] # Null /\ stage'[Function(v)] = "published"
          /\ Function(v) \notin nativeSource'
      BY <1>1, <1>9, <2>1 DEF Publish
    <2>3. \A g \in Functions \ {Function(v)} :
            /\ nativeCode'[g] = nativeCode[g] /\ stage'[g] = stage[g]
            /\ g \in nativeSource' <=> g \in nativeSource
      BY <1>1, <1>9, <2>1 DEF Publish
    <2>4. ~Dying(v) /\ work'[v].then # "destroy" /\ work'[v].observed # "published"
      BY <1>1, <1>2, <1>9, <2>1 DEF Publish, Dying, Thread
    <2>5. \A f \in Fns : <<v, f>> \in Functions
      BY DEF Functions
    <2>6. \A f \in Fns :
            /\ nativeCode[<<v, f>>] # Null <=> <<v, f>> \notin nativeSource
            /\ nativeCode[<<v, f>>] # Null <=> stage[<<v, f>>] = "published"
      BY <2>4 DEF Whole
    <2>7. ASSUME NEW f \in Fns
          PROVE  /\ nativeCode'[<<v, f>>] # Null <=> <<v, f>> \notin nativeSource'
                 /\ nativeCode'[<<v, f>>] # Null <=> stage'[<<v, f>>] = "published"
      BY <2>2, <2>3, <2>5, <2>6
    <2> QED
      BY <2>4, <2>7 DEF Whole
  <1>10. CASE DestroyFunction(v) \/ Destroyed(v)
    <2>1. CASE DestroyFunction(v)
      <3>1. PICK f \in Fns :
              work' = [work EXCEPT ![v].at = "release", ![v].then = "destroy",
                                   ![v].memory = nativeCode[<<v, f>>]]
        BY <2>1 DEF DestroyFunction
      <3>2. /\ work'[v].at = "release" /\ work'[v].then = "destroy"
            /\ work'[v].observed = work[v].observed
        BY <1>1, <3>1 DEF Thread
      <3> QED
        BY <1>2, <3>2 DEF Whole, Dying
    <2>2. CASE Destroyed(v)
      <3>1. work' = [work EXCEPT ![v].at = "gone"]
        BY <2>2 DEF Destroyed, Goto
      <3>2. work'[v].at = "gone" /\ work'[v].observed = work[v].observed
        BY <1>1, <3>1 DEF Thread
      <3> QED
        BY <1>2, <3>2 DEF Whole, Dying
    <2> QED
      BY <1>10, <2>1, <2>2
  <1>11. ASSUME NEW f \in Fns, Compile(v, f) PROVE Whole(v)'
    <2>1. work'[v].fn = f
      BY <1>1, <1>11 DEF Compile, Idle
    <2> QED
      BY <1>5, <1>11, <2>1
  <1> QED
    BY <1>3, <1>4, <1>5, <1>6, <1>7, <1>8, <1>9, <1>10, <1>11 DEF Step

\* A failed compilation leaves its function in the VM, with its source.
THEOREM AllOrNothingCorrect == Spec => []AllOrNothing
PROOF
  <1> DEFINE AllWhole == \A v \in Vms : Whole(v)
  <1>1. Init => AllWhole
    <2> SUFFICES ASSUME Init, NEW v \in Vms PROVE Whole(v)
      OBVIOUS
    <2>1. work[v].observed = "none" /\ work[v].then = "idle"
      BY DEF Init, Idle
    <2> QED
      BY <2>1 DEF Init, Whole, Functions
  <1>2. IInv /\ AllWhole /\ [Next]_vars => AllWhole'
    <2>1. CASE UNCHANGED vars
      BY <2>1 DEF vars, Whole, Dying
    <2>2. ASSUME IInv, AllWhole, NEW v \in Vms, Step(v) PROVE AllWhole'
      BY <2>2, OthersWhole, OwnWhole
    <2> QED
      BY <2>1, <2>2 DEF Next
  <1>3. AllWhole => AllOrNothing
    BY DEF AllOrNothing, Whole, Dying
  <1> QED
    BY Invariance, <1>1, <1>2, <1>3, PTL DEF Spec

-----------------------------------------------------------------------------
(***************************************************************************)
(* The counter of live allocations, for any finite number of threads and   *)
(* blocks: it is the number of mapped blocks, but for the threads between  *)
(* the call to the system and the change of the counter.  Each of those    *)
(* that has not counted yet holds a block of its own, so that the counter  *)
(* is never negative, whatever the interleaving.                           *)
(***************************************************************************)
Uncounted == {v \in Vms : At(v, "count")}
Uncounting == {v \in Vms : At(v, "uncount")}

\* The sets that are counted are finite.
LEMMA FiniteCounts ==
  /\ IsFiniteSet(Allocated) /\ IsFiniteSet(Uncounted) /\ IsFiniteSet(Uncounting)
  /\ Cardinality(Allocated) \in 0 .. Cardinality(Blocks)
  /\ Cardinality(Uncounted) \in Nat
  /\ Cardinality(Uncounting) \in 0 .. Cardinality(Vms)
<1>1. Allocated \in SUBSET Blocks /\ Uncounted \in SUBSET Vms /\ Uncounting \in SUBSET Vms
  BY DEF Allocated, Uncounted, Uncounting
<1>2. IsFiniteSet(Vms) /\ IsFiniteSet(Blocks)
  BY FiniteAssumption
<1>3. /\ IsFiniteSet(Allocated) /\ Cardinality(Allocated) <= Cardinality(Blocks)
      /\ IsFiniteSet(Uncounted)
      /\ IsFiniteSet(Uncounting) /\ Cardinality(Uncounting) <= Cardinality(Vms)
  BY <1>1, <1>2, FS_Subset
<1>4. /\ Cardinality(Allocated) \in Nat /\ Cardinality(Uncounted) \in Nat
      /\ Cardinality(Uncounting) \in Nat
      /\ Cardinality(Blocks) \in Nat /\ Cardinality(Vms) \in Nat
  BY <1>2, <1>3, FS_CardinalityType
<1> QED BY <1>3, <1>4

\* A thread that has taken pages from the system holds them, and they are mapped.
LEMMA HeldPages ==
  ASSUME IInv, NEW v \in Vms, work[v].memory # Null
  PROVE  /\ work[v].memory \in Blocks /\ memory[work[v].memory] \in Page
         /\ memory[work[v].memory] # Unmapped
<1>1. work[v].memory \in Blocks
  BY HeldType DEF IInv, Thread
<1>2. Held(v) = work[v].memory
  BY DEF Held
<1>3. Live(work[v].memory)
  BY <1>1, <1>2 DEF IInv, Exclusive
<1> QED BY <1>1, <1>3 DEF Live, IInv, Types

\* What one step does to the sets and to the counter.
Counted ==
  /\ Allocated' = Allocated /\ Uncounted' = Uncounted /\ Uncounting' = Uncounting
  /\ liveExecutableAllocationCount' = liveExecutableAllocationCount

\* A step of one thread changes the sets of threads only by that thread.
LEMMA ThreadSets ==
  ASSUME NEW v \in Vms, OthersKeep(v)
  PROVE  /\ Uncounted' = IF work'[v].at = "count" THEN Uncounted \cup {v} ELSE Uncounted \ {v}
         /\ Uncounting' = IF work'[v].at = "uncount" THEN Uncounting \cup {v} ELSE Uncounting \ {v}
<1>1. \A w \in Vms \ {v} : work'[w] = work[w]
  BY DEF OthersKeep
<1> QED BY <1>1 DEF Uncounted, Uncounting, At

\* Every step but four neither maps nor counts.
LEMMA QuietCount ==
  ASSUME IInv, NEW v \in Vms, Good(v),
         work[v].at \notin {"count", "uncount"}, work'[v].at \notin {"count", "uncount"},
         Allocated' = Allocated,
         liveExecutableAllocationCount' = liveExecutableAllocationCount
  PROVE  Counted
<1>1. v \notin Uncounted /\ v \notin Uncounting
  BY DEF Uncounted, Uncounting, At
<1>2. Uncounted' = Uncounted \ {v} /\ Uncounting' = Uncounting \ {v}
  BY ThreadSets DEF Good
<1> QED BY <1>1, <1>2 DEF Counted

\* The steps that leave the pages alone.
LEMMA SamePages ==
  ASSUME IInv, NEW v \in Vms,
         \/ \E f \in Fns : Compile(v, f)
         \/ Abandon(v) \/ Lower(v) \/ Optimize(v) \/ Emit(v) \/ CompilerFails(v)
         \/ AllocateFails(v) \/ CreateFails(v)
         \/ ReturnHandle(v) \/ ShareThrows(v) \/ Publish(v) \/ Leave(v)
         \/ Destroy(v) \/ DestroyFunction(v) \/ Destroyed(v)
  PROVE  Counted
<1>1. Good(v)
  BY Stays, CompileGood, CreateFailsGood, ReturnHandleGood, PublishGood, LeaveGood,
     DestroyFunctionGood
<1>2. memory' = memory /\ liveExecutableAllocationCount' = liveExecutableAllocationCount
  BY DEF Compile, Abandon, Lower, Optimize, Emit, CompilerFails, AllocateFails, CreateFails,
         ReturnHandle, ShareThrows, Publish, Leave, Destroy, DestroyFunction, Destroyed, pages
<1>3. Allocated' = Allocated
  BY <1>2 DEF Allocated
<1>4. work[v] \in Thread /\ work \in [Vms -> Thread]
  BY HeldType DEF IInv, Types
<1>5. work[v].at \notin {"count", "uncount"}
  BY DEF Compile, Abandon, Lower, Optimize, Emit, CompilerFails, AllocateFails, CreateFails,
         ReturnHandle, ShareThrows, Publish, Leave, Destroy, DestroyFunction, Destroyed, At
<1>6. work'[v].at \notin {"count", "uncount"}
  <2>1. CASE \/ Abandon(v) \/ Lower(v) \/ Optimize(v) \/ Emit(v) \/ CompilerFails(v)
             \/ AllocateFails(v) \/ ShareThrows(v) \/ Destroy(v) \/ Destroyed(v)
    BY <1>4, <2>1 DEF Abandon, Lower, Optimize, Emit, CompilerFails, AllocateFails, ShareThrows,
                      Destroy, Destroyed, Goto, Thread
  <2>2. CASE \E f \in Fns : Compile(v, f)
    BY <1>4, <2>2 DEF Compile, Idle
  <2>3. CASE ReturnHandle(v) \/ Publish(v)
    BY <1>4, <2>3 DEF ReturnHandle, Publish, Thread
  <2>4. CASE CreateFails(v)
    BY <1>4, <2>4 DEF CreateFails, ReleasedOnFailure, Thread
  <2>5. CASE DestroyFunction(v)
    <3>1. PICK f \in Fns :
            work' = [work EXCEPT ![v].at = "release", ![v].then = "destroy",
                                 ![v].memory = nativeCode[<<v, f>>]]
      BY <2>5 DEF DestroyFunction
    <3> QED BY <1>4, <3>1 DEF Thread
  <2>6. CASE Leave(v)
    BY <1>4, <2>6 DEF Leave, Idle, Thread
  <2> QED BY <2>1, <2>2, <2>3, <2>4, <2>5, <2>6
<1> QED BY <1>1, <1>2, <1>3, <1>5, <1>6, QuietCount

\* The steps that change mapped pages, and those that fail to unmap them.
LEMMA ChangedPages ==
  ASSUME IInv, NEW v \in Vms, Write(v) \/ Protect(v) \/ Flush(v) \/ ReleaseFails(v)
  PROVE  Counted
<1> DEFINE b == work[v].memory
<1>1. Good(v)
  BY FillGood, ReleaseGood
<1>2. work[v] \in Thread /\ work \in [Vms -> Thread] /\ Phase(v)
  BY HeldType DEF IInv, Types
<1>3. work[v].at \in {"write", "protect", "flush", "release"}
  BY DEF Write, Protect, Flush, ReleaseFails, At
<1>4. b # Null
  BY <1>2, <1>3 DEF Phase, Creating
<1>5. b \in Blocks /\ memory[b] # Unmapped
  BY <1>4, HeldPages
<1>6. memory[b] \in Page
  BY <1>4, HeldPages
<1>7. ASSUME NEW page \in Page, memory' = [memory EXCEPT ![b] = page]
      PROVE  Allocated' = Allocated
  <2>1. memory'[b] # Unmapped /\ \A c \in Blocks \ {b} : memory'[c] = memory[c]
    BY <1>5, <1>7, NullAssumption DEF IInv, Types, Unmapped
  <2> QED BY <1>5, <2>1 DEF Allocated
<1>8. Allocated' = Allocated
  <2>1. CASE Write(v)
    <3>1. Function(v) \in Functions
      BY <1>2, <2>1 DEF Write, At, Phase, Creating, Compiling, Function, Functions
    <3>2. [memory[b] EXCEPT !.content = Function(v)] \in Page
      BY <1>6, <3>1 DEF Page
    <3> QED BY <1>7, <2>1, <3>2 DEF Write
  <2>2. CASE Protect(v)
    <3>1. [memory[b] EXCEPT !.access = "rx"] \in Page
      BY <1>6 DEF Page
    <3> QED BY <1>7, <2>2, <3>1 DEF Protect
  <2>3. CASE Flush(v)
    <3>1. [memory[b] EXCEPT !.flushed = TRUE] \in Page
      BY <1>6 DEF Page
    <3> QED BY <1>7, <2>3, <3>1 DEF Flush
  <2>4. CASE ReleaseFails(v)
    <3>1. [memory[b] EXCEPT !.stuck = TRUE] \in Page
      BY <1>6 DEF Page
    <3> QED BY <1>7, <2>4, <3>1 DEF ReleaseFails
  <2> QED BY <2>1, <2>2, <2>3, <2>4
<1>9. liveExecutableAllocationCount' = liveExecutableAllocationCount
  BY DEF Write, Protect, Flush, ReleaseFails, CountedAfterRefusal
<1>10. work'[v].at \notin {"count", "uncount"}
  <2>1. CASE Write(v) \/ Protect(v) \/ Flush(v)
    BY <1>2, <2>1 DEF Write, Protect, Flush, Thread
  <2>2. CASE ReleaseFails(v)
    <3>1. work[v].then \in {"leave", "destroy"}
      BY <1>2, <2>2 DEF ReleaseFails, At, Phase
    <3> QED BY <1>2, <2>2, <3>1 DEF ReleaseFails, Thread
  <2> QED BY <2>1, <2>2
<1> QED BY <1>1, <1>3, <1>8, <1>9, <1>10, QuietCount

-----------------------------------------------------------------------------
(* The invariant.                                                          *)

CountExact ==
  liveExecutableAllocationCount =
    Cardinality(Allocated) - Cardinality(Uncounted) + Cardinality(Uncounting)

LEMMA CountExactIsIt == CountExact <=> LiveCountExact
  BY DEF CountExact, LiveCountExact, Uncounted, Uncounting

\* Mapping a block and taking the thread into account go together.
LEMMA AllocateCounts == ASSUME IInv, CountExact, NEW v \in Vms, Allocate(v) PROVE CountExact'
<1>1. Good(v)
  BY AllocateGood
<1>2. work[v] \in Thread /\ work \in [Vms -> Thread]
  BY HeldType DEF IInv, Types
<1>3. PICK b \in Blocks \ Allocated :
        /\ memory' = [memory EXCEPT ![b] = [access |-> "rw", content |-> Null,
                                             flushed |-> FALSE, stuck |-> FALSE]]
        /\ work' = [work EXCEPT ![v].at = "count", ![v].memory = b]
  BY DEF Allocate
<1>4. [access |-> "rw", content |-> Null, flushed |-> FALSE, stuck |-> FALSE] \in Page
  BY DEF Page
<1>5. Allocated' = Allocated \cup {b}
  <2>1. memory'[b] # Unmapped /\ \A c \in Blocks \ {b} : memory'[c] = memory[c]
    BY <1>3, <1>4, NullAssumption DEF IInv, Types, Unmapped
  <2> QED BY <1>3, <2>1 DEF Allocated
<1>6. work[v].at = "allocate" /\ work'[v].at = "count"
  BY <1>2, <1>3 DEF Allocate, At, Thread
<1>7. Uncounted' = Uncounted \cup {v} /\ v \notin Uncounted
  BY <1>1, <1>6, ThreadSets DEF Good, Uncounted, At
<1>8. Uncounting' = Uncounting
  BY <1>1, <1>6, ThreadSets DEF Good, Uncounting, At
<1>9. /\ Cardinality(Allocated') = Cardinality(Allocated) + 1
      /\ Cardinality(Uncounted') = Cardinality(Uncounted) + 1
  BY <1>3, <1>5, <1>7, FiniteCounts, FS_AddElement
<1>10. liveExecutableAllocationCount' = liveExecutableAllocationCount
  BY DEF Allocate
<1> QED BY <1>8, <1>9, <1>10, FiniteCounts DEF CountExact

\* The thread counts its pages.
LEMMA CountCounts == ASSUME IInv, CountExact, NEW v \in Vms, Count(v) PROVE CountExact'
<1>1. Good(v)
  BY FillGood
<1>2. work[v] \in Thread /\ work \in [Vms -> Thread]
  BY HeldType DEF IInv, Types
<1>3. work[v].at = "count" /\ work'[v].at = "write"
  BY <1>2 DEF Count, At, Thread
<1>4. Allocated' = Allocated
  BY DEF Count, functions, Allocated
<1>5. Uncounted' = Uncounted \ {v} /\ v \in Uncounted
  BY <1>1, <1>3, ThreadSets DEF Good, Uncounted, At
<1>6. Uncounting' = Uncounting
  BY <1>1, <1>3, ThreadSets DEF Good, Uncounting, At
<1>7. Cardinality(Uncounted') = Cardinality(Uncounted) - 1
  BY <1>5, FiniteCounts, FS_RemoveElement
<1>8. liveExecutableAllocationCount' = liveExecutableAllocationCount + 1
  BY DEF Count
<1> QED BY <1>4, <1>6, <1>7, <1>8, FiniteCounts DEF CountExact

\* The system takes the pages back before the thread uncounts them.
LEMMA ReleaseCounts == ASSUME IInv, CountExact, NEW v \in Vms, Release(v) PROVE CountExact'
<1> DEFINE b == work[v].memory
<1>1. Good(v)
  BY ReleaseGood
<1>2. work[v] \in Thread /\ work \in [Vms -> Thread] /\ Phase(v)
  BY HeldType DEF IInv, Types
<1>3. work[v].at = "release" /\ work'[v].at = "uncount"
  BY <1>2 DEF Release, At, Thread
<1>4. b # Null
  BY <1>2, <1>3 DEF Phase
<1>5. b \in Allocated
  BY <1>4, HeldPages DEF Allocated
<1>6. Allocated' = Allocated \ {b}
  <2>1. memory' = [memory EXCEPT ![b] = Unmapped]
    BY DEF Release
  <2>2. memory'[b] = Unmapped /\ \A c \in Blocks \ {b} : memory'[c] = memory[c]
    BY <1>5, <2>1 DEF IInv, Types, Allocated
  <2> QED BY <1>5, <2>2 DEF Allocated
<1>7. Uncounted' = Uncounted
  BY <1>1, <1>3, ThreadSets DEF Good, Uncounted, At
<1>8. Uncounting' = Uncounting \cup {v} /\ v \notin Uncounting
  BY <1>1, <1>3, ThreadSets DEF Good, Uncounting, At
<1>9. /\ Cardinality(Allocated') = Cardinality(Allocated) - 1
      /\ Cardinality(Uncounting') = Cardinality(Uncounting) + 1
  BY <1>5, <1>6, <1>8, FiniteCounts, FS_AddElement, FS_RemoveElement
<1>10. liveExecutableAllocationCount' = liveExecutableAllocationCount
  BY DEF Release
<1> QED BY <1>7, <1>9, <1>10, FiniteCounts DEF CountExact

\* The thread uncounts the pages that are gone.
LEMMA UncountCounts == ASSUME IInv, CountExact, NEW v \in Vms, Uncount(v) PROVE CountExact'
<1>1. Good(v)
  BY Stays
<1>2. work[v] \in Thread /\ work \in [Vms -> Thread] /\ Phase(v)
  BY HeldType DEF IInv, Types
<1>3. work[v].at = "uncount" /\ work'[v].at \in {"leave", "destroy"}
  <2>1. work[v].at = "uncount" /\ work[v].then \in {"leave", "destroy"}
    BY <1>2 DEF Uncount, At, Phase
  <2> QED BY <1>2, <2>1 DEF Uncount, Goto, Thread
<1>4. Allocated' = Allocated
  BY DEF Uncount, Allocated
<1>5. Uncounted' = Uncounted
  BY <1>1, <1>3, ThreadSets DEF Good, Uncounted, At
<1>6. Uncounting' = Uncounting \ {v} /\ v \in Uncounting
  BY <1>1, <1>3, ThreadSets DEF Good, Uncounting, At
<1>7. Cardinality(Uncounting') = Cardinality(Uncounting) - 1
  BY <1>6, FiniteCounts, FS_RemoveElement
<1>8. liveExecutableAllocationCount' = liveExecutableAllocationCount - 1
  BY DEF Uncount
<1> QED BY <1>4, <1>5, <1>7, <1>8, FiniteCounts DEF CountExact

\* Every step keeps the counter exact.
LEMMA StepCounts == ASSUME IInv, CountExact, NEW v \in Vms, Step(v) PROVE CountExact'
<1>1. CASE Counted
  BY <1>1 DEF Counted, CountExact
<1> QED
  BY <1>1, SamePages, ChangedPages, AllocateCounts, CountCounts, ReleaseCounts, UncountCounts
  DEF Step

\* A new process has no pages and no thread that is about to count any.
LEMMA InitCounts == Init => CountExact
<1> SUFFICES ASSUME Init PROVE CountExact
  OBVIOUS
<1>1. Allocated = {}
  BY DEF Init, Allocated
<1>2. \A v \in Vms : work[v].at = "idle"
  BY DEF Init, Idle
<1>3. Uncounted = {} /\ Uncounting = {}
  BY <1>2 DEF Uncounted, Uncounting, At
<1> QED BY <1>1, <1>3, FS_EmptySet DEF Init, CountExact

\* The counter behind liveExecutableAllocationCountForTesting is the number of
\* mapped blocks, but for the threads between the two steps of code_buffer.cpp.
THEOREM LiveCountCorrect == Spec => []LiveCountExact
<1>1. IInv /\ CountExact /\ [Next]_vars => CountExact'
  <2>1. CASE UNCHANGED vars
    BY <2>1 DEF vars, CountExact, Allocated, Uncounted, Uncounting, At
  <2>2. ASSUME IInv, CountExact, NEW v \in Vms, Step(v) PROVE CountExact'
    BY <2>2, StepCounts
  <2> QED BY <2>1, <2>2 DEF Next
<1> QED BY Invariance, InitCounts, CountExactIsIt, <1>1, PTL DEF Spec

-----------------------------------------------------------------------------
(* The counter never leaves its range.                                     *)

\* A thread that has not counted its pages yet holds a block of its own.
LEMMA UncountedAreMapped == IInv => Cardinality(Uncounted) <= Cardinality(Allocated)
<1> SUFFICES ASSUME IInv PROVE Cardinality(Uncounted) <= Cardinality(Allocated)
  OBVIOUS
<1> DEFINE block == [v \in Uncounted |-> work[v].memory]
<1>1. ASSUME NEW v \in Uncounted
      PROVE  v \in Vms /\ work[v].memory # Null /\ Held(v) = work[v].memory
  BY DEF Uncounted, At, IInv, Phase, Creating, Held
<1>2. block \in [Uncounted -> Allocated]
  BY <1>1, HeldPages DEF Allocated
<1>3. ASSUME NEW v \in Uncounted, NEW w \in Uncounted, block[v] = block[w]
      PROVE  v = w
  BY <1>1, <1>3 DEF IInv, Exclusive
<1>4. block \in Injection(Uncounted, Allocated)
  BY <1>2, <1>3 DEF Injection, IsInjective
<1> QED BY <1>4, FiniteCounts, FS_Injection

\* The state takes the values of its type; above all, the counter of the
\* process is never negative although it changes after the system call.
THEOREM PublicationTypeCorrect == Spec => []TypeOK
<1>1. IInv /\ LiveCountExact => TypeOK
  <2> SUFFICES ASSUME IInv, LiveCountExact PROVE TypeOK
    OBVIOUS
  <2>1. liveExecutableAllocationCount =
          Cardinality(Allocated) - Cardinality(Uncounted) + Cardinality(Uncounting)
    BY CountExactIsIt DEF CountExact
  <2>2. IsFiniteSet(Vms) /\ IsFiniteSet(Blocks)
    BY FiniteAssumption
  <2>3. Cardinality(Vms) \in Nat /\ Cardinality(Blocks) \in Nat
    BY <2>2, FS_CardinalityType
  <2>4. liveExecutableAllocationCount \in 0 .. Cardinality(Blocks) + Cardinality(Vms)
    BY <2>1, <2>3, FiniteCounts, UncountedAreMapped
  <2> QED BY <2>4 DEF IInv, Types, TypeOK, Thread
<1> QED BY Invariance, LiveCountCorrect, <1>1, PTL
=============================================================================
