------------------------------ MODULE SharedPtr ------------------------------
(***************************************************************************)
(* Shared<T> (shared.h): reference counted pointers, used by threads on    *)
(* different cores.  A variable of type Shared belongs to one thread at a  *)
(* time (a local, a slot of its process, a member of a TCB that is handed  *)
(* to a core) or is a global that is only copied from once it has been     *)
(* set.  What variables share are the FatPointers and the objects.         *)
(***************************************************************************)
EXTENDS Integers, FiniteSets

CONSTANTS
  Threads,
  Vars,      \* variables of type Shared
  Fats,      \* the blocks of the heap that hold a FatPointer and its counter
  Objects,   \* the blocks that hold an object of type T
  Dead,      \* what a variable holds before construction, after destruction
  None       \* nullptr

ASSUME SharedPtrAssumption ==
  /\ Dead \notin Fats /\ None \notin Fats /\ None \notin Objects /\ None \notin Threads
  /\ Dead # None
  /\ None \notin Vars /\ IsFiniteSet(Vars)

VARIABLES
  owner,   \* owner[v]: the thread that uses v; None for a global
  var,     \* var[v]: fatPointer of v, or Dead
  fat,     \* fat[f]: the FatPointer in block f, with its counter
  live,    \* the objects that exist
  pc,      \* pc[t]: where t is in a member function of Shared
  job      \* job[t]: its arguments, and the FatPointer it lets go of

vars == <<owner, var, fat, live, pc, job>>

Free == [used |-> FALSE, pointer |-> None, counter |-> 0]
NoJob == [op |-> "none", v |-> None, rhs |-> None, old |-> None]

Init ==
  /\ owner \in [Vars -> Threads]
  /\ var = [v \in Vars |-> Dead]
  /\ fat = [f \in Fats |-> Free]
  /\ live = {}
  /\ pc = [t \in Threads |-> "idle"]
  /\ job = [t \in Threads |-> NoJob]

Goto(t, point) == pc' = [pc EXCEPT ![t] = point]
Return(t) == Goto(t, "idle") /\ job' = [job EXCEPT ![t] = NoJob]
Mine(t, v) == pc[t] = "idle" /\ owner[v] = t
Built(v) == var[v] \notin {Dead, None}
Readable(t, v) == owner[v] \in {t, None} /\ Built(v)

(* new FatPointer{o, new Atomic<int>(0)} and incrementCounter()            *)
NewFat(v, o) ==
  \E f \in {g \in Fats : ~fat[g].used} :
    /\ var' = [var EXCEPT ![v] = f]
    /\ fat' = [fat EXCEPT ![f] = [used |-> TRUE, pointer |-> o,
                                  counter |-> IF o = None THEN 0 ELSE 1]]

(* incrementCounter().  Mutated form: the copy is not counted.             *)
IncrementNot(f) == UNCHANGED fat
Increment(f) ==
  fat' = IF fat[f].pointer = None THEN fat ELSE [fat EXCEPT ![f].counter = @ + 1]

(* The condition of decrementCounter(): the counter is decremented at all, *)
(* and it was the last reference.  Mutated form: fetch_add for add_fetch.  *)
Counted(f) == f \in Fats /\ fat[f].pointer # None
LastOfTwo(f) == Counted(f) /\ fat[f].counter = 0
Last(f) == Counted(f) /\ fat[f].counter = 1
Decrement(f) ==
  fat' = IF Counted(f) THEN [fat EXCEPT ![f].counter = @ - 1] ELSE fat

-----------------------------------------------------------------------------
(* The constructor from a pointer, as in make, and Shared(): o = None.     *)
MakeShared(t, v, o) ==
  /\ Mine(t, v) /\ var[v] = Dead
  /\ NewFat(v, o)
  /\ live' = live \union ({o} \ {None})
  /\ UNCHANGED <<owner, pc, job>>

(* Shared(Shared&): the pointer is copied, then counted.                   *)
CopyConstruct(t, v, w) ==
  /\ Mine(t, v) /\ var[v] = Dead /\ Readable(t, w)
  /\ var' = [var EXCEPT ![v] = var[w]]
  /\ job' = [job EXCEPT ![t] = [NoJob EXCEPT !.v = v]]
  /\ Goto(t, "count")
  /\ UNCHANGED <<owner, fat, live>>

(* Shared(Shared&&)                                                        *)
MoveConstruct(t, v, w) ==
  /\ Mine(t, v) /\ var[v] = Dead
  /\ Mine(t, w) /\ Built(w)
  /\ var' = [var EXCEPT ![v] = var[w], ![w] = None]
  /\ UNCHANGED <<owner, fat, live, pc, job>>

(* ~Shared()                                                               *)
Destroy(t, v) ==
  /\ Mine(t, v) /\ var[v] # Dead
  /\ Decrement(var[v])
  /\ var' = [var EXCEPT ![v] = Dead]
  /\ \/ /\ Last(var[v])
        /\ Goto(t, "delete")
        /\ job' = [job EXCEPT ![t] = [NoJob EXCEPT !.old = var[v]]]
     \/ ~Last(var[v]) /\ UNCHANGED <<pc, job>>
  /\ UNCHANGED <<owner, live>>

(* The assignment operators begin alike: decrementCounter() on the old     *)
(* FatPointer, which v still holds until Attach.                           *)
BeginAssign(t, v, op, rhs) ==
  /\ Mine(t, v) /\ var[v] # Dead
  /\ Decrement(var[v])
  /\ job' = [job EXCEPT ![t] = [op |-> op, v |-> v, rhs |-> rhs, old |-> var[v]]]
  /\ Goto(t, IF Last(var[v]) THEN "delete" ELSE "attach")
  /\ UNCHANGED <<owner, var>>

(* operator= of a pointer: nullptr, or an object that nobody else has.     *)
AssignPointer(t, v, o) ==
  /\ Built(v) /\ fat[var[v]].pointer # o
  /\ BeginAssign(t, v, "pointer", o)
  /\ live' = live \union ({o} \ {None})

(* operator=(Shared&)                                                      *)
AssignCopy(t, v, w) ==
  /\ Readable(t, w) /\ var[v] # var[w]
  /\ BeginAssign(t, v, "copy", w)
  /\ UNCHANGED live

(* operator=(Shared&&)                                                     *)
AssignMove(t, v, w) ==
  /\ Mine(t, w) /\ var[w] # Dead
  /\ BeginAssign(t, v, "move", w)
  /\ UNCHANGED live

-----------------------------------------------------------------------------
(* delete fatPointer->pointer, and then the counter and the FatPointer.    *)
DeleteObject(t) ==
  /\ pc[t] = "delete"
  /\ live' = live \ {fat[job[t].old].pointer}
  /\ Goto(t, "free")
  /\ UNCHANGED <<owner, var, fat, job>>

DeleteFat(t) ==
  /\ pc[t] = "free"
  /\ fat' = [fat EXCEPT ![job[t].old] = Free]
  /\ IF job[t].op = "none" THEN Return(t) ELSE Goto(t, "attach") /\ UNCHANGED job
  /\ UNCHANGED <<owner, var, live>>

(* The second half of the assignment operators.                            *)
Attach(t) ==
  /\ pc[t] = "attach"
  /\ LET v == job[t].v  rhs == job[t].rhs IN
       \/ /\ job[t].op = "pointer"
          /\ NewFat(v, rhs)
          /\ Return(t)
       \/ /\ job[t].op = "copy"
          /\ var' = [var EXCEPT ![v] = var[rhs]]
          /\ Goto(t, "count")
          /\ UNCHANGED <<fat, job>>
       \/ /\ job[t].op = "move"
          /\ var' = [var EXCEPT ![v] = var[rhs], ![rhs] = None]
          /\ Return(t)
          /\ UNCHANGED fat
  /\ UNCHANGED <<owner, live>>

CountCopy(t) ==
  /\ pc[t] = "count"
  /\ Increment(var[job[t].v])
  /\ Return(t)
  /\ UNCHANGED <<owner, var, live>>

(* A variable goes to another thread with the object it is a member of,    *)
(* or becomes a global that nobody changes any more (owner None).          *)
Hand(t, v, to) ==
  /\ Mine(t, v) /\ Built(v)
  /\ owner' = [owner EXCEPT ![v] = to]
  /\ UNCHANGED <<var, fat, live, pc, job>>

Next ==
  \E t \in Threads :
    \/ DeleteObject(t) \/ DeleteFat(t) \/ Attach(t) \/ CountCopy(t)
    \/ \E v \in Vars :
         \/ \E o \in (Objects \ live) \union {None} : MakeShared(t, v, o) \/ AssignPointer(t, v, o)
         \/ \E w \in Vars : \/ CopyConstruct(t, v, w) \/ MoveConstruct(t, v, w)
                            \/ AssignCopy(t, v, w) \/ AssignMove(t, v, w)
         \/ Destroy(t, v)
         \/ \E to \in (Threads \ {t}) \union {None} : Hand(t, v, to)

Spec == Init /\ [][Next]_vars

-----------------------------------------------------------------------------
(* The variables whose reference to f is counted: not the one that t has   *)
(* copied and not yet counted, nor the one it has already let go of.       *)
Out(v) == \E t \in Threads : job[t].v = v /\ pc[t] # "idle"
Refs(f) == {v \in Vars : var[v] = f /\ ~Out(v)}

(* The counter of a FatPointer with an object is the number of variables   *)
(* that refer to it, whatever copies, assignments and destructions run on  *)
(* other cores.                                                            *)
CountExact ==
  \A f \in Fats : fat[f].used /\ fat[f].pointer # None => fat[f].counter = Cardinality(Refs(f))

(* A variable that may be dereferenced or copied has a FatPointer that     *)
(* exists, with an object that exists; an object is deleted by one thread, *)
(* once, and when nothing refers to it any more it is deleted.  (What does *)
(* leak are FatPointers without an object: decrementCounter() never        *)
(* deletes them.)                                                          *)
DeletedOnce ==
  /\ \A f \in Fats : Refs(f) # {} =>
       fat[f].used /\ (fat[f].pointer # None => fat[f].pointer \in live)
  /\ \A t \in Threads : pc[t] = "delete" =>
       /\ fat[job[t].old].pointer \in live
       /\ \A u \in Threads \ {t} :
            pc[u] \in {"delete", "free"} => job[u].old # job[t].old
  /\ \A f \in Fats :
       fat[f].used /\ (\A v \in Vars : var[v] # f)
         => \/ fat[f].pointer = None
            \/ \E t \in Threads : pc[t] \in {"delete", "free"} /\ job[t].old = f

-----------------------------------------------------------------------------
(* Why: what holds between the steps of the member functions.              *)
Jobs == [op : {"none", "pointer", "copy", "move"}, v : Vars \union {None},
         rhs : Vars \union Objects \union {None}, old : Fats \union {None}]

TypeOK ==
  /\ owner \in [Vars -> Threads \union {None}]
  /\ var \in [Vars -> Fats \union {Dead, None}]
  /\ fat \in [Fats -> [used : BOOLEAN, pointer : Objects \union {None}, counter : Int]]
  /\ live \in SUBSET Objects
  /\ pc \in [Threads -> {"idle", "count", "delete", "free", "attach"}]
  /\ job \in [Threads -> Jobs]

Deletes(t) == pc[t] \in {"delete", "free"}
Assigns(t) == pc[t] \in {"delete", "free", "attach"} /\ job[t].op # "none"

(* Threads work on variables of their own; what they copy from is theirs   *)
(* or global, and has a counted reference until they are done.             *)
JobOK(t) ==
  /\ pc[t] \in {"count", "attach"} => job[t].v \in Vars
  /\ pc[t] = "attach" => job[t].op # "none"
  /\ pc[t] # "idle" /\ job[t].v \in Vars => owner[job[t].v] = t /\ var[job[t].v] # Dead
  /\ Deletes(t) /\ job[t].op = "none" => job[t].v = None
  /\ pc[t] = "count" =>
       /\ var[job[t].v] \in Fats
       /\ \E w \in Vars : var[w] = var[job[t].v] /\ ~Out(w) /\ owner[w] \in {t, None}
  /\ Assigns(t) =>
       /\ job[t].v \in Vars
       /\ job[t].op = "pointer" => job[t].rhs \in Objects \union {None}
       /\ job[t].op = "copy" =>
            /\ job[t].rhs \in Vars /\ owner[job[t].rhs] \in {t, None}
            /\ var[job[t].rhs] \in Fats /\ ~Out(job[t].rhs)
       /\ job[t].op = "move" =>
            job[t].rhs \in Vars /\ owner[job[t].rhs] = t /\ var[job[t].rhs] # Dead

JobInv == \A t \in Threads : JobOK(t)

(* Counters are exact, and whoever brings one to zero deletes.             *)
FatInv ==
  \A f \in Fats :
    /\ Refs(f) # {} => fat[f].used
    /\ fat[f].used /\ fat[f].pointer # None =>
         /\ fat[f].counter = Cardinality(Refs(f))
         /\ Refs(f) = {} => \E t \in Threads : Deletes(t) /\ job[t].old = f

DeleteInv ==
  /\ \A t \in Threads : Deletes(t) => job[t].old \in Fats
  /\ \A f \in Fats, t \in Threads : Deletes(t) /\ job[t].old = f =>
       /\ Refs(f) = {} /\ fat[f].used /\ fat[f].pointer # None
       /\ \A u \in Threads \ {t} : Deletes(u) => job[u].old # f

(* An object is with one FatPointer, or on its way into one.               *)
Holds(f) ==
  /\ fat[f].used /\ fat[f].pointer # None
  /\ \A t \in Threads : pc[t] = "free" => job[t].old # f
Brings(t) == Assigns(t) /\ job[t].op = "pointer" /\ job[t].rhs # None
ObjectInv ==
  /\ \A f \in Fats : Holds(f) =>
       /\ fat[f].pointer \in live
       /\ \A g \in Fats \ {f} : Holds(g) => fat[g].pointer # fat[f].pointer
  /\ \A t \in Threads : Brings(t) =>
       /\ job[t].rhs \in live
       /\ \A f \in Fats : Holds(f) => fat[f].pointer # job[t].rhs
       /\ \A u \in Threads \ {t} : Brings(u) => job[u].rhs # job[t].rhs

(* Counters, deletions and objects, with what threads are in the middle    *)
(* of, as one inductive invariant.                                         *)
SharedInv == TypeOK /\ JobInv /\ FatInv /\ DeleteInv /\ ObjectInv

=============================================================================
