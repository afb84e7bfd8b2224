-------------------------- MODULE SharedPtrProofs --------------------------
(***************************************************************************)
(* Proofs about SharedPtr, for any number of threads, variables, blocks    *)
(* and objects: SharedInv is inductive, so that counters are exact and     *)
(* every object is deleted once.                                           *)
(***************************************************************************)
EXTENDS SharedPtr, FiniteSetTheorems, TLAPS

-----------------------------------------------------------------------------
LEMMA RefsCount ==
  ASSUME NEW S \in SUBSET Vars
  PROVE  /\ IsFiniteSet(S) /\ Cardinality(S) \in Nat
         /\ Cardinality(S) = 0 <=> S = {}
<1>1. IsFiniteSet(S)
  BY SharedPtrAssumption, FS_Subset
<1> QED BY <1>1, FS_CardinalityType, FS_EmptySet

LEMMA RefsAdd ==
  ASSUME NEW S \in SUBSET Vars, NEW v \in Vars \ S
  PROVE  Cardinality(S \union {v}) = Cardinality(S) + 1
BY RefsCount, FS_AddElement

LEMMA RefsRemove ==
  ASSUME NEW S \in SUBSET Vars, NEW v \in S
  PROVE  /\ Cardinality(S \ {v}) = Cardinality(S) - 1
         /\ Cardinality(S) = 1 <=> S \ {v} = {}
<1>1. Cardinality(S \ {v}) = Cardinality(S) - 1
  BY RefsCount, FS_RemoveElement
<1>2. /\ Cardinality(S \ {v}) = 0 <=> S \ {v} = {}
      /\ Cardinality(S) \in Nat
  <2>1. S \ {v} \in SUBSET Vars
    OBVIOUS
  <2> QED BY <2>1, RefsCount
<1> QED BY <1>1, <1>2

LEMMA RefsSwap ==
  ASSUME NEW S \in SUBSET Vars, NEW v \in Vars \ S, NEW w \in S
  PROVE  Cardinality((S \ {w}) \union {v}) = Cardinality(S)
<1>1. S \ {w} \in SUBSET Vars /\ v \in Vars \ (S \ {w})
  OBVIOUS
<1>2. Cardinality((S \ {w}) \union {v}) = Cardinality(S \ {w}) + 1
  BY <1>1, RefsAdd
<1>3. Cardinality(S \ {w}) = Cardinality(S) - 1 /\ Cardinality(S) \in Nat
  BY RefsRemove, RefsCount
<1> QED BY <1>2, <1>3

-----------------------------------------------------------------------------
(* Nobody else works on a variable of t.                                   *)
LEMMA OutOwner ==
  ASSUME JobInv, NEW v \in Vars, NEW t \in Threads, pc[t] # "idle", job[t].v = v
  PROVE  owner[v] = t /\ Out(v)
BY DEF JobInv, JobOK, Out

LEMMA MineFree ==
  ASSUME JobInv, NEW t \in Threads, NEW v \in Vars, Mine(t, v)
  PROVE  ~Out(v)
BY DEF Mine, JobInv, JobOK, Out

LEMMA OwnFree ==
  ASSUME JobInv, NEW t \in Threads, NEW v \in Vars, owner[v] \in {t, None}, job[t].v # v
  PROVE  ~Out(v)
BY SharedPtrAssumption DEF JobInv, JobOK, Out

-----------------------------------------------------------------------------
(* A step of t leaves the variables of the others and the globals alone;   *)
(* so what the others are doing goes on as before.                         *)
LEMMA OthersKept ==
  ASSUME SharedInv, NEW t \in Threads,
         \A u \in Threads \ {t} : pc'[u] = pc[u] /\ job'[u] = job[u],
         \A w \in Vars : owner[w] # t => var'[w] = var[w] /\ owner'[w] = owner[w],
         pc'[t] # "idle" /\ job'[t].v \in Vars => owner[job'[t].v] = t
  PROVE  /\ \A w \in Vars : owner[w] # t => (Out(w)' <=> Out(w))
         /\ \A u \in Threads \ {t} : JobOK(u)'
<1>1. ASSUME NEW w \in Vars, owner[w] # t PROVE Out(w)' <=> Out(w)
  <2>1. /\ pc[t] # "idle" => job[t].v # w
        /\ pc'[t] # "idle" => job'[t].v # w
    BY <1>1 DEF SharedInv, JobInv, JobOK
  <2> QED BY <2>1 DEF Out
<1>2. ASSUME NEW u \in Threads \ {t} PROVE JobOK(u)'
  <2>1. JobOK(u) /\ pc'[u] = pc[u] /\ job'[u] = job[u] /\ None # t
    BY SharedPtrAssumption DEF SharedInv, JobInv
  <2>2. (Deletes(u)' <=> Deletes(u)) /\ (Assigns(u)' <=> Assigns(u))
    BY <2>1 DEF Deletes, Assigns
  <2>3. \A w \in Vars : owner[w] \in {u, None} =>
          var'[w] = var[w] /\ owner'[w] = owner[w] /\ (Out(w)' <=> Out(w))
    BY <1>1, <2>1
  <2>4. pc[u] # "idle" /\ job[u].v \in Vars =>
          owner'[job[u].v] = u /\ var'[job[u].v] = var[job[u].v] /\ var[job[u].v] # Dead
    BY <2>1, <2>3 DEF JobOK
  <2>5. pc[u] = "count" =>
          /\ job[u].v \in Vars /\ var'[job[u].v] \in Fats
          /\ \E w \in Vars : var'[w] = var'[job[u].v] /\ ~Out(w)' /\ owner'[w] \in {u, None}
    BY <2>1, <2>3, <2>4 DEF JobOK
  <2>6. Assigns(u) =>
          /\ job[u].v \in Vars
          /\ job[u].op = "pointer" => job[u].rhs \in Objects \union {None}
          /\ job[u].op = "copy" =>
               /\ job[u].rhs \in Vars /\ owner'[job[u].rhs] \in {u, None}
               /\ var'[job[u].rhs] \in Fats /\ ~Out(job[u].rhs)'
          /\ job[u].op = "move" =>
               job[u].rhs \in Vars /\ owner'[job[u].rhs] = u /\ var'[job[u].rhs] # Dead
    BY <2>1, <2>3 DEF JobOK
  <2> QED BY <2>1, <2>2, <2>4, <2>5, <2>6 DEF JobOK
<1> QED BY <1>1, <1>2

(* A step that changes no FatPointer and as many references as before.     *)
LEMMA FatsKept ==
  ASSUME SharedInv, NEW t \in Threads, fat' = fat,
         \A u \in Threads \ {t} : pc'[u] = pc[u] /\ job'[u] = job[u],
         ~Deletes(t), ~Deletes(t)',
         \A f \in Fats : /\ Cardinality(Refs(f)') = Cardinality(Refs(f))
                         /\ Refs(f)' = {} <=> Refs(f) = {}
  PROVE  FatInv' /\ DeleteInv'
<1>1. \A u \in Threads : /\ Deletes(u)' <=> Deletes(u)
                         /\ Deletes(u) => job'[u] = job[u]
  BY DEF Deletes
<1>2. FatInv'
  <2> SUFFICES ASSUME NEW f \in Fats
               PROVE  /\ Refs(f)' # {} => fat'[f].used
                      /\ fat'[f].used /\ fat'[f].pointer # None =>
                           /\ fat'[f].counter = Cardinality(Refs(f)')
                           /\ Refs(f)' = {} => \E u \in Threads : Deletes(u)' /\ job'[u].old = f
    BY DEF FatInv
  <2> QED BY <1>1 DEF SharedInv, FatInv
<1>3. DeleteInv'
  <2> SUFFICES /\ \A u \in Threads : Deletes(u)' => job'[u].old \in Fats
               /\ \A f \in Fats, u \in Threads : Deletes(u)' /\ job'[u].old = f =>
                    /\ Refs(f)' = {} /\ fat'[f].used /\ fat'[f].pointer # None
                    /\ \A x \in Threads \ {u} : Deletes(x)' => job'[x].old # f
    BY DEF DeleteInv
  <2> QED BY <1>1 DEF SharedInv, DeleteInv
<1> QED BY <1>2, <1>3

(* A step that moves no object.                                            *)
LEMMA ObjectsKept ==
  ASSUME SharedInv, NEW t \in Threads, live' = live,
         \A f \in Fats : fat'[f].used = fat[f].used /\ fat'[f].pointer = fat[f].pointer,
         \A u \in Threads \ {t} : pc'[u] = pc[u] /\ job'[u] = job[u],
         pc[t] # "free", pc'[t] # "free",
         Brings(t)' => Brings(t) /\ job'[t].rhs = job[t].rhs
  PROVE  ObjectInv'
<1>1. \A f \in Fats : Holds(f)' <=> Holds(f)
  BY DEF Holds
<1>2. \A u \in Threads : Brings(u)' => Brings(u) /\ job'[u].rhs = job[u].rhs
  BY DEF Brings, Assigns
<1> QED BY <1>1, <1>2 DEF SharedInv, ObjectInv

(* t goes on with job j, and the others with theirs.                       *)
LEMMA Moves ==
  ASSUME TypeOK, NEW t \in Threads, NEW j \in Jobs,
         NEW p \in {"idle", "count", "delete", "free", "attach"},
         Goto(t, p), job' = [job EXCEPT ![t] = j]
  PROVE  /\ pc' \in [Threads -> {"idle", "count", "delete", "free", "attach"}]
         /\ job' \in [Threads -> Jobs] /\ pc'[t] = p /\ job'[t] = j
         /\ \A u \in Threads \ {t} : pc'[u] = pc[u] /\ job'[u] = job[u]
BY DEF TypeOK, Goto

LEMMA NoJobs ==
  /\ NoJob \in Jobs /\ NoJob.v = None /\ NoJob.op = "none"
  /\ \A v \in Vars : LET j == [NoJob EXCEPT !.v = v] IN
       j \in Jobs /\ j.v = v /\ j.op = "none"
  /\ \A f \in Fats : LET j == [NoJob EXCEPT !.old = f] IN
       j \in Jobs /\ j.v = None /\ j.op = "none" /\ j.old = f
BY DEF NoJob, Jobs

(* Which variables are worked on, when t begins, goes on and ends.         *)
LEMMA OutBegins ==
  ASSUME NEW t \in Threads, pc[t] = "idle",
         \A u \in Threads \ {t} : pc'[u] = pc[u] /\ job'[u] = job[u]
  PROVE  \A w \in Vars : Out(w)' <=> Out(w) \/ (pc'[t] # "idle" /\ job'[t].v = w)
BY DEF Out

LEMMA OutGoesOn ==
  ASSUME NEW t \in Threads, pc[t] # "idle", pc'[t] # "idle", job'[t].v = job[t].v,
         \A u \in Threads \ {t} : pc'[u] = pc[u] /\ job'[u] = job[u]
  PROVE  \A w \in Vars : Out(w)' <=> Out(w)
BY DEF Out

LEMMA OutEnds ==
  ASSUME SharedInv, NEW t \in Threads, pc[t] # "idle", pc'[t] = "idle",
         \A u \in Threads \ {t} : pc'[u] = pc[u] /\ job'[u] = job[u]
  PROVE  \A w \in Vars : Out(w)' <=> Out(w) /\ w # job[t].v
<1>1. \A u \in Threads \ {t} : pc[u] # "idle" => job[u].v # job[t].v \/ job[u].v \notin Vars
  BY DEF SharedInv, JobInv, JobOK
<1> QED BY <1>1 DEF Out

-----------------------------------------------------------------------------
(* The steps that neither count nor delete.                                *)
LEMMA HandKeeps ==
  ASSUME SharedInv, NEW t \in Threads, NEW v \in Vars, NEW to \in Threads \union {None},
         Hand(t, v, to)
  PROVE  SharedInv'
<1>1. /\ pc[t] = "idle" /\ owner[v] = t /\ owner' = [owner EXCEPT ![v] = to]
      /\ UNCHANGED <<var, fat, live, pc, job>>
  BY DEF Hand, Mine
<1>2. TypeOK'
  BY <1>1 DEF SharedInv, TypeOK
<1>3. \A w \in Vars : owner[w] # t => owner'[w] = owner[w]
  BY <1>1 DEF SharedInv, TypeOK
<1>4. \A u \in Threads \ {t} : JobOK(u)'
  BY <1>1, <1>3, OthersKept
<1>5. JobOK(t)'
  BY <1>1 DEF JobOK, Deletes, Assigns
<1>6. \A f : Refs(f)' = Refs(f)
  BY <1>1 DEF Refs, Out
<1>7. FatInv' /\ DeleteInv'
  BY <1>1, <1>6, FatsKept DEF Deletes
<1>8. ObjectInv'
  BY <1>1, ObjectsKept DEF Brings, Assigns
<1> QED BY <1>2, <1>4, <1>5, <1>7, <1>8 DEF SharedInv, JobInv

LEMMA CopyConstructKeeps ==
  ASSUME SharedInv, NEW t \in Threads, NEW v \in Vars, NEW w \in Vars, CopyConstruct(t, v, w)
  PROVE  SharedInv'
<1> DEFINE j == [NoJob EXCEPT !.v = v]
<1>1. /\ pc[t] = "idle" /\ owner[v] = t /\ var[v] = Dead /\ owner[w] \in {t, None}
      /\ var[w] \notin {Dead, None} /\ var' = [var EXCEPT ![v] = var[w]]
      /\ job' = [job EXCEPT ![t] = j] /\ Goto(t, "count") /\ UNCHANGED <<owner, fat, live>>
  BY DEF CopyConstruct, Mine, Readable, Built
<1>2. j \in Jobs /\ j.v = v
  BY NoJobs
<1> HIDE DEF j
<1>3. /\ pc' \in [Threads -> {"idle", "count", "delete", "free", "attach"}]
      /\ job' \in [Threads -> Jobs] /\ pc'[t] = "count" /\ job'[t] = j
      /\ \A u \in Threads \ {t} : pc'[u] = pc[u] /\ job'[u] = job[u]
  BY <1>1, <1>2, Moves DEF SharedInv
<1>4. /\ var[w] \in Fats /\ var' \in [Vars -> Fats \union {Dead, None}] /\ var'[v] = var[w]
      /\ \A x \in Vars \ {v} : var'[x] = var[x]
  BY <1>1 DEF SharedInv, TypeOK
<1>5. TypeOK'
  BY <1>1, <1>3, <1>4 DEF SharedInv, TypeOK
<1>6. \A x \in Vars : Out(x)' <=> Out(x) \/ x = v
  BY <1>1, <1>2, <1>3, OutBegins
<1>7. \A u \in Threads \ {t} : JobOK(u)'
  BY <1>1, <1>2, <1>3, <1>4, OthersKept
<1>8. JobOK(t)'
  <2>1. w # v /\ ~Out(w)
    BY <1>1, SharedPtrAssumption DEF SharedInv, JobInv, JobOK, Out
  <2>2. var'[w] = var'[v] /\ ~Out(w)' /\ owner'[w] \in {t, None}
    BY <1>1, <1>4, <1>6, <2>1
  <2>3. owner'[v] = t /\ var'[v] \in Fats /\ var'[v] # Dead
    BY <1>1, <1>4
  <2> QED BY <1>2, <1>3, <2>2, <2>3 DEF JobOK, Deletes, Assigns
<1>9. \A f \in Fats : Refs(f)' = Refs(f)
  BY <1>1, <1>4, <1>6, SharedPtrAssumption DEF Refs
<1>10. FatInv' /\ DeleteInv'
  BY <1>1, <1>3, <1>9, FatsKept DEF Deletes
<1>11. ObjectInv'
  BY <1>1, <1>3, ObjectsKept DEF Brings, Assigns
<1> QED BY <1>5, <1>7, <1>8, <1>10, <1>11 DEF SharedInv, JobInv

LEMMA MoveConstructKeeps ==
  ASSUME SharedInv, NEW t \in Threads, NEW v \in Vars, NEW w \in Vars, MoveConstruct(t, v, w)
  PROVE  SharedInv'
<1>1. /\ pc[t] = "idle" /\ owner[v] = t /\ var[v] = Dead /\ owner[w] = t
      /\ var[w] \notin {Dead, None} /\ var' = [var EXCEPT ![v] = var[w], ![w] = None]
      /\ UNCHANGED <<owner, fat, live, pc, job>>
  BY DEF MoveConstruct, Mine, Built
<1>2. /\ v # w /\ var[w] \in Fats /\ var' \in [Vars -> Fats \union {Dead, None}]
      /\ var'[v] = var[w] /\ var'[w] = None
      /\ \A x \in Vars \ {v, w} : var'[x] = var[x]
  BY <1>1 DEF SharedInv, TypeOK
<1>3. TypeOK'
  BY <1>1, <1>2 DEF SharedInv, TypeOK
<1>4. \A u \in Threads \ {t} : JobOK(u)'
  BY <1>1, <1>2, OthersKept
<1>5. JobOK(t)'
  BY <1>1 DEF JobOK, Deletes, Assigns
<1>6. /\ ~Out(v) /\ ~Out(w)
      /\ \A x \in Vars : Out(x)' <=> Out(x)
  BY <1>1, MineFree DEF SharedInv, Mine, Out
<1>7. \A f \in Fats : /\ Cardinality(Refs(f)') = Cardinality(Refs(f))
                      /\ Refs(f)' = {} <=> Refs(f) = {}
  <2> TAKE f \in Fats
  <2>1. CASE f = var[w]
    <3>1. /\ w \in Refs(f) /\ v \in Vars \ Refs(f) /\ Refs(f) \in SUBSET Vars
          /\ Refs(f)' = (Refs(f) \ {w}) \union {v}
      BY <1>1, <1>2, <1>6, <2>1, SharedPtrAssumption DEF Refs
    <3> QED BY <3>1, RefsSwap
  <2>2. CASE f # var[w]
    <3>1. Refs(f)' = Refs(f)
      BY <1>1, <1>2, <1>6, <2>2, SharedPtrAssumption DEF Refs
    <3> QED BY <3>1
  <2> QED BY <2>1, <2>2
<1>8. FatInv' /\ DeleteInv'
  BY <1>1, <1>7, FatsKept DEF Deletes
<1>9. ObjectInv'
  BY <1>1, ObjectsKept DEF Brings, Assigns
<1> QED BY <1>3, <1>4, <1>5, <1>8, <1>9 DEF SharedInv, JobInv

(* operator= of a Shared, second half: v takes over the FatPointer of rhs. *)
LEMMA AttachCopyKeeps ==
  ASSUME SharedInv, NEW t \in Threads, Attach(t), job[t].op = "copy"
  PROVE  SharedInv'
<1> DEFINE v == job[t].v
           rhs == job[t].rhs
<1>1. /\ pc[t] = "attach" /\ var' = [var EXCEPT ![v] = var[rhs]] /\ Goto(t, "count")
      /\ UNCHANGED <<owner, fat, live, job>>
  BY DEF Attach
<1>2. /\ v \in Vars /\ rhs \in Vars /\ owner[v] = t /\ owner[rhs] \in {t, None}
      /\ var[rhs] \in Fats /\ ~Out(rhs) /\ Out(v)
  BY <1>1 DEF SharedInv, JobInv, JobOK, Assigns, Out
<1>3. /\ pc' \in [Threads -> {"idle", "count", "delete", "free", "attach"}]
      /\ pc'[t] = "count" /\ \A u \in Threads \ {t} : pc'[u] = pc[u] /\ job'[u] = job[u]
  BY <1>1 DEF SharedInv, TypeOK, Goto
<1>4. /\ v # rhs /\ var' \in [Vars -> Fats \union {Dead, None}] /\ var'[v] = var[rhs]
      /\ \A x \in Vars \ {v} : var'[x] = var[x]
  BY <1>1, <1>2 DEF SharedInv, TypeOK
<1>5. TypeOK'
  BY <1>1, <1>3, <1>4 DEF SharedInv, TypeOK
<1>6. \A x \in Vars : Out(x)' <=> Out(x)
  BY <1>1, <1>3, OutGoesOn
<1>7. \A u \in Threads \ {t} : JobOK(u)'
  BY <1>1, <1>2, <1>3, <1>4, OthersKept
<1>8. JobOK(t)'
  <2>1. var'[rhs] = var'[v] /\ ~Out(rhs)' /\ owner'[rhs] \in {t, None}
    BY <1>1, <1>2, <1>4, <1>6
  <2>2. owner'[v] = t /\ var'[v] \in Fats /\ var'[v] # Dead
    BY <1>1, <1>2, <1>4, SharedPtrAssumption
  <2> QED BY <1>1, <1>2, <1>3, <2>1, <2>2 DEF JobOK, Deletes, Assigns
<1>9. \A f \in Fats : Refs(f)' = Refs(f)
  BY <1>2, <1>4, <1>6 DEF Refs
<1>10. FatInv' /\ DeleteInv'
  BY <1>1, <1>3, <1>9, FatsKept DEF Deletes
<1>11. ObjectInv'
  BY <1>1, <1>3, ObjectsKept DEF Brings, Assigns
<1> QED BY <1>5, <1>7, <1>8, <1>10, <1>11 DEF SharedInv, JobInv

LEMMA AttachMoveKeeps ==
  ASSUME SharedInv, NEW t \in Threads, Attach(t), job[t].op = "move"
  PROVE  SharedInv'
<1> DEFINE v == job[t].v
           rhs == job[t].rhs
<1>1. /\ pc[t] = "attach" /\ var' = [var EXCEPT ![v] = var[rhs], ![rhs] = None]
      /\ Goto(t, "idle") /\ job' = [job EXCEPT ![t] = NoJob] /\ UNCHANGED <<owner, fat, live>>
  BY DEF Attach, Return
<1>2. /\ v \in Vars /\ rhs \in Vars /\ owner[v] = t /\ owner[rhs] = t /\ Out(v)
      /\ rhs # v => ~Out(rhs)
  BY <1>1, OwnFree DEF SharedInv, JobInv, JobOK, Assigns, Out
<1>3. /\ pc' \in [Threads -> {"idle", "count", "delete", "free", "attach"}]
      /\ job' \in [Threads -> Jobs] /\ pc'[t] = "idle"
      /\ \A u \in Threads \ {t} : pc'[u] = pc[u] /\ job'[u] = job[u]
  BY <1>1, NoJobs, Moves DEF SharedInv
<1>4. /\ var' \in [Vars -> Fats \union {Dead, None}] /\ var'[rhs] = None
      /\ v # rhs => var'[v] = var[rhs]
      /\ \A x \in Vars \ {v, rhs} : var'[x] = var[x]
  BY <1>1, <1>2 DEF SharedInv, TypeOK
<1>5. TypeOK'
  BY <1>1, <1>3, <1>4 DEF SharedInv, TypeOK
<1>6. \A x \in Vars : Out(x)' <=> Out(x) /\ x # v
  BY <1>1, <1>3, OutEnds
<1>7. \A u \in Threads \ {t} : JobOK(u)'
  BY <1>1, <1>2, <1>3, <1>4, OthersKept
<1>8. JobOK(t)'
  BY <1>3 DEF JobOK, Deletes, Assigns
<1> HIDE DEF v, rhs
<1>9. \A f \in Fats : /\ Cardinality(Refs(f)') = Cardinality(Refs(f))
                      /\ Refs(f)' = {} <=> Refs(f) = {}
  <2> TAKE f \in Fats
  <2>1. CASE f = var[rhs] /\ rhs # v
    <3>1. /\ rhs \in Refs(f) /\ v \in Vars \ Refs(f) /\ Refs(f) \in SUBSET Vars
          /\ Refs(f)' = (Refs(f) \ {rhs}) \union {v}
      BY <1>2, <1>4, <1>6, <2>1, SharedPtrAssumption DEF Refs
    <3> QED BY <3>1, RefsSwap
  <2>2. CASE f # var[rhs] \/ rhs = v
    <3>1. Refs(f)' = Refs(f)
      BY <1>2, <1>4, <1>6, <2>2, SharedPtrAssumption DEF Refs
    <3> QED BY <3>1
  <2> QED BY <2>1, <2>2
<1>10. FatInv' /\ DeleteInv'
  BY <1>1, <1>3, <1>9, FatsKept DEF Deletes
<1>11. ObjectInv'
  BY <1>1, <1>3, ObjectsKept DEF Brings, Assigns
<1> QED BY <1>5, <1>7, <1>8, <1>10, <1>11 DEF SharedInv, JobInv

-----------------------------------------------------------------------------
(* A new FatPointer, for an object that no other one has.                  *)
LEMMA NewFatKeeps ==
  ASSUME SharedInv, NEW t \in Threads, NEW v \in Vars, NEW o \in Objects \union {None},
         owner[v] = t, owner' = owner, NewFat(v, o),
         live \subseteq live', live' \in SUBSET Objects,
         pc' \in [Threads -> {"idle", "count", "delete", "free", "attach"}],
         job' \in [Threads -> Jobs], ~Deletes(t), pc'[t] = "idle",
         \A u \in Threads \ {t} : pc'[u] = pc[u] /\ job'[u] = job[u],
         \A x \in Vars : Out(x)' <=> Out(x) /\ x # v,
         var[v] = Dead \/ Out(v),
         o # None => /\ o \in live' /\ \A g \in Fats : Holds(g) => fat[g].pointer # o
                     /\ \A u \in Threads \ {t} : Brings(u) => job[u].rhs # o
  PROVE  SharedInv'
<1> DEFINE b == [used |-> TRUE, pointer |-> o, counter |-> IF o = None THEN 0 ELSE 1]
<1>1. PICK f \in Fats : /\ ~fat[f].used /\ var' = [var EXCEPT ![v] = f]
                        /\ fat' = [fat EXCEPT ![f] = b]
  BY DEF NewFat
<1>2. /\ b \in [used : BOOLEAN, pointer : Objects \union {None}, counter : Int]
      /\ b.used = TRUE /\ b.pointer = o /\ (o # None => b.counter = 1)
  OBVIOUS
<1> HIDE DEF b
<1>3. /\ var' \in [Vars -> Fats \union {Dead, None}] /\ var'[v] = f
      /\ \A x \in Vars \ {v} : var'[x] = var[x]
  BY <1>1 DEF SharedInv, TypeOK
<1>4. /\ fat' \in [Fats -> [used : BOOLEAN, pointer : Objects \union {None}, counter : Int]]
      /\ fat'[f] = b /\ \A g \in Fats \ {f} : fat'[g] = fat[g]
  BY <1>1, <1>2 DEF SharedInv, TypeOK
<1>5. TypeOK'
  BY <1>3, <1>4 DEF SharedInv, TypeOK
<1>6. \A u \in Threads \ {t} : JobOK(u)'
  BY <1>3, OthersKept
<1>7. JobOK(t)'
  BY DEF JobOK, Deletes, Assigns
<1>8. Refs(f) = {}
  BY <1>1 DEF SharedInv, FatInv
<1>9. Refs(f)' = {v} /\ \A g \in Fats \ {f} : Refs(g)' = Refs(g)
  BY <1>3, <1>8, SharedPtrAssumption DEF Refs
<1>10. \A u \in Threads : /\ Deletes(u)' <=> Deletes(u)
                          /\ Deletes(u) => job'[u] = job[u] /\ job[u].old # f
  BY <1>1 DEF SharedInv, DeleteInv, Deletes
<1>11. FatInv'
  <2>1. Cardinality({v}) = 1
    BY FS_Singleton
  <2>2. \A g \in Fats \ {f} :
          /\ Refs(g)' # {} => fat'[g].used
          /\ fat'[g].used /\ fat'[g].pointer # None =>
               /\ fat'[g].counter = Cardinality(Refs(g)')
               /\ Refs(g)' = {} => \E u \in Threads : Deletes(u)' /\ job'[u].old = g
    BY <1>4, <1>9, <1>10 DEF SharedInv, FatInv
  <2>3. /\ Refs(f)' # {} /\ fat'[f].used
        /\ fat'[f].pointer # None => fat'[f].counter = Cardinality(Refs(f)')
    BY <1>2, <1>4, <1>9, <2>1
  <2> QED BY <2>2, <2>3 DEF FatInv
<1>12. DeleteInv'
  <2>1. \A u \in Threads : Deletes(u)' => job'[u].old \in Fats \ {f}
    BY <1>10 DEF SharedInv, DeleteInv
  <2>2. \A g \in Fats \ {f}, u \in Threads : Deletes(u)' /\ job'[u].old = g =>
          /\ Refs(g)' = {} /\ fat'[g].used /\ fat'[g].pointer # None
          /\ \A x \in Threads \ {u} : Deletes(x)' => job'[x].old # g
    BY <1>4, <1>9, <1>10 DEF SharedInv, DeleteInv
  <2> QED BY <2>1, <2>2 DEF DeleteInv
<1>13. ObjectInv'
  <2>1. \A g \in Fats \ {f} : Holds(g)' <=> Holds(g)
    <3>1. \A u \in Threads : /\ pc'[u] = "free" <=> pc[u] = "free"
                             /\ pc[u] = "free" => job'[u] = job[u]
      BY DEF Deletes
    <3> QED BY <1>4, <3>1 DEF Holds
  <2>2. Holds(f)' => o # None
    BY <1>2, <1>4 DEF Holds
  <2>3. \A u \in Threads : Brings(u)' => Brings(u) /\ u # t /\ job'[u] = job[u]
    BY DEF Brings, Assigns
  <2>4. \A g \in Fats : Holds(g)' =>
          /\ fat'[g].pointer \in live'
          /\ \A h \in Fats \ {g} : Holds(h)' => fat'[h].pointer # fat'[g].pointer
    BY <1>2, <1>4, <2>1, <2>2 DEF SharedInv, ObjectInv
  <2>5. \A u \in Threads : Brings(u)' =>
          /\ job'[u].rhs \in live'
          /\ \A g \in Fats : Holds(g)' => fat'[g].pointer # job'[u].rhs
          /\ \A x \in Threads \ {u} : Brings(x)' => job'[x].rhs # job'[u].rhs
    BY <1>2, <1>4, <2>1, <2>2, <2>3 DEF SharedInv, ObjectInv
  <2> QED BY <2>4, <2>5 DEF ObjectInv
<1> QED BY <1>5, <1>6, <1>7, <1>11, <1>12, <1>13 DEF SharedInv, JobInv

LEMMA MakeSharedKeeps ==
  ASSUME SharedInv, NEW t \in Threads, NEW v \in Vars,
         NEW o \in (Objects \ live) \union {None}, MakeShared(t, v, o)
  PROVE  SharedInv'
<1>1. /\ pc[t] = "idle" /\ owner[v] = t /\ var[v] = Dead /\ NewFat(v, o)
      /\ live' = live \union ({o} \ {None}) /\ UNCHANGED <<owner, pc, job>>
  BY DEF MakeShared, Mine
<1>2. /\ ~Out(v) /\ \A x \in Vars : Out(x)' <=> Out(x)
  BY <1>1, MineFree DEF SharedInv, Mine, Out
<1>3. /\ o # None => o \in live' /\ o \notin live
      /\ live \subseteq live' /\ live' \in SUBSET Objects
  BY <1>1 DEF SharedInv, TypeOK
<1>4. o # None => /\ \A g \in Fats : Holds(g) => fat[g].pointer # o
                  /\ \A u \in Threads : Brings(u) => job[u].rhs # o
  BY <1>3 DEF SharedInv, ObjectInv
<1>5. /\ pc' \in [Threads -> {"idle", "count", "delete", "free", "attach"}]
      /\ job' \in [Threads -> Jobs] /\ ~Deletes(t)
  BY <1>1 DEF SharedInv, TypeOK, Deletes
<1> QED BY <1>1, <1>2, <1>3, <1>4, <1>5, NewFatKeeps

LEMMA AttachPointerKeeps ==
  ASSUME SharedInv, NEW t \in Threads, Attach(t), job[t].op = "pointer"
  PROVE  SharedInv'
<1> DEFINE v == job[t].v
           o == job[t].rhs
<1>1. /\ pc[t] = "attach" /\ NewFat(v, o) /\ Goto(t, "idle")
      /\ job' = [job EXCEPT ![t] = NoJob] /\ UNCHANGED <<owner, live>>
  BY DEF Attach, Return
<1>2. Assigns(t) /\ pc[t] # "idle" /\ ~Deletes(t)
  BY <1>1 DEF Assigns, Deletes
<1>3. v \in Vars /\ o \in Objects \union {None} /\ owner[v] = t /\ Out(v)
  BY <1>2 DEF SharedInv, JobInv, JobOK, Out
<1>4. /\ pc' \in [Threads -> {"idle", "count", "delete", "free", "attach"}]
      /\ job' \in [Threads -> Jobs] /\ pc'[t] = "idle"
      /\ \A u \in Threads \ {t} : pc'[u] = pc[u] /\ job'[u] = job[u]
  BY <1>1, NoJobs, Moves DEF SharedInv
<1>5. \A x \in Vars : Out(x)' <=> Out(x) /\ x # v
  BY <1>1, <1>4, OutEnds
<1>6. o # None => /\ o \in live /\ \A g \in Fats : Holds(g) => fat[g].pointer # o
                  /\ \A u \in Threads \ {t} : Brings(u) => job[u].rhs # o
  <2>1. o # None => Brings(t)
    BY <1>2 DEF Brings
  <2> QED BY <2>1 DEF SharedInv, ObjectInv
<1>7. live' = live /\ live \in SUBSET Objects
  BY <1>1 DEF SharedInv, TypeOK
<1> HIDE DEF v, o
<1> QED BY <1>1, <1>2, <1>3, <1>4, <1>5, <1>6, <1>7, NewFatKeeps

-----------------------------------------------------------------------------
(* decrementCounter(): v is no longer counted, and t deletes if it was the *)
(* last reference.                                                         *)
LEMMA LetGoKeeps ==
  ASSUME SharedInv, NEW t \in Threads, NEW v \in Vars, NEW f, f = var[v],
         Mine(t, v), Decrement(f),
         \A u \in Threads \ {t} : pc'[u] = pc[u] /\ job'[u] = job[u],
         pc'[t] # "free", pc'[t] = "delete" <=> Last(f), Last(f) => job'[t].old = f,
         \A g \in Fats : Refs(g)' = Refs(g) \ {v}
  PROVE  /\ fat' \in [Fats -> [used : BOOLEAN, pointer : Objects \union {None}, counter : Int]]
         /\ \A g \in Fats : fat'[g].used = fat[g].used /\ fat'[g].pointer = fat[g].pointer
         /\ FatInv' /\ DeleteInv'
<1>1. ~Out(v) /\ pc[t] = "idle"
  BY MineFree DEF SharedInv, Mine
<1>2. /\ f \in Fats => v \in Refs(f)
      /\ \A g \in Fats \ {f} : Refs(g)' = Refs(g)
  BY <1>1 DEF Refs
<1>3. fat \in [Fats -> [used : BOOLEAN, pointer : Objects \union {None}, counter : Int]]
  BY DEF SharedInv, TypeOK
<1>4. /\ fat' \in [Fats -> [used : BOOLEAN, pointer : Objects \union {None}, counter : Int]]
      /\ \A g \in Fats : fat'[g].used = fat[g].used /\ fat'[g].pointer = fat[g].pointer
      /\ \A g \in Fats \ {f} : fat'[g].counter = fat[g].counter
      /\ Counted(f) => fat'[f].counter = fat[f].counter - 1
  BY <1>3 DEF Decrement, Counted
<1>5. Counted(f) => /\ f \in Fats /\ fat[f].used /\ fat[f].pointer # None
                    /\ fat[f].counter = Cardinality(Refs(f))
  BY <1>2 DEF Counted, SharedInv, FatInv
<1>6. Counted(f) => /\ Cardinality(Refs(f) \ {v}) = Cardinality(Refs(f)) - 1
                    /\ Last(f) <=> Refs(f) \ {v} = {}
  <2>1. Counted(f) => v \in Refs(f) /\ Refs(f) \in SUBSET Vars
    BY <1>2, <1>5 DEF Refs
  <2>2. Counted(f) => /\ Cardinality(Refs(f) \ {v}) = Cardinality(Refs(f)) - 1
                      /\ Cardinality(Refs(f)) = 1 <=> Refs(f) \ {v} = {}
    BY <2>1, RefsRemove
  <2> QED BY <1>5, <2>2 DEF Last
<1>7. /\ \A u \in Threads \ {t} : /\ Deletes(u)' <=> Deletes(u)
                                  /\ job'[u] = job[u]
                                  /\ Deletes(u) => job[u].old # f
      /\ ~Deletes(t) /\ (Deletes(t)' <=> Last(f))
  BY <1>1, <1>2 DEF Deletes, SharedInv, DeleteInv
<1>8. Last(f) => Counted(f) /\ job'[t].old = f
  BY DEF Last
<1>9. FatInv'
  <2>1. ASSUME NEW g \in Fats \ {f}
        PROVE  /\ Refs(g)' # {} => fat'[g].used
               /\ fat'[g].used /\ fat'[g].pointer # None =>
                    /\ fat'[g].counter = Cardinality(Refs(g)')
                    /\ Refs(g)' = {} => \E u \in Threads : Deletes(u)' /\ job'[u].old = g
    BY <1>2, <1>4, <1>7 DEF SharedInv, FatInv
  <2>2. ASSUME f \in Fats
        PROVE  /\ Refs(f)' # {} => fat'[f].used
               /\ fat'[f].used /\ fat'[f].pointer # None =>
                    /\ fat'[f].counter = Cardinality(Refs(f)')
                    /\ Refs(f)' = {} => \E u \in Threads : Deletes(u)' /\ job'[u].old = f
    <3>1. fat[f].pointer # None => Counted(f)
      BY <2>2 DEF Counted
    <3>2. Refs(f)' = Refs(f) \ {v} /\ fat'[f].used = fat[f].used /\ fat'[f].pointer = fat[f].pointer
      BY <2>2, <1>4
    <3>3. fat[f].used
      BY <1>2, <2>2 DEF SharedInv, FatInv
    <3>4. Counted(f) => fat'[f].counter = Cardinality(Refs(f)')
      BY <1>4, <1>5, <1>6, <3>2
    <3>5. Counted(f) /\ Refs(f)' = {} => \E u \in Threads : Deletes(u)' /\ job'[u].old = f
      BY <1>6, <1>7, <1>8, <3>2
    <3> QED BY <3>1, <3>2, <3>3, <3>4, <3>5
  <2> QED BY <2>1, <2>2 DEF FatInv
<1>10. DeleteInv'
  <2>1. \A u \in Threads : Deletes(u)' => job'[u].old \in Fats
    BY <1>5, <1>7, <1>8 DEF SharedInv, DeleteInv
  <2>2. ASSUME NEW g \in Fats, NEW u \in Threads, Deletes(u)', job'[u].old = g
        PROVE  /\ Refs(g)' = {} /\ fat'[g].used /\ fat'[g].pointer # None
               /\ \A x \in Threads \ {u} : Deletes(x)' => job'[x].old # g
    <3>1. CASE u = t
      <4>1. g = f /\ Counted(f) /\ Last(f)
        BY <1>7, <1>8, <2>2, <3>1
      <4>2. Refs(f)' = {} /\ fat'[f].used /\ fat'[f].pointer # None
        <5>1. f \in Fats /\ fat[f].used /\ fat[f].pointer # None
          BY <1>5, <4>1
        <5>2. Refs(f) \ {v} = {}
          BY <1>6, <4>1
        <5>3. Refs(f)' = Refs(f) \ {v}
          BY <5>1
        <5> QED BY <1>4, <5>1, <5>2, <5>3
      <4>3. \A x \in Threads \ {u} : Deletes(x)' => job'[x].old # g
        BY <1>7, <3>1, <4>1
      <4> QED BY <4>1, <4>2, <4>3
    <3>2. CASE u # t
      <4>1. Deletes(u) /\ job[u].old = g /\ g # f
        BY <1>7, <2>2, <3>2
      <4>2. Refs(g)' = {} /\ fat'[g].used /\ fat'[g].pointer # None
        BY <1>2, <1>4, <4>1 DEF SharedInv, DeleteInv
      <4>3. \A x \in Threads \ {u} : Deletes(x)' => job'[x].old # g
        BY <1>7, <1>8, <4>1 DEF SharedInv, DeleteInv
      <4> QED BY <4>2, <4>3
    <3> QED BY <3>1, <3>2
  <2> QED BY <2>1, <2>2 DEF DeleteInv
<1> QED BY <1>4, <1>9, <1>10

LEMMA DestroyKeeps ==
  ASSUME SharedInv, NEW t \in Threads, NEW v \in Vars, Destroy(t, v)
  PROVE  SharedInv'
<1> DEFINE f == var[v]
           j == [NoJob EXCEPT !.old = f]
<1>1. /\ Mine(t, v) /\ f # Dead /\ Decrement(f) /\ var' = [var EXCEPT ![v] = Dead]
      /\ pc[t] = "idle" /\ owner[v] = t /\ UNCHANGED <<owner, live>>
      /\ Last(f) => Goto(t, "delete") /\ job' = [job EXCEPT ![t] = j]
      /\ ~Last(f) => UNCHANGED <<pc, job>>
  BY DEF Destroy, Mine
<1>2. /\ pc' \in [Threads -> {"idle", "count", "delete", "free", "attach"}]
      /\ job' \in [Threads -> Jobs]
      /\ \A u \in Threads \ {t} : pc'[u] = pc[u] /\ job'[u] = job[u]
      /\ Last(f) => pc'[t] = "delete" /\ job'[t].old = f /\ job'[t].v = None /\ job'[t].op = "none"
      /\ ~Last(f) => pc'[t] = "idle"
  <2>1. CASE Last(f)
    <3>1. f \in Fats
      BY <2>1 DEF Last, Counted
    <3>2. j \in Jobs /\ j.v = None /\ j.op = "none" /\ j.old = f
      BY <3>1, NoJobs
    <3> HIDE DEF j
    <3> QED BY <1>1, <2>1, <3>2, Moves DEF SharedInv
  <2>2. CASE ~Last(f)
    BY <1>1, <2>2 DEF SharedInv, TypeOK
  <2> QED BY <2>1, <2>2
<1>3. /\ var' \in [Vars -> Fats \union {Dead, None}] /\ var'[v] = Dead
      /\ \A x \in Vars \ {v} : var'[x] = var[x]
  BY <1>1 DEF SharedInv, TypeOK
<1> HIDE DEF f
<1>4. \A x \in Vars : Out(x)' <=> Out(x)
  BY <1>1, <1>2, OutBegins, SharedPtrAssumption
<1>5. \A g \in Fats : Refs(g)' = Refs(g) \ {v}
  BY <1>3, <1>4, SharedPtrAssumption DEF Refs
<1>6. /\ fat' \in [Fats -> [used : BOOLEAN, pointer : Objects \union {None}, counter : Int]]
      /\ \A g \in Fats : fat'[g].used = fat[g].used /\ fat'[g].pointer = fat[g].pointer
      /\ FatInv' /\ DeleteInv'
  BY <1>1, <1>2, <1>5, LetGoKeeps DEF f
<1>7. TypeOK'
  BY <1>1, <1>2, <1>3, <1>6 DEF SharedInv, TypeOK
<1>8. \A u \in Threads \ {t} : JobOK(u)'
  BY <1>1, <1>2, <1>3, OthersKept, SharedPtrAssumption
<1>9. JobOK(t)'
  BY <1>2, SharedPtrAssumption DEF JobOK, Deletes, Assigns
<1>10. ObjectInv'
  BY <1>1, <1>2, <1>6, ObjectsKept DEF Brings, Assigns
<1> QED BY <1>6, <1>7, <1>8, <1>9, <1>10 DEF SharedInv, JobInv

(* What the first halves of the assignment operators have in common.       *)
LEMMA BeginAssignKeeps ==
  ASSUME SharedInv, NEW t \in Threads, NEW v \in Vars, NEW op \in {"pointer", "copy", "move"},
         NEW rhs \in Vars \union Objects \union {None}, BeginAssign(t, v, op, rhs),
         live' \in SUBSET Objects
  PROVE  /\ TypeOK' /\ FatInv' /\ DeleteInv'
         /\ pc[t] = "idle" /\ owner[v] = t /\ var[v] # Dead /\ UNCHANGED <<owner, var>>
         /\ pc'[t] \in {"delete", "attach"} /\ job'[t].v = v
         /\ job'[t].op = op /\ job'[t].rhs = rhs
         /\ \A u \in Threads \ {t} : pc'[u] = pc[u] /\ job'[u] = job[u] /\ JobOK(u)'
         /\ \A x \in Vars : Out(x)' <=> Out(x) \/ x = v
         /\ \A g \in Fats : fat'[g].used = fat[g].used /\ fat'[g].pointer = fat[g].pointer
<1>0. PICK f : f = var[v]
  OBVIOUS
<1> DEFINE j == [op |-> op, v |-> v, rhs |-> rhs, old |-> f]
           p == IF Last(f) THEN "delete" ELSE "attach"
<1>1. /\ Mine(t, v) /\ pc[t] = "idle" /\ owner[v] = t /\ f # Dead /\ Decrement(f)
      /\ job' = [job EXCEPT ![t] = j] /\ Goto(t, p) /\ UNCHANGED <<owner, var>>
  BY <1>0 DEF BeginAssign, Mine
<1>2. j \in Jobs /\ j.v = v /\ j.op = op /\ j.rhs = rhs /\ j.old = f
  <2>1. f \in Fats \union {None}
    BY <1>0, <1>1 DEF SharedInv, TypeOK
  <2> QED BY <2>1 DEF Jobs
<1>3. /\ p \in {"idle", "count", "delete", "free", "attach"}
      /\ p = "delete" <=> Last(f)
      /\ p \in {"delete", "attach"}
  OBVIOUS
<1> HIDE DEF j, p
<1>4. /\ pc' \in [Threads -> {"idle", "count", "delete", "free", "attach"}]
      /\ job' \in [Threads -> Jobs] /\ pc'[t] = p /\ job'[t] = j
      /\ \A u \in Threads \ {t} : pc'[u] = pc[u] /\ job'[u] = job[u]
  BY <1>1, <1>2, <1>3, Moves DEF SharedInv
<1>5. \A x \in Vars : Out(x)' <=> Out(x) \/ x = v
  BY <1>1, <1>2, <1>3, <1>4, OutBegins
<1>6. \A g \in Fats : Refs(g)' = Refs(g) \ {v}
  BY <1>1, <1>5 DEF Refs
<1>7. /\ fat' \in [Fats -> [used : BOOLEAN, pointer : Objects \union {None}, counter : Int]]
      /\ \A g \in Fats : fat'[g].used = fat[g].used /\ fat'[g].pointer = fat[g].pointer
      /\ FatInv' /\ DeleteInv'
  BY <1>0, <1>1, <1>2, <1>3, <1>4, <1>6, LetGoKeeps
<1>8. TypeOK'
  BY <1>1, <1>4, <1>7 DEF SharedInv, TypeOK
<1>9. \A u \in Threads \ {t} : JobOK(u)'
  BY <1>1, <1>2, <1>4, OthersKept
<1> QED BY <1>0, <1>1, <1>2, <1>3, <1>4, <1>5, <1>7, <1>8, <1>9

LEMMA AssignCopyKeeps ==
  ASSUME SharedInv, NEW t \in Threads, NEW v \in Vars, NEW w \in Vars, AssignCopy(t, v, w)
  PROVE  SharedInv'
<1>1. /\ owner[w] \in {t, None} /\ var[w] \in Fats /\ v # w /\ live' = live
      /\ BeginAssign(t, v, "copy", w) /\ live' \in SUBSET Objects
  BY DEF AssignCopy, Readable, Built, SharedInv, TypeOK
<1>2. /\ TypeOK' /\ FatInv' /\ DeleteInv'
      /\ pc[t] = "idle" /\ owner[v] = t /\ var[v] # Dead /\ UNCHANGED <<owner, var>>
      /\ pc'[t] \in {"delete", "attach"} /\ job'[t].v = v
      /\ job'[t].op = "copy" /\ job'[t].rhs = w
      /\ \A u \in Threads \ {t} : pc'[u] = pc[u] /\ job'[u] = job[u] /\ JobOK(u)'
      /\ \A x \in Vars : Out(x)' <=> Out(x) \/ x = v
      /\ \A g \in Fats : fat'[g].used = fat[g].used /\ fat'[g].pointer = fat[g].pointer
  BY <1>1, BeginAssignKeeps
<1>3. JobOK(t)'
  <2>1. ~Out(w)
    BY <1>1, <1>2, SharedPtrAssumption DEF SharedInv, JobInv, JobOK, Out
  <2>2. ~Out(w)'
    BY <1>1, <1>2, <2>1
  <2> QED BY <1>1, <1>2, <2>2 DEF JobOK, Deletes, Assigns
<1>4. ObjectInv'
  BY <1>1, <1>2, ObjectsKept DEF Brings, Assigns
<1> QED BY <1>2, <1>3, <1>4 DEF SharedInv, JobInv

LEMMA AssignMoveKeeps ==
  ASSUME SharedInv, NEW t \in Threads, NEW v \in Vars, NEW w \in Vars, AssignMove(t, v, w)
  PROVE  SharedInv'
<1>1. /\ owner[w] = t /\ var[w] # Dead /\ live' = live
      /\ BeginAssign(t, v, "move", w) /\ live' \in SUBSET Objects
  BY DEF AssignMove, Mine, SharedInv, TypeOK
<1>2. /\ TypeOK' /\ FatInv' /\ DeleteInv'
      /\ pc[t] = "idle" /\ owner[v] = t /\ var[v] # Dead /\ UNCHANGED <<owner, var>>
      /\ pc'[t] \in {"delete", "attach"} /\ job'[t].v = v
      /\ job'[t].op = "move" /\ job'[t].rhs = w
      /\ \A u \in Threads \ {t} : pc'[u] = pc[u] /\ job'[u] = job[u] /\ JobOK(u)'
      /\ \A g \in Fats : fat'[g].used = fat[g].used /\ fat'[g].pointer = fat[g].pointer
  BY <1>1, BeginAssignKeeps
<1>3. JobOK(t)'
  BY <1>1, <1>2 DEF JobOK, Deletes, Assigns
<1>4. ObjectInv'
  BY <1>1, <1>2, ObjectsKept DEF Brings, Assigns
<1> QED BY <1>2, <1>3, <1>4 DEF SharedInv, JobInv

LEMMA AssignPointerKeeps ==
  ASSUME SharedInv, NEW t \in Threads, NEW v \in Vars,
         NEW o \in (Objects \ live) \union {None}, AssignPointer(t, v, o)
  PROVE  SharedInv'
<1>1. /\ BeginAssign(t, v, "pointer", o)
      /\ live' = live \union ({o} \ {None}) /\ live' \in SUBSET Objects
  BY DEF AssignPointer, SharedInv, TypeOK
<1>2. /\ TypeOK' /\ FatInv' /\ DeleteInv'
      /\ pc[t] = "idle" /\ owner[v] = t /\ var[v] # Dead /\ UNCHANGED <<owner, var>>
      /\ pc'[t] \in {"delete", "attach"} /\ job'[t].v = v
      /\ job'[t].op = "pointer" /\ job'[t].rhs = o
      /\ \A u \in Threads \ {t} : pc'[u] = pc[u] /\ job'[u] = job[u] /\ JobOK(u)'
      /\ \A g \in Fats : fat'[g].used = fat[g].used /\ fat'[g].pointer = fat[g].pointer
  BY <1>1, BeginAssignKeeps
<1>3. JobOK(t)'
  BY <1>1, <1>2 DEF JobOK, Deletes, Assigns
<1>4. \A f \in Fats : Holds(f)' <=> Holds(f)
  BY <1>2 DEF Holds
<1>5. /\ \A u \in Threads \ {t} : (Brings(u)' <=> Brings(u)) /\ job'[u] = job[u]
      /\ Brings(t)' => o # None /\ job'[t].rhs = o
  BY <1>2 DEF Brings, Assigns
<1>6. live \subseteq live' /\ (o # None => o \in live' /\ o \notin live)
  BY <1>1
<1>7. ObjectInv'
  <2>1. \A f \in Fats : Holds(f)' =>
          /\ fat'[f].pointer \in live'
          /\ \A g \in Fats \ {f} : Holds(g)' => fat'[g].pointer # fat'[f].pointer
    BY <1>2, <1>4, <1>6 DEF SharedInv, ObjectInv
  <2>2. \A u \in Threads : Brings(u)' =>
          /\ job'[u].rhs \in live'
          /\ \A f \in Fats : Holds(f)' => fat'[f].pointer # job'[u].rhs
          /\ \A x \in Threads \ {u} : Brings(x)' => job'[x].rhs # job'[u].rhs
    BY <1>2, <1>4, <1>5, <1>6 DEF SharedInv, ObjectInv
  <2> QED BY <2>1, <2>2 DEF ObjectInv
<1> QED BY <1>2, <1>3, <1>7 DEF SharedInv, JobInv

-----------------------------------------------------------------------------
(* incrementCounter() on what was copied: the variable it was copied from  *)
(* has kept the FatPointer.                                                *)
LEMMA CountCopyKeeps ==
  ASSUME SharedInv, NEW t \in Threads, CountCopy(t)
  PROVE  SharedInv'
<1>0. PICK v : v = job[t].v
  OBVIOUS
<1>1. PICK f : f = var[v]
  OBVIOUS
<1>2. /\ pc[t] = "count" /\ Increment(f) /\ Goto(t, "idle")
      /\ job' = [job EXCEPT ![t] = NoJob] /\ UNCHANGED <<owner, var, live>>
  BY <1>0, <1>1 DEF CountCopy, Return
<1>3. v \in Vars /\ owner[v] = t /\ f \in Fats /\ Refs(f) # {} /\ v \notin Refs(f)
  <2>1. JobOK(t)
    BY DEF SharedInv, JobInv
  <2>2. /\ v \in Vars /\ f \in Fats /\ owner[v] = t
        /\ \E w \in Vars : var[w] = f /\ ~Out(w)
    BY <1>0, <1>1, <1>2, <2>1 DEF JobOK
  <2>3. Out(v)
    BY <1>0, <1>2 DEF Out
  <2> QED BY <2>2, <2>3 DEF Refs
<1>4. /\ pc' \in [Threads -> {"idle", "count", "delete", "free", "attach"}]
      /\ job' \in [Threads -> Jobs] /\ pc'[t] = "idle"
      /\ \A u \in Threads \ {t} : pc'[u] = pc[u] /\ job'[u] = job[u]
  BY <1>2, NoJobs, Moves DEF SharedInv
<1>5. \A x \in Vars : Out(x)' <=> Out(x) /\ x # v
  BY <1>0, <1>2, <1>4, OutEnds
<1>6. Refs(f)' = Refs(f) \union {v} /\ \A g \in Fats \ {f} : Refs(g)' = Refs(g)
  BY <1>1, <1>2, <1>3, <1>5 DEF Refs
<1>7. /\ fat' \in [Fats -> [used : BOOLEAN, pointer : Objects \union {None}, counter : Int]]
      /\ \A g \in Fats : fat'[g].used = fat[g].used /\ fat'[g].pointer = fat[g].pointer
      /\ \A g \in Fats \ {f} : fat'[g].counter = fat[g].counter
      /\ fat[f].pointer # None => fat'[f].counter = fat[f].counter + 1
  <2>1. fat \in [Fats -> [used : BOOLEAN, pointer : Objects \union {None}, counter : Int]]
    BY DEF SharedInv, TypeOK
  <2> QED BY <1>2, <1>3, <2>1 DEF Increment
<1>8. TypeOK'
  BY <1>2, <1>4, <1>7 DEF SharedInv, TypeOK
<1>9. \A u \in Threads \ {t} : JobOK(u)'
  BY <1>2, <1>4, OthersKept
<1>10. JobOK(t)'
  BY <1>4 DEF JobOK, Deletes, Assigns
<1>11. /\ \A u \in Threads : /\ Deletes(u)' <=> Deletes(u)
                             /\ Deletes(u) => job'[u] = job[u] /\ job[u].old # f
  BY <1>2, <1>3, <1>4 DEF Deletes, SharedInv, DeleteInv
<1>12. FatInv'
  <2>1. \A g \in Fats \ {f} :
          /\ Refs(g)' # {} => fat'[g].used
          /\ fat'[g].used /\ fat'[g].pointer # None =>
               /\ fat'[g].counter = Cardinality(Refs(g)')
               /\ Refs(g)' = {} => \E u \in Threads : Deletes(u)' /\ job'[u].old = g
    BY <1>6, <1>7, <1>11 DEF SharedInv, FatInv
  <2>2. Cardinality(Refs(f) \union {v}) = Cardinality(Refs(f)) + 1
    <3>1. Refs(f) \in SUBSET Vars /\ v \in Vars \ Refs(f)
      BY <1>3 DEF Refs
    <3> QED BY <3>1, RefsAdd
  <2>3. fat[f].used /\ (fat[f].pointer # None => fat[f].counter = Cardinality(Refs(f)))
    BY <1>3 DEF SharedInv, FatInv
  <2>4. /\ Refs(f)' # {} /\ fat'[f].used
        /\ fat'[f].pointer # None => fat'[f].counter = Cardinality(Refs(f)')
    BY <1>3, <1>6, <1>7, <2>2, <2>3
  <2> QED BY <2>1, <2>4 DEF FatInv
<1>13. DeleteInv'
  <2>1. \A u \in Threads : Deletes(u)' => job'[u].old \in Fats \ {f}
    BY <1>11 DEF SharedInv, DeleteInv
  <2>2. \A g \in Fats \ {f}, u \in Threads : Deletes(u)' /\ job'[u].old = g =>
          /\ Refs(g)' = {} /\ fat'[g].used /\ fat'[g].pointer # None
          /\ \A x \in Threads \ {u} : Deletes(x)' => job'[x].old # g
    BY <1>6, <1>7, <1>11 DEF SharedInv, DeleteInv
  <2> QED BY <2>1, <2>2 DEF DeleteInv
<1>14. ObjectInv'
  BY <1>2, <1>4, <1>7, ObjectsKept DEF Brings, Assigns
<1> QED BY <1>8, <1>9, <1>10, <1>12, <1>13, <1>14 DEF SharedInv, JobInv

-----------------------------------------------------------------------------
(* delete fatPointer->pointer: no other FatPointer has the object.         *)
LEMMA DeleteObjectKeeps ==
  ASSUME SharedInv, NEW t \in Threads, DeleteObject(t)
  PROVE  SharedInv'
<1>0. PICK f : f = job[t].old
  OBVIOUS
<1>1. /\ pc[t] = "delete" /\ live' = live \ {fat[f].pointer} /\ Goto(t, "free")
      /\ UNCHANGED <<owner, var, fat, job>>
  BY <1>0 DEF DeleteObject
<1>2. /\ f \in Fats /\ fat[f].used /\ fat[f].pointer # None
      /\ \A u \in Threads \ {t} : Deletes(u) => job[u].old # f
  <2>1. Deletes(t)
    BY <1>1 DEF Deletes
  <2> QED BY <1>0, <2>1 DEF SharedInv, DeleteInv
<1>3. /\ pc' \in [Threads -> {"idle", "count", "delete", "free", "attach"}]
      /\ pc'[t] = "free" /\ \A u \in Threads \ {t} : pc'[u] = pc[u]
  BY <1>1 DEF SharedInv, TypeOK, Goto
<1>4. TypeOK'
  BY <1>1, <1>3 DEF SharedInv, TypeOK
<1>5. \A x : Out(x)' <=> Out(x)
  BY <1>1, <1>3 DEF Out
<1>6. \A g \in Fats : Refs(g)' = Refs(g)
  BY <1>1, <1>5 DEF Refs
<1>7. \A u \in Threads : (Deletes(u)' <=> Deletes(u)) /\ (Brings(u)' <=> Brings(u))
  BY <1>1, <1>3 DEF Deletes, Brings, Assigns
<1>8. JobInv'
  <2>1. \A u \in Threads \ {t} : JobOK(u)'
    <3>1. pc'[t] # "idle" /\ job'[t].v \in Vars => owner[job'[t].v] = t
      BY <1>1 DEF SharedInv, JobInv, JobOK
    <3> QED BY <1>1, <1>3, <3>1, OthersKept
  <2>2. JobOK(t)
    BY DEF SharedInv, JobInv
  <2>3. JobOK(t)'
    BY <1>1, <1>3, <1>5, <2>2 DEF JobOK, Deletes, Assigns
  <2> QED BY <2>1, <2>3 DEF JobInv
<1>9. FatInv'
  BY <1>1, <1>6, <1>7 DEF SharedInv, FatInv
<1>10. DeleteInv'
  BY <1>1, <1>6, <1>7 DEF SharedInv, DeleteInv
<1>11. /\ Holds(f)
       /\ \A g \in Fats : Holds(g)' <=> Holds(g) /\ g # f
  <2>1. \A u \in Threads : pc[u] = "free" => job[u].old # f
    BY <1>1, <1>2 DEF Deletes
  <2> QED BY <1>0, <1>1, <1>2, <1>3, <2>1 DEF Holds
<1>12. ObjectInv'
  <2>1. \A g \in Fats : Holds(g)' =>
          /\ fat[g].pointer \in live'
          /\ \A h \in Fats \ {g} : Holds(h)' => fat[h].pointer # fat[g].pointer
    BY <1>1, <1>2, <1>11 DEF SharedInv, ObjectInv
  <2>2. \A u \in Threads : Brings(u)' =>
          /\ job[u].rhs \in live'
          /\ \A g \in Fats : Holds(g)' => fat[g].pointer # job[u].rhs
          /\ \A x \in Threads \ {u} : Brings(x)' => job[x].rhs # job[u].rhs
    BY <1>1, <1>2, <1>7, <1>11 DEF SharedInv, ObjectInv
  <2> QED BY <1>1, <2>1, <2>2 DEF ObjectInv
<1> QED BY <1>4, <1>8, <1>9, <1>10, <1>12 DEF SharedInv

(* The counter and the FatPointer go: nothing refers to them any more.     *)
LEMMA DeleteFatKeeps ==
  ASSUME SharedInv, NEW t \in Threads, DeleteFat(t)
  PROVE  SharedInv'
<1>0. PICK f : f = job[t].old
  OBVIOUS
<1>1. /\ pc[t] = "free" /\ fat' = [fat EXCEPT ![f] = Free] /\ UNCHANGED <<owner, var, live>>
      /\ job[t].op = "none" => Goto(t, "idle") /\ job' = [job EXCEPT ![t] = NoJob]
      /\ job[t].op # "none" => Goto(t, "attach") /\ UNCHANGED job
  BY <1>0 DEF DeleteFat, Return
<1>2. /\ f \in Fats /\ Refs(f) = {}
      /\ \A u \in Threads \ {t} : Deletes(u) => job[u].old # f
  <2>1. Deletes(t)
    BY <1>1 DEF Deletes
  <2> QED BY <1>0, <2>1 DEF SharedInv, DeleteInv
<1>3. /\ pc' \in [Threads -> {"idle", "count", "delete", "free", "attach"}]
      /\ job' \in [Threads -> Jobs]
      /\ job[t].op = "none" => pc'[t] = "idle" /\ job[t].v = None
      /\ job[t].op # "none" => pc'[t] = "attach" /\ job'[t] = job[t]
      /\ \A u \in Threads \ {t} : pc'[u] = pc[u] /\ job'[u] = job[u]
  <2>1. CASE job[t].op = "none"
    <3>1. job[t].v = None
      BY <1>1, <2>1 DEF SharedInv, JobInv, JobOK, Deletes
    <3> QED BY <1>1, <2>1, <3>1, NoJobs, Moves DEF SharedInv
  <2>2. CASE job[t].op # "none"
    BY <1>1, <2>2 DEF SharedInv, TypeOK, Goto
  <2> QED BY <2>1, <2>2
<1>4. /\ fat' \in [Fats -> [used : BOOLEAN, pointer : Objects \union {None}, counter : Int]]
      /\ fat'[f] = Free /\ \A g \in Fats \ {f} : fat'[g] = fat[g]
  BY <1>1, <1>2 DEF SharedInv, TypeOK, Free
<1>5. TypeOK'
  BY <1>1, <1>3, <1>4 DEF SharedInv, TypeOK
<1>6. \A x \in Vars : Out(x)' <=> Out(x)
  <2>1. CASE job[t].op = "none"
    <3>1. \A x \in Vars : Out(x)' <=> Out(x) /\ x # job[t].v
      BY <1>1, <1>3, <2>1, OutEnds
    <3> QED BY <1>3, <2>1, <3>1, SharedPtrAssumption
  <2>2. CASE job[t].op # "none"
    BY <1>1, <1>3, <2>2, OutGoesOn
  <2> QED BY <2>1, <2>2
<1>7. \A g \in Fats : Refs(g)' = Refs(g)
  BY <1>1, <1>6 DEF Refs
<1>8. JobInv'
  <2>1. JobOK(t)
    BY DEF SharedInv, JobInv
  <2>2. \A u \in Threads \ {t} : JobOK(u)'
    <3>1. pc'[t] # "idle" /\ job'[t].v \in Vars => owner[job'[t].v] = t
      BY <1>1, <1>3, <2>1 DEF JobOK
    <3> QED BY <1>1, <1>3, <3>1, OthersKept
  <2>3. CASE job[t].op = "none"
    <3>1. JobOK(t)'
      BY <1>3, <2>3 DEF JobOK, Deletes, Assigns
    <3> QED BY <2>2, <3>1 DEF JobInv
  <2>4. CASE job[t].op # "none"
    <3>1. JobOK(t)'
      BY <1>1, <1>3, <1>6, <2>1, <2>4 DEF JobOK, Deletes, Assigns
    <3> QED BY <2>2, <3>1 DEF JobInv
  <2> QED BY <2>3, <2>4
<1>9. \A u \in Threads : /\ Deletes(u)' <=> Deletes(u) /\ u # t
                         /\ Deletes(u)' => job'[u] = job[u] /\ job[u].old # f
  BY <1>1, <1>2, <1>3 DEF Deletes
<1>10. FatInv'
  <2>1. \A g \in Fats \ {f} :
          /\ Refs(g)' # {} => fat'[g].used
          /\ fat'[g].used /\ fat'[g].pointer # None =>
               /\ fat'[g].counter = Cardinality(Refs(g)')
               /\ Refs(g)' = {} => \E u \in Threads : Deletes(u)' /\ job'[u].old = g
    <3> TAKE g \in Fats \ {f}
    <3>1. \A u \in Threads : Deletes(u) /\ job[u].old = g => Deletes(u)' /\ job'[u].old = g
      BY <1>0, <1>9
    <3> QED BY <1>4, <1>7, <3>1 DEF SharedInv, FatInv
  <2>2. Refs(f)' = {} /\ ~fat'[f].used
    BY <1>2, <1>4, <1>7 DEF Free
  <2> QED BY <2>1, <2>2 DEF FatInv
<1>11. DeleteInv'
  <2>1. \A u \in Threads : Deletes(u)' => job'[u].old \in Fats \ {f}
    BY <1>9 DEF SharedInv, DeleteInv
  <2>2. \A g \in Fats \ {f}, u \in Threads : Deletes(u)' /\ job'[u].old = g =>
          /\ Refs(g)' = {} /\ fat'[g].used /\ fat'[g].pointer # None
          /\ \A x \in Threads \ {u} : Deletes(x)' => job'[x].old # g
    BY <1>4, <1>7, <1>9 DEF SharedInv, DeleteInv
  <2> QED BY <2>1, <2>2 DEF DeleteInv
<1>12. \A g \in Fats : Holds(g)' => Holds(g) /\ g # f /\ fat'[g] = fat[g]
  <2>1. ~Holds(f)'
    BY <1>4 DEF Holds, Free
  <2>2. \A g \in Fats \ {f} : Holds(g)' => Holds(g)
    BY <1>0, <1>3, <1>4 DEF Holds
  <2> QED BY <1>4, <2>1, <2>2
<1>13. \A u \in Threads : Brings(u)' => Brings(u) /\ job'[u].rhs = job[u].rhs
  BY <1>1, <1>3 DEF Brings, Assigns
<1>14. ObjectInv'
  <2>1. \A g \in Fats : Holds(g)' =>
          /\ fat'[g].pointer \in live'
          /\ \A h \in Fats \ {g} : Holds(h)' => fat'[h].pointer # fat'[g].pointer
    BY <1>1, <1>12 DEF SharedInv, ObjectInv
  <2>2. \A u \in Threads : Brings(u)' =>
          /\ job'[u].rhs \in live'
          /\ \A g \in Fats : Holds(g)' => fat'[g].pointer # job'[u].rhs
          /\ \A x \in Threads \ {u} : Brings(x)' => job'[x].rhs # job'[u].rhs
    BY <1>1, <1>12, <1>13 DEF SharedInv, ObjectInv
  <2> QED BY <2>1, <2>2 DEF ObjectInv
<1> QED BY <1>5, <1>8, <1>10, <1>11, <1>14 DEF SharedInv

-----------------------------------------------------------------------------
LEMMA InitShared == Init => SharedInv
<1> SUFFICES ASSUME Init PROVE SharedInv
  OBVIOUS
<1>1. /\ \A t \in Threads : pc[t] = "idle" /\ job[t] = NoJob
      /\ \A v \in Vars : var[v] = Dead
      /\ \A f \in Fats : ~fat[f].used
  BY DEF Init, Free
<1>2. TypeOK
  BY NoJobs DEF Init, TypeOK, Free
<1>3. \A f \in Fats : Refs(f) = {}
  BY <1>1, SharedPtrAssumption DEF Refs
<1>4. JobInv
  BY <1>1 DEF JobInv, JobOK, Deletes, Assigns
<1>5. FatInv /\ DeleteInv
  BY <1>1, <1>3 DEF FatInv, DeleteInv, Deletes
<1>6. ObjectInv
  BY <1>1 DEF ObjectInv, Holds, Brings, Assigns
<1> QED BY <1>2, <1>4, <1>5, <1>6 DEF SharedInv

LEMMA AttachKeeps ==
  ASSUME SharedInv, NEW t \in Threads, Attach(t)
  PROVE  SharedInv'
<1>1. job[t].op \in {"pointer", "copy", "move"}
  BY DEF Attach
<1> QED BY <1>1, AttachPointerKeeps, AttachCopyKeeps, AttachMoveKeeps

LEMMA NextShared == SharedInv /\ [Next]_vars => SharedInv'
<1> SUFFICES ASSUME SharedInv, [Next]_vars PROVE SharedInv'
  OBVIOUS
<1>1. CASE UNCHANGED vars
  <2>1. /\ owner' = owner /\ var' = var /\ fat' = fat /\ live' = live
        /\ pc' = pc /\ job' = job
    BY <1>1 DEF vars
  <2>2. TypeOK'
    BY <2>1 DEF SharedInv, TypeOK
  <2>3. /\ \A x \in Vars : Out(x)' <=> Out(x)
        /\ \A f \in Fats : Refs(f)' = Refs(f)
    BY <2>1 DEF Refs, Out
  <2>4. \A t \in Threads : /\ Deletes(t)' <=> Deletes(t)
                           /\ Assigns(t)' <=> Assigns(t)
                           /\ Brings(t)' <=> Brings(t)
    BY <2>1 DEF Deletes, Brings, Assigns
  <2>5. ASSUME NEW t \in Threads PROVE JobOK(t)'
    BY <2>1, <2>3, <2>4 DEF SharedInv, JobInv, JobOK
  <2>6. FatInv' /\ DeleteInv'
    BY <2>1, <2>3, <2>4 DEF SharedInv, FatInv, DeleteInv
  <2>7. \A f \in Fats : Holds(f)' <=> Holds(f)
    BY <2>1 DEF Holds
  <2>8. ObjectInv'
    BY <2>1, <2>4, <2>7 DEF SharedInv, ObjectInv
  <2> QED BY <2>2, <2>5, <2>6, <2>8 DEF SharedInv, JobInv
<1>2. CASE Next
  <2>1. PICK t \in Threads :
          \/ DeleteObject(t) \/ DeleteFat(t) \/ Attach(t) \/ CountCopy(t)
          \/ \E v \in Vars :
               \/ \E o \in (Objects \ live) \union {None} :
                    MakeShared(t, v, o) \/ AssignPointer(t, v, o)
               \/ \E w \in Vars : \/ CopyConstruct(t, v, w) \/ MoveConstruct(t, v, w)
                                  \/ AssignCopy(t, v, w) \/ AssignMove(t, v, w)
               \/ Destroy(t, v)
               \/ \E to \in (Threads \ {t}) \union {None} : Hand(t, v, to)
    BY <1>2 DEF Next
  <2>2. CASE DeleteObject(t) \/ DeleteFat(t) \/ Attach(t) \/ CountCopy(t)
    BY <2>2, DeleteObjectKeeps, DeleteFatKeeps, AttachKeeps, CountCopyKeeps
  <2>3. ASSUME NEW v \in Vars, NEW o \in (Objects \ live) \union {None},
               MakeShared(t, v, o) \/ AssignPointer(t, v, o)
        PROVE  SharedInv'
    BY <2>3, MakeSharedKeeps, AssignPointerKeeps
  <2>4. ASSUME NEW v \in Vars, NEW w \in Vars,
               \/ CopyConstruct(t, v, w) \/ MoveConstruct(t, v, w)
               \/ AssignCopy(t, v, w) \/ AssignMove(t, v, w)
        PROVE  SharedInv'
    BY <2>4, CopyConstructKeeps, MoveConstructKeeps, AssignCopyKeeps, AssignMoveKeeps
  <2>5. ASSUME NEW v \in Vars, Destroy(t, v) PROVE SharedInv'
    BY <2>5, DestroyKeeps
  <2>6. ASSUME NEW v \in Vars, NEW to \in (Threads \ {t}) \union {None}, Hand(t, v, to)
        PROVE  SharedInv'
    BY <2>6, HandKeeps
  <2> QED BY <2>1, <2>2, <2>3, <2>4, <2>5, <2>6
<1> QED BY <1>1, <1>2

(* Counters, deletions and objects, and what threads are in the middle of, *)
(* agree after every step of every member function of Shared.              *)
THEOREM SharedCorrect == Spec => []SharedInv
<1>1. Init => SharedInv
  BY InitShared
<1>2. SharedInv /\ [Next]_vars => SharedInv'
  BY NextShared
<1> QED BY <1>1, <1>2, PTL DEF Spec

(* The counter of every FatPointer with an object is the number of         *)
(* variables that refer to it: none is counted twice, or not at all,       *)
(* whatever runs on other cores between the copy and incrementCounter().   *)
THEOREM CountExactCorrect == Spec => []CountExact
<1>1. SharedInv => CountExact
  BY DEF SharedInv, FatInv, CountExact
<1> QED BY <1>1, SharedCorrect, PTL

(* Nothing is used after it was deleted, nothing is deleted twice, and     *)
(* decrementCounter() deletes every object that nothing refers to.         *)
THEOREM DeletedOnceCorrect == Spec => []DeletedOnce
<1>1. ASSUME SharedInv PROVE DeletedOnce
  <2>1. ASSUME NEW f \in Fats, Refs(f) # {}
        PROVE  fat[f].used /\ (fat[f].pointer # None => fat[f].pointer \in live)
    <3>1. fat[f].used
      BY <1>1, <2>1 DEF SharedInv, FatInv
    <3>2. \A t \in Threads : pc[t] = "free" => job[t].old # f
      BY <1>1, <2>1 DEF SharedInv, DeleteInv, Deletes
    <3> QED BY <1>1, <3>1, <3>2 DEF SharedInv, ObjectInv, Holds
  <2>2. ASSUME NEW t \in Threads, pc[t] = "delete"
        PROVE  /\ fat[job[t].old].pointer \in live
               /\ \A u \in Threads \ {t} :
                    pc[u] \in {"delete", "free"} => job[u].old # job[t].old
    <3>1. PICK f : f = job[t].old
      OBVIOUS
    <3>2. /\ f \in Fats /\ fat[f].used /\ fat[f].pointer # None
          /\ \A u \in Threads \ {t} : Deletes(u) => job[u].old # f
      BY <1>1, <2>2, <3>1 DEF SharedInv, DeleteInv, Deletes
    <3>3. Holds(f)
      BY <2>2, <3>2 DEF Holds, Deletes
    <3> QED BY <1>1, <3>1, <3>2, <3>3 DEF SharedInv, ObjectInv, Deletes
  <2>3. ASSUME NEW f \in Fats, fat[f].used, \A v \in Vars : var[v] # f
        PROVE  \/ fat[f].pointer = None
               \/ \E t \in Threads : pc[t] \in {"delete", "free"} /\ job[t].old = f
    <3>1. Refs(f) = {}
      BY <2>3 DEF Refs
    <3> QED BY <1>1, <2>3, <3>1 DEF SharedInv, FatInv, Deletes
  <2> QED BY <2>1, <2>2, <2>3 DEF DeletedOnce
<1> QED BY <1>1, SharedCorrect, PTL

=============================================================================
