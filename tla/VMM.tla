--------------------------------- MODULE VMM ---------------------------------
(***************************************************************************)
(* Address spaces: kernel/vmm.cc, vmm.h, physmem.cc, and the parts of      *)
(* process.cc, sys.cc and elf.cc that build, copy and delete them.         *)
(*                                                                         *)
(* A process has a page directory, page tables and a list of mappings      *)
(* (VMEntry); a page fault turns a mapping into page table entries.  Pages *)
(* of MAP_SHARED file mappings come from the list node_list, which all     *)
(* processes use without a lock.  A process has one thread, so it is its   *)
(* own only actor on its list and its tables until it exits.  System calls *)
(* and faults run with interrupts on: between any two steps below other    *)
(* processes may run.  A walk of node_list is one step.                    *)
(*                                                                         *)
(* Addresses are numbers modulo Space (2^32); user addresses start at Base *)
(* (0x80000000).  Below it all processes share the kernel's tables.        *)
(***************************************************************************)
EXTENDS Integers, SequencesExt

CONSTANTS
  Procs,      (* the processes the kernel may ever create                  *)
  First,      (* the process of init, which exists from the start          *)
  Files,      (* the files that can be mapped, by inode number             *)
  NFrames,    (* physical frames for page directories, tables and pages    *)
  FrameSize,  (* bytes in a frame (4096 in physmem.h)                      *)
  NPages,     (* pages above Base (2^19), as many as below                 *)
  PtSpan,     (* pages one page table maps (1024)                          *)
  ApicPage,   (* the page of the APIC's registers                          *)
  Image, Stack,  (* what exec maps: [addr, length]                         *)
  Requests,   (* the arguments of mmap calls                               *)
  Touches,    (* the pages the programs access                             *)
  UninitNode, (* what else than a freed pointer VMEntry::node may hold,    *)
              (* which nothing initialises                                 *)
  MaxEntries, (* bound on the mappings of a process                        *)
  MaxNodes,   (* bound on the NodeEntries ever made                        *)
  Loaders,    (* the processes that call exec, but for init's first call   *)
  NumMod,     (* num_processes is a number modulo NumMod (2^32)            *)
  Preempt,    (* other processes may run inside faults and system calls    *)
  Tidy,       (* processes fork, exec and exit without file mappings, and  *)
              (* munmap no mapping but shared ones they have touched       *)
  Early,      (* processes fork and exit only with mappings that were made *)
              (* before the heap had a pointer to a node in freed memory   *)
  Killable,   (* processes a timer tick may find killed                    *)
  None, Junk  (* nullptr, and a pointer that was never set                 *)

Frames == 1..NFrames
Base == NPages * FrameSize
Space == 2 * Base
Vpns == NPages..(2 * NPages - 1)
Vpn(va) == va \div FrameSize
Pdi(v) == v \div PtSpan
Pdis == {Pdi(v) : v \in Vpns}
NodeIds == 1..MaxNodes

(* The constructor of VMEntry leaves `node' as the heap block has it, and  *)
(* in the block of a deleted VMEntry that is a pointer to a NodeEntry.     *)
(* -k is such a pointer to node k in a mapping that no fault has given a   *)
(* node yet: the same pointer, told apart from k only by how it got there. *)
StaleIds == {-k : k \in NodeIds}

ASSUME VMMAssumption ==
  /\ First \in Procs
  /\ NFrames \in Nat \ {0, 1} /\ NPages \in Nat \ {0}
  /\ FrameSize \in Nat \ {0} /\ PtSpan \in Nat \ {0} /\ NumMod \in Nat \ {0, 1}
  /\ NPages % PtSpan = 0
  /\ ApicPage \in Vpns
  /\ Touches \subseteq Vpns \ {ApicPage}
  /\ {Preempt, Tidy, Early} \subseteq BOOLEAN
  /\ Loaders \subseteq Procs /\ Killable \subseteq Procs
  /\ UninitNode \subseteq {None, Junk}
  /\ Requests \subseteq [addr : 0..(Space - 1), length : Nat, file : Files \union {None},
                         off : Nat, shared : BOOLEAN, fixed : BOOLEAN, read : BOOLEAN]
  /\ {Image, Stack} \subseteq [addr : 0..(Space - 1), length : Nat]
  /\ MaxNodes \in Nat
  /\ None \notin Procs \union Files \union Int /\ Junk \notin Int /\ None # Junk

VARIABLES
  supply,   (* the frames alloc_frame() returns next: the free list, then  *)
            (* the frames from avail to limit                              *)
  status,   (* [process] unborn, young (in its parent's fork), live,       *)
            (* exited, gone                                                *)
  pc,       (* [process] user, or the step its system call or fault is at  *)
  pd,       (* [process] the frame of its page directory                   *)
  table,    (* [process][pdi] the frame of the page table                  *)
  page,     (* [process][vpn] the frame in the page table entry            *)
  entries,  (* [process] entry_list                                        *)
  call,     (* [process] the locals of its system call or fault            *)
  nodes,    (* the NodeEntries made so far; none is ever deleted           *)
  nodeList, (* node_list, indices of nodes                                 *)
  freed,    (* the nodes that blocks of deleted VMEntries point to         *)
  shows,    (* [frame] its contents: Zeroes, FreeLink or <<f, k>>, page k  *)
            (* of file f                                                   *)
  halt      (* "no", "panic", or "wild": a write through Junk              *)

spaceVars == <<pd, table, page>>
nodeVars  == <<nodes, nodeList, freed>>
vars == <<supply, status, pc, spaceVars, entries, call, nodeVars, shows, halt>>

-----------------------------------------------------------------------------
(* PhysMem.                                                                *)
FrameDown(a) == (a \div FrameSize) * FrameSize
FrameUp(a) == FrameDown((a + FrameSize - 1) % Space)

(* A cleared frame, and one with the link of the free list in it.          *)
Zeroes == << >>
FreeLink == <<None>>

(* alloc_frame(): the first frame, cleared, and then filled with content.  *)
(* Without a frame it panics, see OutOfFrames.                             *)
Alloc(content) ==
  /\ supply # << >>
  /\ supply' = Tail(supply)
  /\ shows' = [shows EXCEPT ![Head(supply)] = content]

(* dealloc_frame(): f becomes the first free frame, and its first word the *)
(* link to the next.                                                       *)
Dealloc(f) ==
  /\ supply' = <<f>> \o supply
  /\ shows' = [shows EXCEPT ![f] = FreeLink]

-----------------------------------------------------------------------------
(* mmap.                                                                   *)
IsSpecial(va) == va < Base \/ va = ApicPage * FrameSize
End(e) == (e.start + e.size) % Space
Covers(e, va) == va >= e.start /\ va < End(e)

(* The first entry of list es that covers va, 0 if none does.              *)
Find(es, va) ==
  LET hits == {i \in DOMAIN es : Covers(es[i], va)}
  IN  IF hits = {} THEN 0 ELSE CHOOSE i \in hits : \A j \in hits : i <= j

(* The room between two entries takes size bytes at va.                    *)
Fits(va, size, prev, temp) ==
  va >= End(prev) /\ (va + size) % Space < temp.start

(* Mutated form: va is not moved behind the entry it runs into.            *)
LookAtKeeps(es, size, va, k) ==
  IF va >= es[k].start THEN [va |-> va, room |-> FALSE]
  ELSE [va |-> va, room |-> Fits(va, size, es[k - 1], es[k])]

(* The walk of mmap: temp is entry k and prev entry k - 1.  It looks at    *)
(* entries 2, 3, ... until one has room before it, and so never at the     *)
(* room before the first and behind the last.                              *)
LookAt(es, size, va, k) ==
  IF va >= es[k].start THEN [va |-> va, room |-> FALSE]
  ELSE IF Fits(va, size, es[k - 1], es[k]) THEN [va |-> va, room |-> TRUE]
  ELSE [va |-> End(es[k - 1]), room |-> Fits(End(es[k - 1]), size, es[k - 1], es[k])]

(* The address chosen, and the entry the new one is linked behind.         *)
Place(es, va, size) ==
  LET walk[k \in 1..Len(es)] ==
        IF k = 1 THEN [va |-> va, room |-> FALSE]
        ELSE IF walk[k - 1].room THEN walk[k - 1]
        ELSE LookAt(es, size, walk[k - 1].va, k)
      found == {k \in 1..Len(es) : walk[k].room}
  IN  IF es = << >> THEN [va |-> va, after |-> 0]
      ELSE [va |-> walk[Len(es)].va, after |-> Len(es) - Cardinality(found)]

(* What the node of a new entry may be, and the node it points to.         *)
Leftovers == UninitNode \union {-k : k \in freed}
Pointee(e) == IF e.node \in StaleIds THEN -e.node ELSE e.node
HasStale(p) == \E i \in DOMAIN entries[p] : entries[p][i].node \in StaleIds

(* mmap of request r in list es, node being what the new entry's node is.  *)
Insert(es, r, node) ==
  LET p == Place(es, IF r.addr = 0 THEN Base ELSE r.addr, FrameUp(r.length))
      e == [start |-> p.va, size |-> FrameUp(r.length), file |-> r.file,
            off |-> r.off, shared |-> r.shared, read |-> r.read, node |-> node]
  IN  SubSeq(es, 1, p.after) \o <<e>> \o SubSeq(es, p.after + 1, Len(es))

(* mmap refuses special addresses, and with MAP_FIXED any other address.   *)
Accepts(es, r) ==
  LET va == IF r.addr = 0 THEN Base ELSE r.addr
  IN  /\ ~IsSpecial(va)
      /\ r.fixed => Place(es, va, FrameUp(r.length)).va = r.addr

(* What exec passes to mmap for the image and the stack.                   *)
Anonymous(m) ==
  [addr |-> m.addr, length |-> m.length, file |-> None, off |-> 0,
   shared |-> TRUE, fixed |-> FALSE, read |-> TRUE]

-----------------------------------------------------------------------------
(* Processes.                                                              *)
ApicPdi == Pdi(ApicPage)
NoCall == [va |-> 0, end |-> 0, physical |-> FALSE, frame |-> None,
           tail |-> None, node |-> None, child |-> None]
Nowhere(S) == [x \in S |-> None]
Lowest(S) == CHOOSE x \in S : \A y \in S : x <= y

(* The init process has what make_pd() makes, a directory and the table of *)
(* the APIC's page, and is in exec(), about to load its program.           *)
Init ==
  /\ supply = [i \in 1..(NFrames - 2) |-> i + 2]
  /\ status = [p \in Procs |-> IF p = First THEN "live" ELSE "unborn"]
  /\ pc = [p \in Procs |-> IF p = First THEN "clear" ELSE "user"]
  /\ pd = [p \in Procs |-> IF p = First THEN 1 ELSE None]
  /\ table = [p \in Procs |->
               [i \in Pdis |-> IF p = First /\ i = ApicPdi THEN 2 ELSE None]]
  /\ page = [p \in Procs |-> Nowhere(Vpns)]
  /\ entries = [p \in Procs |-> << >>]
  /\ call = [p \in Procs |-> NoCall]
  /\ nodes = << >>
  /\ nodeList = << >>
  /\ freed = {}
  /\ shows = [f \in Frames |-> Zeroes]
  /\ halt = "no"

(* Process p is at step l.                                                 *)
At(p, l) ==
  /\ halt = "no"
  /\ status[p] = "live" /\ pc[p] = l
  /\ ~Preempt => \A q \in Procs \ {p} : status[q] = "live" => pc[q] = "user"

Goto(p, l) == pc' = [pc EXCEPT ![p] = l]
Return(p) == Goto(p, "user") /\ call' = [call EXCEPT ![p] = NoCall]

(* The process ends: a kill, or the page fault handler's exit(1).          *)
Die(p) ==
  /\ status' = [status EXCEPT ![p] = "exited"]
  /\ entries' = [entries EXCEPT ![p] = << >>]
  /\ Return(p)

MapsFiles(p) == \E i \in DOMAIN entries[p] : entries[p][i].file # None

(* n more references to what the entries es have in node, set or left over.*)
Count(es, n) ==
  LET refs(k) == {i \in DOMAIN es : Pointee(es[i]) = k}
  IN  /\ nodes' = [k \in DOMAIN nodes |->
                     [nodes[k] EXCEPT !.num = (@ + n * Cardinality(refs(k))) % NumMod]]
      /\ halt' = IF refs(Junk) = {} THEN halt ELSE "wild"

-----------------------------------------------------------------------------
(* System call mmap.                                                       *)
Mmap(p, r) ==
  /\ At(p, "user")
  /\ Len(entries[p]) < MaxEntries
  /\ Accepts(entries[p], r)
  /\ \E node \in Leftovers :
       entries' = [entries EXCEPT ![p] = Insert(@, r, node)]
  /\ UNCHANGED <<supply, status, pc, spaceVars, call, nodeVars, shows, halt>>

-----------------------------------------------------------------------------
(* vmm_pageFault.                                                          *)

(* Mutated form: the numbers of the files are not compared.                *)
ListedAny(f) == IF nodeList = << >> THEN 0 ELSE 1

(* The place in node_list of the first node of file f, 0 if it has none.   *)
Listed(f) ==
  LET hits == {i \in DOMAIN nodeList : nodes[nodeList[i]].file = f}
  IN  IF hits = {} THEN 0 ELSE Lowest(hits)

(* The entry of p that covers the address it has faulted at.               *)
FaultEntry(p, va) == entries[p][Find(entries[p], va)]
FromList(e) == e.file # None /\ e.shared

(* p touches an unmapped page that none of its mappings covers.            *)
FaultFatal(p) ==
  /\ At(p, "user")
  /\ Tidy => ~MapsFiles(p)
  /\ \E v \in Vpns : page[p][v] = None /\ Find(entries[p], v * FrameSize) = 0
  /\ Die(p)
  /\ UNCHANGED <<supply, spaceVars, nodeVars, shows, halt>>

(* ... a page of a private or anonymous mapping, or of a shared one of a   *)
(* file that is not in node_list: it needs a frame.                        *)
FaultMiss(p, v) ==
  LET va == v * FrameSize
      e  == FaultEntry(p, va)
  IN  /\ At(p, "user")
      /\ page[p][v] = None /\ Find(entries[p], va) # 0
      /\ FromList(e) => Listed(e.file) = 0 /\ Len(nodes) < MaxNodes
      /\ Goto(p, "alloc")
      /\ call' = [call EXCEPT
                   ![p].va = va,
                   ![p].tail = IF FromList(e) /\ nodeList # << >> THEN Last(nodeList) ELSE None]
      /\ UNCHANGED <<supply, status, spaceVars, entries, nodeVars, shows, halt>>

(* Mutated form: the mapping is not counted.                               *)
FaultHitUncounted(p, v) ==
  LET va == v * FrameSize
      i  == Find(entries[p], va)
      k  == nodeList[Listed(entries[p][i].file)]
  IN  /\ At(p, "user")
      /\ page[p][v] = None /\ i # 0
      /\ FromList(entries[p][i]) /\ Listed(entries[p][i].file) # 0
      /\ entries' = [entries EXCEPT ![p][i].node = k]
      /\ call' = [call EXCEPT ![p].va = va, ![p].frame = nodes[k].pa]
      /\ Goto(p, "map")
      /\ UNCHANGED <<supply, status, spaceVars, nodeVars, shows, halt>>

(* ... a page of a shared mapping of a file that is in node_list: it gets  *)
(* the frame found there.                                                  *)
FaultHit(p, v) ==
  LET va == v * FrameSize
      i  == Find(entries[p], va)
      k  == nodeList[Listed(entries[p][i].file)]
  IN  /\ At(p, "user")
      /\ page[p][v] = None /\ i # 0
      /\ FromList(entries[p][i]) /\ Listed(entries[p][i].file) # 0
      /\ entries' = [entries EXCEPT ![p][i].node = k]
      /\ nodes' = [nodes EXCEPT ![k].num = (@ + 1) % NumMod]
      /\ call' = [call EXCEPT ![p].va = va, ![p].frame = nodes[k].pa]
      /\ Goto(p, "map")
      /\ UNCHANGED <<supply, status, spaceVars, nodeList, freed, shows, halt>>

(* alloc_frame(), and the NodeEntry of a file that had none.               *)
FaultAlloc(p) ==
  LET e == FaultEntry(p, call[p].va)
  IN  /\ At(p, "alloc")
      /\ Alloc(Zeroes)
      /\ IF FromList(e)
         THEN /\ Len(nodes) < MaxNodes
              /\ nodes' = Append(nodes, [file |-> e.file, pa |-> Head(supply), num |-> 1])
              /\ call' = [call EXCEPT ![p].frame = Head(supply), ![p].node = Len(nodes) + 1]
              /\ Goto(p, "link")
         ELSE /\ call' = [call EXCEPT ![p].frame = Head(supply)]
              /\ Goto(p, "map")
              /\ UNCHANGED nodes
      /\ UNCHANGED <<status, spaceVars, entries, nodeList, freed, halt>>

(* Mutated form: the new node is not linked.                               *)
LinkNodeNot(p) ==
  /\ At(p, "link")
  /\ Goto(p, "read")
  /\ UNCHANGED <<supply, status, spaceVars, entries, call, nodeVars, shows, halt>>

(* The new node becomes the list, or the next of the node that was last.   *)
(* What was linked behind that one since then is cut off, and the new node *)
(* is lost if that one has left the list.                                  *)
LinkNode(p) ==
  LET tail == call[p].tail
      new  == <<call[p].node>>
      i    == {j \in DOMAIN nodeList : nodeList[j] = tail}
  IN  /\ At(p, "link")
      /\ nodeList' = IF tail = None THEN new
                     ELSE IF i = {} THEN nodeList
                     ELSE SubSeq(nodeList, 1, Lowest(i)) \o new
      /\ Goto(p, "read")
      /\ UNCHANGED <<supply, status, spaceVars, entries, call, nodes, freed, shows, halt>>

(* With read permission the page is read from the file; the entry gets its *)
(* node.                                                                   *)
ReadFile(p) ==
  LET i == Find(entries[p], call[p].va)
      e == entries[p][i]
  IN  /\ At(p, "read")
      /\ shows' = [shows EXCEPT ![call[p].frame] =
                    IF e.read THEN <<e.file, Vpn(e.off + call[p].va - e.start)>> ELSE Zeroes]
      /\ entries' = [entries EXCEPT ![p][i].node = call[p].node]
      /\ Goto(p, "map")
      /\ UNCHANGED <<supply, status, spaceVars, call, nodeVars, halt>>

(* user_map(): the table, if it is missing, and the entry in it.           *)
MapTable(p) ==
  LET i == Pdi(Vpn(call[p].va))
  IN  /\ At(p, "map") /\ table[p][i] = None
      /\ Alloc(Zeroes)
      /\ table' = [table EXCEPT ![p][i] = Head(supply)]
      /\ UNCHANGED <<status, pc, pd, page, entries, call, nodeVars, halt>>

MapPage(p) ==
  LET v == Vpn(call[p].va)
  IN  /\ At(p, "map") /\ table[p][Pdi(v)] # None
      /\ page' = [page EXCEPT ![p][v] = call[p].frame]
      /\ Return(p)
      /\ UNCHANGED <<supply, status, pd, table, entries, nodeVars, shows, halt>>

-----------------------------------------------------------------------------
(* System call munmap, of entry i: the entry is removed and its reference  *)
(* given back, its pages are unmapped one after the other, and if physical *)
(* their frames are freed and the node leaves node_list.                   *)

(* Mutated form: the count does not matter.                                *)
LastToGoAlways(k) == TRUE

(* The last mapping of a shared page to go frees the frame.                *)
LastToGo(k) == nodes[k].num = 1

(* A shared mapping without a node ends the process, which faults in the   *)
(* kernel at the null pointer.                                             *)
Munmap(p, i) ==
  LET e == entries[p][i]
      k == Pointee(e)
  IN  /\ At(p, "user")
      /\ \E a \in Base..(Space - 1) : ~IsSpecial(a) /\ Find(entries[p], a) = i
      /\ Tidy => FromList(e) /\ e.node \in NodeIds
      /\ \/ /\ e.shared => k \in NodeIds
            /\ entries' = [entries EXCEPT ![p] = RemoveAt(@, i)]
            /\ nodes' = IF e.shared THEN [nodes EXCEPT ![k].num = (@ - 1) % NumMod]
                        ELSE nodes
            /\ call' = [call EXCEPT ![p].va = e.start, ![p].end = End(e), ![p].node = k,
                                    ![p].physical = e.shared => LastToGo(k)]
            /\ Goto(p, "unmap")
            /\ UNCHANGED <<status, halt>>
         \/ /\ e.shared /\ k = None
            /\ Die(p)
            /\ UNCHANGED <<nodes, halt>>
         \/ /\ e.shared /\ k = Junk
            /\ halt' = "wild"
            /\ UNCHANGED <<status, pc, entries, call, nodes>>
      /\ UNCHANGED <<supply, spaceVars, nodeList, freed, shows>>

(* unmap() of the next page.  To unmap a page of the kernel or of the APIC *)
(* is as bad as a wild write.                                              *)
Unmap(p) ==
  LET v == Vpn(call[p].va)
  IN  /\ At(p, "unmap") /\ call[p].va < call[p].end
      /\ \/ /\ v \in Vpns \ {ApicPage}
            /\ page' = [page EXCEPT ![p][v] = None]
            /\ IF call[p].physical /\ page[p][v] # None THEN Dealloc(page[p][v])
               ELSE UNCHANGED <<supply, shows>>
            /\ call' = [call EXCEPT ![p].va = @ + FrameSize]
            /\ UNCHANGED halt
         \/ /\ v \notin Vpns \ {ApicPage}
            /\ halt' = "wild"
            /\ UNCHANGED <<page, supply, shows, call>>
      /\ UNCHANGED <<status, pc, pd, table, entries, nodeVars>>

(* The first node of the file leaves node_list; the null list, and the     *)
(* null node of a private mapping, fault.  Then the VMEntry is deleted,    *)
(* and its block keeps the pointer to the node.                            *)
Unlink(p) ==
  LET k == call[p].node
      i == Listed(nodes[k].file)
  IN  /\ At(p, "unmap") /\ call[p].va >= call[p].end
      /\ \/ /\ ~call[p].physical
            /\ freed' = freed \union ({k} \intersect NodeIds)
            /\ Return(p)
            /\ UNCHANGED <<status, entries, nodeList, halt>>
         \/ /\ call[p].physical /\ (nodeList = << >> \/ k = None)
            /\ Die(p)
            /\ UNCHANGED <<nodeList, freed, halt>>
         \/ /\ call[p].physical /\ nodeList # << >> /\ k = Junk
            /\ halt' = "wild"
            /\ UNCHANGED <<status, pc, entries, call, nodeList, freed>>
         \/ /\ call[p].physical /\ nodeList # << >> /\ k \in NodeIds
            /\ nodeList' = IF i = 0 THEN nodeList ELSE RemoveAt(nodeList, i)
            /\ freed' = freed \union {k}
            /\ Return(p)
            /\ UNCHANGED <<status, entries, halt>>
      /\ UNCHANGED <<supply, spaceVars, nodes, shows>>

-----------------------------------------------------------------------------
(* System call fork.                                                       *)
Fork(p) ==
  /\ At(p, "user")
  /\ Tidy => ~MapsFiles(p)
  /\ Early => ~HasStale(p)
  /\ \E c \in Procs : /\ status[c] = "unborn"
                       /\ status' = [status EXCEPT ![c] = "young"]
                       /\ call' = [call EXCEPT ![p].child = c]
  /\ Goto(p, "fork")
  /\ UNCHANGED <<supply, spaceVars, entries, nodeVars, shows, halt>>

(* The tables and pages of p that child c does not have yet.               *)
Uncopied(p, c) ==
  {i \in Pdis : /\ table[p][i] # None
                /\ \/ table[c][i] = None
                   \/ \E v \in Vpns : Pdi(v) = i /\ page[p][v] # None /\ page[c][v] = None}

(* make_pd(): the directory, then the APIC's table.                        *)
ForkPd(p) ==
  LET c == call[p].child
  IN  /\ At(p, "fork")
      /\ Alloc(Zeroes)
      /\ \/ /\ pd[c] = None
            /\ pd' = [pd EXCEPT ![c] = Head(supply)]
            /\ UNCHANGED table
         \/ /\ pd[c] # None /\ table[c][ApicPdi] = None
            /\ table' = [table EXCEPT ![c][ApicPdi] = Head(supply)]
            /\ UNCHANGED pd
      /\ UNCHANGED <<status, pc, page, entries, call, nodeVars, halt>>

(* The copy in the order of the addresses: a table, or a page and what it  *)
(* shows.                                                                  *)
ForkCopy(p) ==
  LET c == call[p].child
      i == Lowest(Uncopied(p, c))
      v == Lowest({w \in Vpns : Pdi(w) = i /\ page[p][w] # None /\ page[c][w] = None})
  IN  /\ At(p, "fork")
      /\ pd[c] # None /\ table[c][ApicPdi] # None /\ Uncopied(p, c) # {}
      /\ IF table[c][i] = None
         THEN /\ Alloc(Zeroes)
              /\ table' = [table EXCEPT ![c][i] = Head(supply)]
              /\ UNCHANGED page
         ELSE /\ Alloc(shows[page[p][v]])
              /\ page' = [page EXCEPT ![c][v] = Head(supply)]
              /\ UNCHANGED table
      /\ UNCHANGED <<status, pc, pd, entries, call, nodeVars, halt>>

(* The entries with their nodes, set or left over, and one more reference  *)
(* to each node; then the child's thread is started.                       *)
ForkEnd(p) ==
  LET c == call[p].child
  IN  /\ At(p, "fork")
      /\ pd[c] # None /\ table[c][ApicPdi] # None /\ Uncopied(p, c) = {}
      /\ entries' = [entries EXCEPT ![c] = entries[p]]
      /\ Count(entries[p], 1)
      /\ status' = [status EXCEPT ![c] = "live"]
      /\ Return(p)
      /\ UNCHANGED <<supply, spaceVars, nodeList, freed, shows>>

-----------------------------------------------------------------------------
(* System call exec.  clear_private() frees the pages and their tables but *)
(* the APIC's, one after the other; the entries stay.                      *)
Exec(p) ==
  /\ At(p, "user") /\ p \in Loaders
  /\ Tidy => ~MapsFiles(p)
  /\ Len(entries[p]) + 2 <= MaxEntries
  /\ Goto(p, "clear")
  /\ UNCHANGED <<supply, status, spaceVars, entries, call, nodeVars, shows, halt>>

PagesIn(p, i) == {v \in Vpns : Pdi(v) = i /\ page[p][v] # None}

(* Mutated forms: the page table entry stays; the present bit is not       *)
(* looked at; the pages in the table are forgotten.                        *)
FreeInKeeps(p, i) ==
  /\ Dealloc(IF PagesIn(p, i) # {} THEN page[p][Lowest(PagesIn(p, i))] ELSE table[p][i])
  /\ table' = [table EXCEPT ![p][i] = IF PagesIn(p, i) # {} THEN @ ELSE None]
  /\ UNCHANGED page
FreeInAbsent(p, i) ==
  LET v == Lowest({w \in Vpns : Pdi(w) = i})
  IN  /\ Dealloc(page[p][v])
      /\ page' = [page EXCEPT ![p][v] = None]
      /\ UNCHANGED table
FreeInForgets(p, i) ==
  /\ Dealloc(table[p][i])
  /\ table' = [table EXCEPT ![p][i] = None]
  /\ page' = [page EXCEPT ![p] = [v \in Vpns |-> IF Pdi(v) = i THEN None ELSE @[v]]]

(* The first page in table i is freed, or the table if it has none.        *)
FreeIn(p, i) ==
  IF PagesIn(p, i) # {}
  THEN LET v == Lowest(PagesIn(p, i))
       IN  /\ Dealloc(page[p][v])
           /\ page' = [page EXCEPT ![p][v] = None]
           /\ UNCHANGED table
  ELSE /\ Dealloc(table[p][i])
       /\ table' = [table EXCEPT ![p][i] = None]
       /\ UNCHANGED page

Clearable(p) == {i \in Pdis : table[p][i] # None /\ (i = ApicPdi => PagesIn(p, i) # {})}
ExecClear(p) ==
  /\ At(p, "clear") /\ Clearable(p) # {}
  /\ FreeIn(p, Lowest(Clearable(p)))
  /\ UNCHANGED <<status, pc, pd, entries, call, nodeVars, halt>>

(* ELF::load and exec() map the image and the stack.                       *)
ExecLoad(p) ==
  /\ At(p, "clear") /\ Clearable(p) = {}
  /\ \E image, stack \in Leftovers :
       entries' = [entries EXCEPT
         ![p] = Insert(Insert(@, Anonymous(Image), image), Anonymous(Stack), stack)]
  /\ Return(p)
  /\ UNCHANGED <<supply, status, spaceVars, nodeVars, shows, halt>>

-----------------------------------------------------------------------------
(* System call exit: decrementFiles(), then the process ends.              *)
Exit(p) ==
  /\ At(p, "user")
  /\ Tidy => ~MapsFiles(p)
  /\ Early => ~HasStale(p)
  /\ Count(entries[p], -1)
  /\ Die(p)
  /\ UNCHANGED <<supply, spaceVars, nodeList, freed, shows>>

Points == {"user", "alloc", "link", "read", "map", "unmap", "fork", "clear"}

(* A timer tick that finds the kill flag ends p wherever it is.            *)
Kill(p) ==
  /\ \E l \in Points : At(p, l)
  /\ p \in Killable
  /\ Die(p)
  /\ UNCHANGED <<supply, spaceVars, nodeVars, shows, halt>>

(* ~Process() when the reaper has deleted the thread: delete_pd().         *)
DeletePd(p) ==
  LET left == {i \in Pdis : table[p][i] # None}
  IN  /\ halt = "no" /\ status[p] = "exited"
      /\ IF left # {} THEN FreeIn(p, Lowest(left)) /\ UNCHANGED <<pd, status>>
         ELSE /\ Dealloc(pd[p])
              /\ pd' = [pd EXCEPT ![p] = None]
              /\ status' = [status EXCEPT ![p] = "gone"]
              /\ UNCHANGED <<table, page>>
      /\ UNCHANGED <<pc, entries, call, nodeVars, halt>>

(* alloc_frame() panics: there is no frame for the next step of p.         *)
NeedsFrame(p) ==
  \/ At(p, "alloc")
  \/ At(p, "map") /\ table[p][Pdi(Vpn(call[p].va))] = None
  \/ At(p, "fork") /\ ~(pd[call[p].child] # None /\ Uncopied(p, call[p].child) = {})
OutOfFrames(p) ==
  /\ NeedsFrame(p) /\ supply = << >>
  /\ halt' = "panic"
  /\ UNCHANGED <<supply, status, pc, spaceVars, entries, call, nodeVars, shows>>

Step(p) ==
  \/ \E r \in Requests : Mmap(p, r)
  \/ FaultFatal(p) \/ (\E v \in Touches : FaultMiss(p, v) \/ FaultHit(p, v))
  \/ FaultAlloc(p) \/ LinkNode(p) \/ ReadFile(p) \/ MapTable(p) \/ MapPage(p)
  \/ (\E i \in DOMAIN entries[p] : Munmap(p, i)) \/ Unmap(p) \/ Unlink(p)
  \/ Fork(p) \/ ForkPd(p) \/ ForkCopy(p) \/ ForkEnd(p)
  \/ Exec(p) \/ ExecClear(p) \/ ExecLoad(p)
  \/ Exit(p) \/ Kill(p) \/ DeletePd(p) \/ OutOfFrames(p)
Next == \E p \in Procs : Step(p)

Spec == Init /\ [][Next]_vars

-----------------------------------------------------------------------------
(***************************************************************************)
(* Properties.                                                             *)
(***************************************************************************)
FrameOrNone == Frames \union {None}
Entry == [start : 0..(Space - 1), size : 0..(Space - 1), file : Files \union {None},
          off : Nat, shared : BOOLEAN, read : BOOLEAN,
          node : NodeIds \union StaleIds \union {None, Junk}]
Call == [va : Nat, end : 0..(Space - 1), physical : BOOLEAN,
         frame : FrameOrNone, tail : NodeIds \union {None},
         node : NodeIds \union {None, Junk}, child : Procs \union {None}]

(* Every variable has the shape its declaration says.                      *)
TypeOK ==
  /\ supply \in Seq(Frames)
  /\ status \in [Procs -> {"unborn", "young", "live", "exited", "gone"}]
  /\ pc \in [Procs -> Points]
  /\ pd \in [Procs -> FrameOrNone]
  /\ table \in [Procs -> [Pdis -> FrameOrNone]]
  /\ page \in [Procs -> [Vpns -> FrameOrNone]]
  /\ entries \in [Procs -> Seq(Entry)]
  /\ call \in [Procs -> Call]
  /\ nodes \in Seq([file : Files, pa : Frames, num : 0..(NumMod - 1)])
  /\ nodeList \in Seq(DOMAIN nodes)
  /\ freed \subseteq NodeIds
  /\ shows \in [Frames -> {Zeroes, FreeLink} \union (Files \X Nat)]
  /\ halt \in {"no", "panic", "wild"}

(* The places of the processes that refer to frames: the directory, the    *)
(* tables, the pages, and a page fault that has a frame to map.            *)
Slots ==
  ({"pd", "fault"} \X Procs \X {0}) \union ({"table"} \X Procs \X Pdis)
    \union ({"page"} \X Procs \X Vpns)
Ref(s) ==
  CASE s[1] = "pd"    -> pd[s[2]]
    [] s[1] = "fault" -> call[s[2]].frame
    [] s[1] = "table" -> table[s[2]][s[3]]
    [] s[1] = "page"  -> page[s[2]][s[3]]

(* Who refers to frame f: a place in the supply, or one of a process.      *)
Owners(f) ==
  {<<"supply", i>> : i \in {j \in DOMAIN supply : supply[j] = f}}
    \union {s \in Slots : Ref(s) = f}

(* Without file mappings no frame has two uses: processes do not see each  *)
(* other's memory, tables are never handed out as pages, and nothing is    *)
(* freed twice or while in use, wherever a kill stops a fork, an exec or a *)
(* fault.                                                                  *)
OneOwner == \A f \in Frames : \A x, y \in Owners(f) : x = y

(* ... and none is lost, unless a process that may have been killed has    *)
(* ended: exec, munmap and the deletion of a process give back all that    *)
(* faults and fork took, and a deleted process keeps nothing.              *)
NoLeak ==
  /\ (\A p \in Killable : status[p] \notin {"exited", "gone"}) =>
       \A f \in Frames : Owners(f) # {}
  /\ \A s \in Slots : status[s[2]] \in {"unborn", "gone"} => Ref(s) = None

(***************************************************************************)
(* Why: what a process has in its hand at every step of its call.          *)
(***************************************************************************)
Faulting == {"alloc", "link", "read", "map"}

(* A call is made by a live process, which has a directory.                *)
CallInv(p) ==
  /\ status[p] # "live" => pc[p] = "user"
  /\ pc[p] = "user" => call[p] = NoCall
  /\ status[p] \in {"live", "exited"} => pd[p] # None

(* A fault is about a page that is not there, and an entry that is.        *)
FaultInv(p) ==
  /\ pc[p] \in Faulting => \E v \in Touches : call[p].va = v * FrameSize /\ page[p][v] = None
  /\ call[p].frame # None <=> pc[p] \in {"link", "read", "map"}
  /\ pc[p] \in {"alloc", "link", "read"} => Find(entries[p], call[p].va) # 0
  /\ pc[p] \in {"link", "read"} =>
       FromList(FaultEntry(p, call[p].va)) /\ call[p].node \in DOMAIN nodes

(* A page is in a table, and who is not there has none.                    *)
TableInv(p) ==
  /\ \A v \in Vpns : page[p][v] # None => table[p][Pdi(v)] # None
  /\ status[p] \in {"unborn", "gone"} => pd[p] = None /\ \A i \in Pdis : table[p][i] = None

(* A child is made by one parent.                                          *)
ForkInv ==
  \A p \in Procs : pc[p] = "fork" =>
    /\ call[p].child \in Procs /\ status[call[p].child] = "young"
    /\ \A q \in Procs : pc[q] = "fork" /\ call[q].child = call[p].child => q = p

(* The inductive invariant, whatever programs do.                          *)
SpaceInv ==
  /\ TypeOK /\ Len(nodes) <= MaxNodes
  /\ \A p \in Procs : CallInv(p) /\ FaultInv(p) /\ TableInv(p)
  /\ ForkInv

(* No program maps a file shared, so node_list stays empty, no mapping has *)
(* a node and munmap frees what it unmaps.                                 *)
NoSharedFiles == \A r \in Requests : ~FromList(r)
Private == {e \in Entry : ~FromList(e) /\ e.node \in {None, Junk}}
PrivateInv ==
  /\ nodes = << >> /\ nodeList = << >> /\ freed = {}
  /\ \A p \in Procs : /\ entries[p] \in Seq(Private)
                      /\ pc[p] = "unmap" => call[p].physical

(* The mappings in list es do not overlap and are in order.                *)
Apart(es) ==
  \A i, j \in DOMAIN es : i < j => es[i].start + es[i].size <= es[j].start

(* As long as some gap behind the given address is large enough, mmap puts *)
(* the new mapping where it overlaps no other and keeps the list in order. *)
(* At the given address it must end below 2^32: vmm.cc:238 adds in 32 bits *)
(* and takes a sum that wraps around for an end before the next mapping.   *)
Room(es, r) ==
  LET va == IF r.addr = 0 THEN Base ELSE r.addr
  IN  /\ va + FrameUp(r.length) < Space
      /\ \E k \in 2..Len(es) :
           va < es[k].start /\ End(es[k - 1]) + FrameUp(r.length) < es[k].start
MmapKeepsApart ==
  [][\A p \in Procs, r \in Requests :
       Mmap(p, r) /\ Apart(entries[p]) /\ Room(entries[p], r) => Apart(entries'[p])]_vars

(* A page that a live process has mapped is not free: munmap and exit free *)
(* the frame of a shared file only when no process maps it any more        *)
(* (vmm.cc:182, "Only deallocate from physical memory if this is the last  *)
(* process mapped to the file").                                           *)
NoDangling ==
  \A p \in Procs : status[p] = "live" =>
    \A v \in Vpns : \A i \in DOMAIN supply : page[p][v] # supply[i]

(* The page of a file that p has mapped, shared, and touched at v, if any. *)
FilePage(p, v) ==
  LET i == Find(entries[p], v * FrameSize)
      e == entries[p][i]
  IN  IF page[p][v] # None /\ i # 0 /\ FromList(e)
      THEN <<e.file, Vpn(e.off + v * FrameSize - e.start)>> ELSE Zeroes
FileViews == {x \in Procs \X Vpns : status[x[1]] = "live" /\ FilePage(x[1], x[2]) # Zeroes}

(* All shared mappings of a page of a file are one frame, in and across    *)
(* processes (t0.dir/sbin/init.c:31, "Another mapping of this file will be *)
(* shared across processes").                                              *)
SharedAsOne ==
  \A x, y \in FileViews :
    FilePage(x[1], x[2]) = FilePage(y[1], y[2]) => page[x[1]][x[2]] = page[y[1]][y[2]]

(* A page of a file mapped for reading shows the contents of the file      *)
(* (README:5, "the memory of region corresponds to a traditional file on   *)
(* disk").                                                                 *)
FilePageShown ==
  \A x \in FileViews :
    FaultEntry(x[1], x[2] * FrameSize).read =>
      shows[page[x[1]][x[2]]] = FilePage(x[1], x[2])

(* num_processes of a node in node_list is the number of mappings of its   *)
(* file that a fault has given the node (vmm.cc:310), when no call is      *)
(* under way; a mapping whose pointer freed memory left there is none.     *)
References(k) == {x \in Procs \X (1..MaxEntries) : x[2] \in DOMAIN entries[x[1]]
                                                  /\ entries[x[1]][x[2]].node = k}
CountExact ==
  (\A p \in Procs : pc[p] = "user") =>
    \A k \in Range(nodeList) : nodes[k].num = Cardinality(References(k)) /\ nodes[k].num > 0

=============================================================================
