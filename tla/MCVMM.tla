-------------------------------- MODULE MCVMM --------------------------------
(***************************************************************************)
(* Model checking of VMM.  Pages have two bytes; a table maps two pages,   *)
(* or the whole of the space where the run is about files.                 *)
(* The image is at the first page above Base and the stack before the      *)
(* APIC's page, the last one, in the same table; between them is the room  *)
(* that mmap can use.                                                      *)
(***************************************************************************)
EXTENDS VMM

CONSTANTS p1, p2, f1, f2

ImageAt == [addr |-> Base, length |-> FrameSize]
StackAt == [addr |-> Space - 2 * FrameSize, length |-> FrameSize]

Anon(addr, length, fixed) ==
  [addr |-> addr, length |-> length, file |-> None, off |-> 0,
   shared |-> FALSE, fixed |-> fixed, read |-> TRUE]
Shared(file, length) ==
  [addr |-> 0, length |-> length, file |-> file, off |-> 0,
   shared |-> TRUE, fixed |-> FALSE, read |-> TRUE]

(* No address, one inside the image, one behind it and one that runs into  *)
(* the stack, with and without MAP_FIXED; all but the first off a page     *)
(* boundary.                                                               *)
AddrRequests ==
  {Anon(a, 3, x) : a \in {0, Base + 1, Base + 3, Space - 2 * FrameSize - 1}, x \in BOOLEAN}
(* A page of a file.                                                       *)
FileRequests == {Shared(x, FrameSize) : x \in Files}
(* Two pages of a file.                                                    *)
LongRequests == {Shared(x, 2 * FrameSize) : x \in Files}

(* Nothing orders the files: permuting them is a symmetry.                 *)
FileSymmetry == Permutations(Files)

=============================================================================
