------------------------------- MODULE MCFiles -------------------------------
(***************************************************************************)
(* Model checking of Files on a small image: blocks of 8 cells (2 sectors  *)
(* of 4), two groups of 12 blocks, 4 nodes of 8 cells in each.             *)
(*                                                                         *)
(*   /            2   sub, long, far, lost                                 *)
(*   /sub         3   .., short, link                                      *)
(*   /sub/short   4   5 cells                                              *)
(*   /long        5   19 cells: two direct blocks and an indirect one      *)
(*   /sub/link    6   sub/short, kept in the node                          *)
(*   /far         7   sub/../sub/link, kept in a block                     *)
(*   /lost        8   a link to a name that is not there                   *)
(***************************************************************************)
EXTENDS Files, TLC

Sub == 101
Long == 102
Short == 103
Link == 104
Far == 105
Up2 == 106
Lost == 107
Nowhere == 108

Blocks ==
  << <<0, 0, 0, 0, 0, 0, 0, 0>>,
     <<8, 21, 0, 12, 4, 8, 0, 0>>,            \* 1: superblock
     <<0, 0, 3, 0, 0, 0, 12, 0>>,             \* 2: group table
     <<0, 0, 0, 0, 0, 0, 0, 0>>,              \* 3: node 1
     <<Dir, 16, 4, 7, 8, 0, 0, 0>>,
     <<Dir, 16, 4, 9, 10, 0, 0, 0>>,
     <<Regular, 5, 2, 11, 0, 0, 0, 0>>,
     <<3, 4, 1, Sub, 5, 4, 1, Long>>,         \* 7
     <<7, 4, 1, Far, 8, 4, 1, Lost>>,
     <<2, 4, 1, Up2, 4, 4, 1, Short>>,        \* 9
     <<6, 8, 1, Link, 0, 0, 0, 0>>,
     <<301, 302, 303, 304, 305, 0, 0, 0>>,    \* 11
     <<Regular, 19, 8, 16, 17, 18, 0, 0>>,    \* 12: node 5
     <<Symlink, 2, 0, Sub, Short, 0, 0, 0>>,
     <<Symlink, 4, 2, 20, 0, 0, 0, 0>>,
     <<Symlink, 1, 0, Nowhere, 0, 0, 0, 0>>,
     <<201, 202, 203, 204, 205, 206, 207, 208>>,  \* 16
     <<209, 210, 211, 212, 213, 214, 215, 216>>,
     <<19, 0, 0, 0, 0, 0, 0, 0>>,             \* 18: the indirect block
     <<217, 218, 219, 0, 0, 0, 0, 0>>,
     <<Sub, Up2, Sub, Link, 0, 0, 0, 0>> >>

Image == [a \in 0..167 |-> Blocks[(a \div 8) + 1][(a % 8) + 1]]

NodeHolds ==
  [n \in 2..8 |-> CASE n = 2 -> Blocks[8] \o Blocks[9]
                    [] n = 3 -> Blocks[10] \o Blocks[11]
                    [] n = 4 -> [i \in 1..5 |-> 300 + i]
                    [] n = 5 -> [i \in 1..19 |-> 200 + i]
                    [] OTHER -> <<>>]

PathNames == <<Long>> :> 5 @@ <<Far>> :> 4 @@ <<Sub, Long>> :> None @@ <<Long, Short>> :> None
             @@ <<Lost>> :> None @@ <<>> :> 2
SomePaths == DOMAIN PathNames

(* The image holds what NodeHolds says: the hypothesis of the theorem that *)
(* reads give the file.                                                    *)
ASSUME ImageHolds == HoldsTheImage

Symmetry == Permutations(Descs)

=============================================================================
