---------------------------- MODULE MCFileSearch ----------------------------
(* FileSearch on one directory: two .txt files, one of them longer than the  *)
(* queue and with a line that matches twice, one empty .txt file and one     *)
(* file that is skipped although it has lines.                               *)
EXTENDS FileSearch, TLC

CONSTANTS access, notes, empty, image

MCFile == {access, notes, empty, image}

MCTxtFile == {access, notes, empty}

MCContent == (access :> << 2, 0 >>) @@ (notes :> << 1 >>)
               @@ (empty :> << >>) @@ (image :> << 1 >>)
=============================================================================
