------------------------------ MODULE MCKernel ------------------------------
(* Model values for Kernel: one file of each type plus a missing name.    *)
EXTENDS Kernel

MCNames    == {"rtc", ".", "frame0.txt", "nofile"}
MCDentries == <<[name |-> ".",          type |-> "dir"],
                [name |-> "rtc",        type |-> "rtc"],
                [name |-> "frame0.txt", type |-> "file"]>>

(* The regular file: three bytes over two data blocks of two bytes, the   *)
(* blocks numbered out of order as the image may store them.              *)
MCInode == [file_length |-> 3, dblock_numbers |-> <<5, 2, 9>>]
(* vidmap pointers: the start of the user page, and the last byte of it,  *)
(* where the range check passes and the 4-byte store runs past the page.  *)
MCVidmapPtrs == {TOP_PAGE, BOTTOM_PAGE - 1}

(* Only the command the kernel itself passes.                             *)
MCShellOnly == {SHELL}

(* Commands a shell may pass: no argument, one argument, a trailing space *)
(* (an empty argument), and two the parse refuses (a leading space, two   *)
(* spaces).                                                               *)
MCCommands == {<<"x">>, <<"x", " ", "x">>, <<"x", " ">>, <<" ", "x">>,
               <<"x", " ", "x", " ", "x">>}

(* getargs sizes: too small for "x" and its NUL, exactly enough, and a    *)
(* negative int32_t.                                                      *)
MCGetargsSizes == {1, 2, -1}
=============================================================================
